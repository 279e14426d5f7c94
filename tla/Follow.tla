------------------------------- MODULE Follow -------------------------------
(***************************************************************************)
(* The two phases of --follow.  First what the log holds is indexed        *)
(* (main.rs, journal.rs ingest), then a worker thread follows it from the  *)
(* end of the file or from the cursor of the last journal entry and sends  *)
(* what is new through a bounded channel (spawn_follow_worker,             *)
(* spawn_follow), which the user interface drains a bounded number of      *)
(* records at a time (app/mod.rs, drain_live_channel).                     *)
(*                                                                         *)
(* An entry of the log is its number.  Rotation is Tail's concern.         *)
(***************************************************************************)
EXTENDS Integers, SequencesExt

CONSTANTS
  Kinds,       (* what is followed: "file", "journal"                      *)
  ChanCap,     (* capacity of the channel (8192 in the code)               *)
  DrainPerTick,(* LIVE_DRAIN_PER_TICK (4096)                               *)
  MaxEntries   (* bound on the entries of the log                          *)

ASSUME FollowAssumption ==
  /\ Kinds \subseteq {"file", "journal"}
  /\ ChanCap \in Nat \ {0} /\ DrainPerTick \in Nat \ {0} /\ MaxEntries \in Nat

(* No entry was backfilled: there is no cursor. *)
NoCursor == 0

VARIABLES
  kind,         (* what is followed                                         *)
  log,          (* how many entries the log holds                           *)
  after_cursor, (* the last entry the backfill saw                          *)
  worker,       (* where the worker thread is                               *)
  pos,          (* the last entry the worker has read                       *)
  chan,         (* the channel                                              *)
  live_rx,      (* whether the interface still holds the receiver           *)
  took,         (* records taken in this tick                               *)
  index         (* the entries in the index                                 *)

followVars == <<kind, log, after_cursor, worker, pos, chan, live_rx, took, index>>

FollowInit ==
  /\ kind \in Kinds
  /\ log \in 0 .. MaxEntries
  /\ after_cursor = NoCursor
  /\ worker = "none" /\ pos = 0
  /\ chan = <<>> /\ live_rx = FALSE
  /\ took = 0
  /\ index = <<>>

(* Something is logged. *)
Log ==
  /\ log < MaxEntries
  /\ log' = log + 1
  /\ UNCHANGED <<kind, after_cursor, worker, pos, chan, live_rx, took, index>>

(* The backfill reads to the end of the log, wherever that is when it gets *)
(* there, and remembers the cursor of the last entry it saw.               *)
Backfill ==
  /\ worker = "none"
  /\ index' = [i \in 1 .. log |-> i]
  /\ after_cursor' = IF kind = "journal" THEN log ELSE NoCursor
  /\ worker' = "starting"
  /\ live_rx' = TRUE
  /\ UNCHANGED <<kind, log, pos, chan, took>>

(* Faulty: a journal is followed from now on, cursor or not. *)
StartFromNow ==
  /\ worker = "starting"
  /\ pos' = log
  /\ worker' = "running"
  /\ UNCHANGED <<kind, log, after_cursor, chan, live_rx, took, index>>

(* The worker opens its source: after the cursor if there is one, at the   *)
(* end of what was logged by then if not.                                  *)
Start ==
  /\ worker = "starting"
  /\ pos' = IF after_cursor # NoCursor THEN after_cursor ELSE log
  /\ worker' = "running"
  /\ UNCHANGED <<kind, log, after_cursor, chan, live_rx, took, index>>

(* Faulty: what finds no room in the channel is passed over. *)
SendDrops ==
  /\ worker = "running" /\ pos < log
  /\ pos' = pos + 1
  /\ chan' = IF Len(chan) < ChanCap THEN Append(chan, pos + 1) ELSE chan
  /\ UNCHANGED <<kind, log, after_cursor, worker, live_rx, took, index>>

(* It reads an entry and sends it; the send waits while the channel is     *)
(* full.                                                                   *)
Send ==
  /\ worker = "running" /\ pos < log /\ Len(chan) < ChanCap
  /\ pos' = pos + 1
  /\ chan' = Append(chan, pos + 1)
  /\ UNCHANGED <<kind, log, after_cursor, worker, live_rx, took, index>>

(* The source cannot be opened, or is gone: the worker drops its sender.   *)
Gone ==
  /\ worker \in {"starting", "running"}
  /\ worker' = "gone"
  /\ UNCHANGED <<kind, log, after_cursor, pos, chan, live_rx, took, index>>

(* drain_live_channel(): one record into the index, *)
Take ==
  /\ live_rx /\ chan # <<>> /\ took < DrainPerTick
  /\ index' = Append(index, Head(chan))
  /\ chan' = Tail(chan)
  /\ took' = took + 1
  /\ UNCHANGED <<kind, log, after_cursor, worker, pos, live_rx>>

(* Faulty: the count of a tick is never set back. *)
EmptyCounting ==
  /\ live_rx /\ chan = <<>>
  /\ live_rx' = (worker # "gone")
  /\ UNCHANGED <<kind, log, after_cursor, worker, pos, chan, took, index>>

(* until the channel is empty, for now or for good, or enough were taken;  *)
(* the screen is drawn and the next tick begins.                           *)
TickEnds ==
  /\ live_rx
  /\ chan = <<>> \/ took = DrainPerTick
  /\ live_rx' = ~(chan = <<>> /\ took < DrainPerTick /\ worker = "gone")
  /\ took' = 0
  /\ UNCHANGED <<kind, log, after_cursor, worker, pos, chan, index>>

(* Without a receiver the interface goes on with what was indexed. *)
Idle ==
  /\ worker = "gone" /\ ~live_rx
  /\ UNCHANGED followVars

FollowNext ==
  \/ Log
  \/ Backfill \/ Start \/ Send \/ Gone
  \/ Take \/ TickEnds \/ Idle

FollowSpec == FollowInit /\ [][FollowNext]_followVars

FollowFairSpec == FollowSpec /\ WF_followVars(Start) /\ WF_followVars(Send) /\ WF_followVars(Take) /\ WF_followVars(TickEnds)

-----------------------------------------------------------------------------
(* What came in: it is in the index, or on its way to it. *)
Landed == index \o chan

(* The two phases fit together.  They do not overlap: no entry lands       *)
(* twice, and they land in the order they were logged, which the index     *)
(* relies on.  A journal followed from a cursor has no gap either: what    *)
(* landed is everything from the first entry on.  (A backfill that found   *)
(* nothing has no cursor, and there what is logged before the worker       *)
(* starts never lands.)  And a worker that goes away takes nothing with    *)
(* it: what it had sent is indexed before the receiver is dropped.  It     *)
(* says of the follower alone what ImplementsFeed, which implies it, says  *)
(* of the log as a whole.                                                  *)
LandsOnce ==
  /\ \A i \in 1 .. Len(Landed) - 1 : Landed[i] < Landed[i + 1]
  /\ after_cursor # NoCursor => Landed = [i \in 1 .. Len(Landed) |-> i]
  /\ (worker # "none" /\ ~live_rx) => chan = <<>>

(* While the worker lives, what is logged is seen, however fast it comes.  *)
Arrives ==
  \A n \in 1 .. MaxEntries :
    (worker = "running" /\ pos < n /\ n <= log)
      ~> (worker = "gone" \/ n \in Range(index))

(* The log as LogFeed sees it. *)
Feed == INSTANCE LogFeed WITH
  resumes <- kind = "journal", logged <- log, phase <- worker, place <- pos,
  landed <- Landed, seen <- Len(index), open <- live_rx

(* The two phases, the thread and the channel together are such a feed: a  *)
(* file too has no gap but the one between the phases, a burst loses       *)
(* nothing to a full channel or to the end of a tick, and the interface    *)
(* waits for more until it has indexed all that was sent                   *)
(* (spawn_follow_worker, spawn_follow and drain_live_channel).             *)
ImplementsFeed == Feed!Spec
=============================================================================
