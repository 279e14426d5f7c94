------------------------------- MODULE Watch -------------------------------
(***************************************************************************)
(* Watch mode: one reader thread per source pumps events into a bounded    *)
(* channel (pulse-tui/src/sources.rs, Feed and pump), the main thread      *)
(* matches them against the rules, collapses repeats and prints what is    *)
(* left (pulse-tui/src/watch.rs, Watcher and run_plan).                    *)
(*                                                                         *)
(* An event is its source, its text and its timestamp.  Which rule it hits *)
(* depends on the text.  Two events collapse into one window when rule,    *)
(* source and (normalised) text agree, so Keys are such triples.  Payloads *)
(* play no part here and are all NoEvent: a flush yields at most one       *)
(* summary per key, which tells the summaries apart.                       *)
(***************************************************************************)
EXTENDS CollapseTable, FiniteSetsExt, Sequences

CONSTANTS
  Sources,     (* the sources of the plan                                  *)
  Pipes,       (* those read from a pipe: they end when their writer does  *)
  Journals,    (* pipes from a journalctl that the feed started and kills  *)
  Archives,    (* compressed files: read once, never followed or written   *)
  Texts,       (* normalised message texts                                 *)
  Rules,       (* the rules in priority order, each the texts it matches   *)
  Stamps,      (* the timestamps records may carry                         *)
  Since,       (* --since: older timed records are dropped                 *)
  ChanCap,     (* capacity of the channel (8192 in the code)               *)
  MaxLines,    (* bound on the lines written to all sources, and on those  *)
               (* an archive holds                                         *)
  Horizon      (* bound on the wall clock while anything is in flight      *)

(* A record without a timestamp carries i64::MIN. *)
Untimed == TimeMin

RuleIds == 1 .. Len(Rules)

ASSUME WatchAssumption ==
  /\ IsFiniteSet(Sources) /\ Sources # {}
  /\ Pipes \subseteq Sources /\ Journals \subseteq Pipes
  /\ Archives \subseteq Sources \ Pipes
  /\ Rules \in Seq(SUBSET Texts) /\ Len(Rules) > 0
  /\ Keys = RuleIds \X Sources \X Texts
  /\ Stamps \subseteq Time /\ Since \in Time
  /\ ChanCap \in Nat \ {0} /\ MaxLines \in Nat
  /\ Horizon \in Nat /\ Horizon + Window <= TimeMax

VARIABLES
  follow,      (* the watch follows its sources; otherwise it replays them *)
  unread,      (* lines of each source not yet read                        *)
  written,     (* lines written so far                                     *)
  pump,        (* where each reader thread is                              *)
  hand,        (* the event a reader thread is about to send               *)
  chan,        (* the channel                                              *)
  live,        (* sources whose end the main thread has not seen           *)
  phase,       (* where the main thread is                                 *)
  batch,       (* notices of the current step not yet printed              *)
  table,       (* the collapse table                                       *)
  clock,       (* the wall clock                                           *)
  stdout,      (* whether the reader of our output is still there          *)
  matches,     (* events that matched, by key; WatchState::matches has the *)
               (* sum of each rule                                         *)
  shown,       (* match notices printed, by key                            *)
  told         (* repeats reported in printed summaries, by key            *)

feed == <<unread, written, pump, hand>>
tally == <<matches, shown, told>>
vars == <<follow, feed, chan, live, phase, batch, table, clock, stdout, tally>>

None == [none |-> TRUE]
EventMsg(e) == [type |-> "event", event |-> e]
EndedMsg(s) == [type |-> "ended", source |-> s]
NoBatch == [repeats |-> {}, match |-> {}]

Init ==
  /\ follow \in BOOLEAN
  /\ unread \in {u \in [Sources -> 0 .. MaxLines] : \A s \in Sources \ Archives : u[s] = 0}
  /\ written = 0
  /\ pump = [s \in Sources |-> "reading"]
  /\ hand = [s \in Sources |-> None]
  /\ chan = <<>>
  /\ live = Cardinality(Sources)
  /\ phase = "receive"
  /\ batch = NoBatch
  /\ table = EmptyTable
  /\ clock = 0
  /\ stdout = "open"
  /\ matches = [key \in Keys |-> 0]
  /\ shown = [key \in Keys |-> 0]
  /\ told = [key \in Keys |-> 0]

-----------------------------------------------------------------------------
(* The feed's stop flag is set, and its receiver dropped, as the main      *)
(* thread leaves run_plan.                                                 *)
Stopped == phase = "exited"

(* Someone appends a line to a source. *)
Write(s) ==
  /\ s \notin Archives /\ written < MaxLines /\ clock <= Horizon
  /\ unread' = [unread EXCEPT ![s] = @ + 1]
  /\ written' = written + 1
  /\ UNCHANGED <<follow, pump, hand, chan, live, phase, batch, table, clock, stdout, tally>>

(* --since applies to timed records; journalctl does its own filtering. *)
Passed(s, ts) == s \notin Journals /\ ts # Untimed /\ ts < Since

(* pump(): the next record is older than --since and is passed over. *)
Skip(s) ==
  /\ pump[s] = "reading" /\ unread[s] > 0
  /\ \E ts \in Stamps : Passed(s, ts)
  /\ unread' = [unread EXCEPT ![s] = @ - 1]
  /\ UNCHANGED <<follow, written, pump, hand, chan, live, phase, batch, table, clock, stdout, tally>>

(* pump(): any other record becomes an event. *)
Read(s) ==
  /\ pump[s] = "reading" /\ unread[s] > 0
  /\ \E text \in Texts, ts \in {t \in Stamps : ~Passed(s, t)} :
       hand' = [hand EXCEPT ![s] = [source |-> s, text |-> text, ts |-> ts]]
  /\ unread' = [unread EXCEPT ![s] = @ - 1]
  /\ pump' = [pump EXCEPT ![s] = "sending"]
  /\ UNCHANGED <<follow, written, chan, live, phase, batch, table, clock, stdout, tally>>

(* Faulty: a replayed file or an archive is followed, too. *)
EndOfFollowed(s) ==
  /\ pump[s] = "reading" /\ unread[s] = 0
  /\ s \notin Pipes
  /\ Stopped
  /\ pump' = [pump EXCEPT ![s] = "ending"]
  /\ UNCHANGED <<follow, unread, written, hand, chan, live, phase, batch, table, clock, stdout, tally>>

(* End of input: an archive and a replayed file are read to their end, a   *)
(* followed one only ends once the stop flag is set.                       *)
EndOfFile(s) ==
  /\ pump[s] = "reading" /\ unread[s] = 0
  /\ s \notin Pipes
  /\ ~follow \/ s \in Archives \/ Stopped
  /\ pump' = [pump EXCEPT ![s] = "ending"]
  /\ UNCHANGED <<follow, unread, written, hand, chan, live, phase, batch, table, clock, stdout, tally>>

(* Faulty: a reader whose pipe breaks returns without a word. *)
EndOfPipeSilently(s) ==
  /\ pump[s] = "reading" /\ unread[s] = 0
  /\ s \in Pipes
  /\ pump' = [pump EXCEPT ![s] = "done"]
  /\ UNCHANGED <<follow, unread, written, hand, chan, live, phase, batch, table, clock, stdout, tally>>

(* A pipe ends when its writer goes away, whatever the mode. *)
EndOfPipe(s) ==
  /\ pump[s] = "reading" /\ unread[s] = 0
  /\ s \in Pipes
  /\ pump' = [pump EXCEPT ![s] = "ending"]
  /\ UNCHANGED <<follow, unread, written, hand, chan, live, phase, batch, table, clock, stdout, tally>>

(* StreamProducer::next() takes an I/O error for the end, whatever the     *)
(* mode and whatever is left to read.  A rotated file that is gone when    *)
(* its follower opens it again is such an error, so is a damaged archive.  *)
BreakOff(s) ==
  /\ pump[s] = "reading"
  /\ pump' = [pump EXCEPT ![s] = "ending"]
  /\ UNCHANGED <<follow, unread, written, hand, chan, live, phase, batch, table, clock, stdout, tally>>

(* A send blocks while the channel is full and fails once the receiver is  *)
(* gone, which ends the thread without another word.                       *)
Send(s) ==
  /\ pump[s] = "sending"
  /\ \/ /\ ~Stopped /\ Len(chan) < ChanCap
        /\ chan' = Append(chan, EventMsg(hand[s]))
        /\ pump' = [pump EXCEPT ![s] = "reading"]
     \/ /\ Stopped
        /\ pump' = [pump EXCEPT ![s] = "done"]
        /\ UNCHANGED chan
  /\ hand' = [hand EXCEPT ![s] = None]
  /\ UNCHANGED <<follow, unread, written, live, phase, batch, table, clock, stdout, tally>>

SendEnded(s) ==
  /\ pump[s] = "ending"
  /\ \/ /\ ~Stopped /\ Len(chan) < ChanCap
        /\ chan' = Append(chan, EndedMsg(s))
     \/ Stopped /\ UNCHANGED chan
  /\ pump' = [pump EXCEPT ![s] = "done"]
  /\ UNCHANGED <<follow, unread, written, hand, live, phase, batch, table, clock, stdout, tally>>

-----------------------------------------------------------------------------
(* The first rule that matches wins; 0 when none does. *)
RuleOf(text) ==
  LET hits == {r \in RuleIds : text \in Rules[r]}
  IN  IF hits = {} THEN 0 ELSE Min(hits)

(* The time the collapser is given for an event. *)
EventTime(e) == IF ~follow /\ e.ts # Untimed THEN e.ts ELSE clock

(* Faulty: what the windows hold at the end of the loop is forgotten. *)
NextPhaseNoFinish(n) == IF n > 0 THEN "receive" ELSE "exited"

(* The loop runs on while a source is live. *)
NextPhase(n) == IF n > 0 THEN "receive" ELSE "finish"

(* Print the notices of a step, or go on if it has none. *)
Emit(b, then) ==
  /\ batch' = b
  /\ phase' = IF b = NoBatch THEN then ELSE "print"

(* Watcher::on_event: windows that are over are told first, then the event *)
(* is matched and offered to the collapser.                                *)
OnEvent ==
  /\ phase = "receive" /\ chan # <<>> /\ Head(chan).type = "event"
  /\ LET e    == Head(chan).event
         now  == EventTime(e)
         r    == RuleOf(e.text)
         key  == <<r, e.source, e.text>>
         over == Expire(table, now)
     IN  \/ /\ r = 0
            /\ table' = Taken(over)
            /\ Emit([repeats |-> over.closed, match |-> {}], "receive")
            /\ UNCHANGED matches
         \/ /\ r # 0 /\ Suppressed(Taken(over), key, now)
            /\ table' = Hold(Taken(over), key, NoEvent)
            /\ Emit([repeats |-> over.closed, match |-> {}], "receive")
            /\ matches' = [matches EXCEPT ![key] = @ + 1]
         \/ /\ r # 0 /\ ~Suppressed(Taken(over), key, now)
            /\ table' = Track(Taken(over), key, NoEvent, now)
            /\ Emit([repeats |-> over.closed, match |-> {key}], "receive")
            /\ matches' = [matches EXCEPT ![key] = @ + 1]
  /\ chan' = Tail(chan)
  /\ UNCHANGED <<follow, feed, live, clock, stdout, shown, told>>

(* A source ended; the loop runs on while any is left. *)
OnEnded ==
  /\ phase = "receive" /\ chan # <<>> /\ Head(chan).type = "ended"
  /\ live' = live - 1
  /\ phase' = NextPhase(live - 1)
  /\ chan' = Tail(chan)
  /\ UNCHANGED <<follow, feed, batch, table, clock, stdout, tally>>

(* Faulty: the windows that a tick closes are not told. *)
OnTimeoutUntold ==
  /\ phase = "receive" /\ chan = <<>>
  /\ follow
  /\ table' = Taken(Expire(table, clock))
  /\ UNCHANGED <<follow, feed, chan, live, phase, batch, clock, stdout, tally>>

(* Faulty: the timeout closes windows in a replay, not in a live watch. *)
OnTimeoutReplay ==
  /\ phase = "receive" /\ chan = <<>>
  /\ ~follow
  /\ table' = Taken(Expire(table, clock))
  /\ Emit([repeats |-> Expire(table, clock).closed, match |-> {}], "receive")
  /\ UNCHANGED <<follow, feed, chan, live, clock, stdout, tally>>

(* Nothing came for a second: a live watch closes windows by the clock. *)
OnTimeout ==
  /\ phase = "receive" /\ chan = <<>>
  /\ follow
  /\ table' = Taken(Expire(table, clock))
  /\ Emit([repeats |-> Expire(table, clock).closed, match |-> {}], "receive")
  /\ UNCHANGED <<follow, feed, chan, live, clock, stdout, tally>>

(* After the loop every window is closed. *)
OnFinish ==
  /\ phase = "finish"
  /\ table' = EmptyTable
  /\ Emit([repeats |-> Shut(table, DOMAIN table.entries).closed, match |-> {}], "exited")
  /\ UNCHANGED <<follow, feed, chan, live, clock, stdout, tally>>

(* The notices are printed one by one, repeats before the match. *)
PrintRepeat(w) ==
  /\ phase = "print" /\ stdout = "open" /\ w \in batch.repeats
  /\ told' = [told EXCEPT ![w.key] = @ + w.count]
  /\ Emit([batch EXCEPT !.repeats = @ \ {w}], IF live > 0 THEN "receive" ELSE "exited")
  /\ UNCHANGED <<follow, feed, chan, live, table, clock, stdout, matches, shown>>

PrintMatch(key) ==
  /\ phase = "print" /\ stdout = "open" /\ batch.repeats = {} /\ key \in batch.match
  /\ shown' = [shown EXCEPT ![key] = @ + 1]
  /\ Emit(NoBatch, "receive")
  /\ UNCHANGED <<follow, feed, chan, live, table, clock, stdout, matches, told>>

(* Our reader is gone: the write fails and the watch ends quietly. *)
PrintFails ==
  /\ phase = "print" /\ stdout = "closed"
  /\ phase' = "exited"
  /\ UNCHANGED <<follow, feed, chan, live, batch, table, clock, stdout, tally>>

-----------------------------------------------------------------------------
CloseStdout ==
  /\ stdout = "open"
  /\ stdout' = "closed"
  /\ UNCHANGED <<follow, feed, chan, live, phase, batch, table, clock, tally>>

(* Time passes.  At the horizon it waits for what is in flight, then runs  *)
(* on until every window is over.                                          *)
InFlight ==
  \/ chan # <<>> \/ phase = "print"
  \/ \E s \in Sources : (unread[s] > 0 /\ pump[s] = "reading") \/ pump[s] = "sending"

Tick ==
  /\ clock < Horizon \/ (~InFlight /\ clock < Horizon + Window)
  /\ clock' = clock + 1
  /\ UNCHANGED <<follow, feed, chan, live, phase, batch, table, stdout, tally>>

Ended ==
  /\ phase = "exited" /\ \A s \in Sources : pump[s] = "done"
  /\ UNCHANGED vars

Pump(s) == Skip(s) \/ Read(s) \/ EndOfFile(s) \/ Send(s) \/ SendEnded(s)

Main ==
  \/ OnEvent \/ OnEnded \/ OnTimeout \/ OnFinish
  \/ \E w \in batch.repeats : PrintRepeat(w)
  \/ \E key \in batch.match : PrintMatch(key)
  \/ PrintFails

Next ==
  \/ \E s \in Sources : Write(s) \/ Pump(s) \/ EndOfPipe(s) \/ BreakOff(s)
  \/ Main
  \/ CloseStdout \/ Tick \/ Ended

Spec == Init /\ [][Next]_vars

(* The threads are scheduled by the operating system and time goes on.     *)
(* Nothing obliges a writer to write or to go away, or our reader to stay. *)
(* A killed journalctl does go away.                                       *)
FairSpec ==
  /\ Spec
  /\ WF_vars(Main) /\ WF_vars(Tick)
  /\ \A s \in Sources : WF_vars(Pump(s))
  /\ \A s \in Journals : WF_vars(Stopped /\ EndOfPipe(s))

-----------------------------------------------------------------------------

(* The summary of a key, and the repeats it stands for. *)
Of(key, summaries) == {w \in summaries : w.key = key}

Repeats(key, summaries) ==
  IF Of(key, summaries) = {} THEN 0 ELSE (CHOOSE w \in Of(key, summaries) : TRUE).count

(* No match is lost or told of twice on its way through the collapse: the  *)
(* events of a key that were counted are those printed, those told of as   *)
(* repeats, those in its open window and those in the notices about to be  *)
(* printed; and no summary is kept back or made twice.                     *)
MatchesAccounted ==
  /\ table.closed = {}
  /\ \A key \in Keys :
       /\ \A w, v \in Of(key, batch.repeats) : w = v
       /\ matches[key] = shown[key] + told[key]
                         + Repeats(key, OpenWindows(table)) + Repeats(key, batch.repeats)
                         + (IF key \in batch.match THEN 1 ELSE 0)

(* A watch that ends with its output still read has printed everything:    *)
(* no event that was read of any source is left behind, and every match    *)
(* was shown or is part of a repeat that was told.  (What a reader that    *)
(* broke off did not read is lost, silently.)                              *)
ExitComplete ==
  (phase = "exited" /\ stdout = "open") =>
    /\ \A s \in Sources : pump[s] = "done"
    /\ chan = <<>>
    /\ \A key \in Keys : matches[key] = shown[key] + told[key]

(* The main loop counts ends, not threads: while it runs, what it believes *)
(* alive is the readers still at work and those whose end waits in the     *)
(* channel.  So it never waits on a channel that nobody can write to (the  *)
(* Disconnected arm is dead code), and it never stops early.               *)
LiveCounts ==
  ~Stopped =>
    live = Cardinality({s \in Sources : pump[s] # "done"})
           + Cardinality({i \in DOMAIN chan : chan[i].type = "ended"})

(* Nobody waits on anybody for ever.  Once every pipe is gone a replay     *)
(* ends, and so does a watch of pipes and archives; and when the main thread       *)
(* leaves, no reader stays behind blocked on a full channel: only a pipe   *)
(* we did not start may keep its reader waiting.                           *)
WatchSettles ==
  /\ (\A s \in Sources : pump[s] = "done" \/ s \in Archives \/ (~follow /\ s \notin Pipes)) ~> Stopped
  /\ \A s \in Sources \ (Pipes \ Journals) : Stopped ~> (pump[s] = "done")

(* In a live watch what was held back is told once its window is over,     *)
(* even if no other event ever arrives: the output catches up with the     *)
(* matches.                                                                *)
HeldIsTold ==
  \A key \in {k \in Keys : RuleOf(k[3]) = k[1]} :
    (follow /\ matches[key] > shown[key]) ~>
      (matches[key] = shown[key] + told[key] \/ stdout = "closed")
=============================================================================
