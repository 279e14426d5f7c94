----------------------------- MODULE Collapser -----------------------------
(***************************************************************************)
(* Collapser<T> of pulse-tui/src/collapse.rs as a component: any caller    *)
(* may offer events, flush and finish, in any order and with any clock.    *)
(* The clock is the caller's: a replay passes the records' own times,      *)
(* which run backwards in an unsorted file, so no order is assumed.        *)
(*                                                                         *)
(* `history' and `reported' are history variables.  history[i] is the i-th *)
(* event offered: its key, the time it was offered at, and its home, the   *)
(* event whose window took it in (itself when it was let through).         *)
(* `reported' holds the summaries handed to the caller.                    *)
(***************************************************************************)
EXTENDS CollapseTable, Sequences

CONSTANTS
  Readings,    (* the clock readings a caller may pass in                  *)
  MaxOffers    (* bound on the number of events offered                    *)

ASSUME ReadingsAssumption == Readings \subseteq Time /\ MaxOffers \in Nat

VARIABLES table, history, reported

vars == <<table, history, reported>>

Init ==
  /\ table = EmptyTable
  /\ history = <<>>
  /\ reported = {}

NextEvent == Len(history) + 1

Record(k, now, home) ==
  history' = Append(history, [key |-> k, at |-> now, home |-> home])

(* offer() on a key whose window is open: counted, nothing goes out. *)
OfferSuppressed(k, now) ==
  /\ Suppressed(table, k, now)
  /\ table' = Hold(table, k, NextEvent)
  /\ Record(k, now, table.entries[k].sample)
  /\ UNCHANGED reported

(* offer() on any other key: the event goes out. *)
OfferEmitted(k, now) ==
  /\ ~Suppressed(table, k, now)
  /\ table' = Track(table, k, NextEvent, now)
  /\ Record(k, now, NextEvent)
  /\ UNCHANGED reported

Flush(now) ==
  /\ reported' = reported \cup Expire(table, now).closed
  /\ table' = Taken(Expire(table, now))
  /\ UNCHANGED history

Finish ==
  /\ reported' = reported \cup Shut(table, DOMAIN table.entries).closed
  /\ table' = Taken(Shut(table, DOMAIN table.entries))
  /\ UNCHANGED history

Next ==
  \/ \E k \in Keys, now \in Readings :
       /\ Len(history) < MaxOffers
       /\ OfferSuppressed(k, now) \/ OfferEmitted(k, now)
  \/ \E now \in Readings : Flush(now)
  \/ Finish

Spec == Init /\ [][Next]_vars

-----------------------------------------------------------------------------
Events == DOMAIN history

Windows == OpenWindows(table) \cup table.closed \cup reported

(* The events the window opened by event s took in. *)
HeldBy(s) == {i \in Events : i # s /\ history[i].home = s}

(***************************************************************************)
(* Type correctness of the table, the summaries and the history.           *)
(***************************************************************************)
TypeOK ==
  /\ IsTable(table)
  /\ reported \subseteq SummaryType
  /\ history \in Seq([key : Keys, at : Time, home : Nat])

(***************************************************************************)
(* The count behind a window, open, closed or reported, is the number of   *)
(* events it held back, and `last' is the latest of them: what the "last   *)
(* message" line of a repeat notice shows.                                 *)
(***************************************************************************)
SummariesTrue ==
  \A w \in Windows :
    /\ w.count = Cardinality(HeldBy(w.sample))
    /\ w.count > 0 => /\ w.last \in HeldBy(w.sample)
                      /\ \A i \in HeldBy(w.sample) : i <= w.last
    /\ w.sample \in Events
    /\ history[w.sample].key = w.key /\ history[w.sample].home = w.sample

(***************************************************************************)
(* An event held back is counted by a window that is still open or whose   *)
(* summary waits or went out, and by one only: whatever the order of       *)
(* offers, flushes and clock readings, no repeat vanishes when a window is *)
(* closed by a new occurrence, by a full table or by shutdown, and none is *)
(* told of twice.                                                          *)
(***************************************************************************)
HeldOnce ==
  /\ \A i \in Events : history[i].home # i =>
       \E w \in Windows : w.sample = history[i].home
  /\ \A v, w \in Windows : v.sample = w.sample => v = w
  /\ OpenWindows(table) \cap table.closed = {}
  /\ (OpenWindows(table) \cup table.closed) \cap reported = {}

(***************************************************************************)
(* An event is held back only behind an earlier event of its own key that  *)
(* went out itself, less than the window before it by the caller's clock.  *)
(***************************************************************************)
HeldInWindow ==
  \A i \in Events :
    LET s == history[i].home
    IN  s # i => /\ s \in 1 .. (i - 1)
                 /\ history[s].home = s
                 /\ history[s].key = history[i].key
                 /\ history[i].at - history[s].at < Window

(***************************************************************************)
(* However many distinct keys a noisy log has, the table never holds more  *)
(* than MAX_KEYS windows.                                                  *)
(***************************************************************************)
TableBounded == Cardinality(DOMAIN table.entries) <= MaxKeys

(***************************************************************************)
(* The table implements the ledger of counts: what is shown, held and told *)
(* adds up key by key.  Every window of a key claims as many repeats as it *)
(* counts; a claim is numbered within its window, and a window is known by *)
(* the event that opened it.                                               *)
(***************************************************************************)
Claims(W, k) ==
  UNION {{w.sample} \X (1 .. w.count) : w \in {v \in W : v.key = k}}

Shown(k) == {i \in Events : history[i].key = k /\ history[i].home = i}

Ledger == INSTANCE RepeatLedger WITH
  shown <- [k \in Keys |-> Cardinality(Shown(k))],
  held  <- [k \in Keys |-> Cardinality(Claims(OpenWindows(table) \cup table.closed, k))],
  told  <- [k \in Keys |-> Cardinality(Claims(reported, k))]

ImplementsLedger == Ledger!Spec
=============================================================================
