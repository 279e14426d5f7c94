--------------------------- MODULE CollapseTable ---------------------------
(***************************************************************************)
(* The table of open windows behind watch mode's repeat collapsing         *)
(* (pulse-tui/src/collapse.rs, Collapser<T>), as operators on its value.   *)
(*                                                                         *)
(* A table is a record                                                     *)
(*   entries : a function from the tracked keys to their open windows,     *)
(*             [opened, count, sample, last];                              *)
(*   closed  : the summaries of windows that closed and were not handed    *)
(*             to the caller yet.                                          *)
(* A payload is the number of the event it stands for.  The code keeps     *)
(* `closed' as a Vec filled in the iteration order of a HashMap, which is  *)
(* arbitrary, so it is a set here; a summary is told from another by its   *)
(* sample, the event that opened the window.                               *)
(***************************************************************************)
EXTENDS Integers, FiniteSets, Functions

CONSTANTS
  Keys,      (* what events are grouped by: rule, source, normalised text  *)
  Duration,  (* the configured window, in ticks of the clock               *)
  MaxKeys,   (* MAX_KEYS: how many windows may be open at once             *)
  TimeMin,   (* i64::MIN, the smallest time that can be represented        *)
  TimeMax    (* i64::MAX, the largest                                      *)

ASSUME CollapseAssumption ==
  /\ Duration \in Nat
  /\ MaxKeys \in Nat \ {0}
  /\ TimeMin \in Int /\ TimeMax \in Int
  /\ TimeMin < 0 /\ 0 < TimeMax

Time == TimeMin .. TimeMax

(* No repeat was held back yet: `last' is None. *)
NoEvent == 0

(* Collapser::new: a duration too long for an i64 is cut to i64::MAX. *)
Window == IF Duration > TimeMax THEN TimeMax ELSE Duration

(* Faulty: a subtraction that wraps around. *)
WrapSub(a, b) ==
  LET d == a - b
      width == TimeMax - TimeMin + 1
  IN  IF d > TimeMax THEN d - width ELSE IF d < TimeMin THEN d + width ELSE d

(* i64::saturating_sub. *)
SatSub(a, b) ==
  LET d == a - b
  IN  IF d > TimeMax THEN TimeMax ELSE IF d < TimeMin THEN TimeMin ELSE d

Entry == [opened : Time, count : Nat, sample : Nat, last : Nat]

SummaryType == [key : Keys, count : Nat, sample : Nat, last : Nat]

IsTable(c) ==
  /\ c = [entries |-> c.entries, closed |-> c.closed]
  /\ DOMAIN c.entries \subseteq Keys
  /\ c.entries \in [DOMAIN c.entries -> Entry]
  /\ c.closed \subseteq SummaryType

EmptyTable == [entries |-> [k \in {} |-> NoEvent], closed |-> {}]

(***************************************************************************)
(* Windows that close.                                                     *)
(***************************************************************************)
Summary(k, e) ==
  [key |-> k, count |-> e.count, sample |-> e.sample, last |-> e.last]

OpenWindows(c) == {Summary(k, c.entries[k]) : k \in DOMAIN c.entries}

(* Remove the windows of the keys in S; those that held something back     *)
(* leave a summary (Collapser::close).                                     *)
Shut(c, S) ==
  [entries |-> Restrict(c.entries, DOMAIN c.entries \ S),
   closed  |-> c.closed \cup
               {Summary(k, c.entries[k]) :
                  k \in {j \in DOMAIN c.entries \cap S : c.entries[j].count > 0}}]

ExpiredKeys(c, now) ==
  {k \in DOMAIN c.entries : SatSub(now, c.entries[k].opened) >= Window}

Expire(c, now) == Shut(c, ExpiredKeys(c, now))

(* Faulty: the summaries are copied out and stay in the table. *)
NotTaken(c) == c

(* What take() leaves once the caller has the summaries. *)
Taken(c) == [entries |-> c.entries, closed |-> {}]

(***************************************************************************)
(* Collapser::offer.                                                       *)
(***************************************************************************)
Suppressed(c, k, now) ==
  /\ Window # 0
  /\ k \in DOMAIN c.entries
  /\ SatSub(now, c.entries[k].opened) < Window

(* Faulty: `last' keeps the first repeat of the window. *)
HoldFirst(c, k, payload) ==
  [c EXCEPT !.entries[k] =
     [@ EXCEPT !.count = @ + 1, !.last = IF @ = NoEvent THEN payload ELSE @]]

Hold(c, k, payload) ==
  LET e == c.entries[k]
      counted == [opened |-> e.opened, count |-> e.count + 1,
                  sample |-> e.sample, last |-> payload]
  IN  [entries |-> [c.entries EXCEPT ![k] = counted], closed |-> c.closed]

Full(c) == Cardinality(DOMAIN c.entries) >= MaxKeys

(* Faulty: the stale window of k is overwritten, not closed. *)
RoomOverwriting(c, k, now) == IF Full(c) THEN Expire(c, now) ELSE c

(* The table at the insertion: a stale window of k is closed first, and a  *)
(* full table is cleared of every window whose time is up.                 *)
Room(c, k, now) ==
  LET kept == Shut(c, {k})
  IN  IF Full(kept) THEN Expire(kept, now) ELSE kept

Opened(c, k, payload, now) ==
  LET fresh == [opened |-> now, count |-> 0, sample |-> payload, last |-> NoEvent]
  IN  [entries |-> [j \in DOMAIN c.entries \cup {k} |->
                      IF j = k THEN fresh ELSE c.entries[j]],
       closed  |-> c.closed]

(* The table after an event that is let through: it opens a window unless  *)
(* collapsing is off or no slot could be freed.                            *)
Track(c, k, payload, now) ==
  LET room == Room(c, k, now)
  IN  IF Window = 0 THEN c
      ELSE IF Full(room) THEN room
      ELSE Opened(room, k, payload, now)

=============================================================================
