---------------------------- MODULE RepeatLedger ----------------------------
(***************************************************************************)
(* What repeat collapsing promises, per key: how many events were shown at *)
(* once, how many are held back, and how many a summary has told of.       *)
(* The module doc of pulse-tui/src/collapse.rs: the first occurrence goes  *)
(* out at once, repeats are only counted, one summary reports how many     *)
(* were held back.  Nothing is said here of windows, clocks or limits.     *)
(***************************************************************************)
EXTENDS Naturals

CONSTANT Keys

VARIABLES shown, held, told

vars == <<shown, held, told>>

Init ==
  /\ shown = [k \in Keys |-> 0]
  /\ held  = [k \in Keys |-> 0]
  /\ told  = [k \in Keys |-> 0]

(* An event goes out at once. *)
Show(k) ==
  /\ shown' = [shown EXCEPT ![k] = @ + 1]
  /\ UNCHANGED <<held, told>>

(* A repeat is counted, behind an event of its key that was shown. *)
Hold(k) ==
  /\ shown[k] > 0
  /\ held' = [held EXCEPT ![k] = @ + 1]
  /\ UNCHANGED <<shown, told>>

(* Summaries tell of some of what is held: no count is lost or told twice. *)
Tell ==
  /\ \A k \in Keys : /\ told'[k] >= told[k]
                     /\ told'[k] + held'[k] = told[k] + held[k]
  /\ UNCHANGED shown

Next == (\E k \in Keys : Show(k) \/ Hold(k)) \/ Tell

Spec == Init /\ [][Next]_vars
=============================================================================
