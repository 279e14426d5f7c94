------------------------------ MODULE MCViews ------------------------------
(***************************************************************************)
(* Views with a log of four records: the first two are loaded, the other   *)
(* two come live, one of them untimed and one older than the first.        *)
(***************************************************************************)
EXTENDS Views

MCLog ==
  <<[ts |-> 3, sev |-> 2, text |-> "x"], [ts |-> 7, sev |-> 1, text |-> "y"],
    [ts |-> Untimed, sev |-> 2, text |-> "y"], [ts |-> 2, sev |-> 0, text |-> "x"]>>

(* A shorter one, of records alike, for longer sequences of keys. *)
MCShort == <<[ts |-> 3, sev |-> 1, text |-> "x"], [ts |-> 7, sev |-> 1, text |-> "x"]>>
MCScreen == {[bars |-> 3, body |-> 2]}

MCBuckets == <<{1}>>

(* A terminal whose table has room for the rows the keys count on, and one *)
(* that is too low.                                                        *)
MCScreens == {[bars |-> 2, body |-> 2], [bars |-> 3, body |-> 1]}
=============================================================================
