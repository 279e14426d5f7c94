------------------------------- MODULE LogFeed -------------------------------
(***************************************************************************)
(* What --follow promises of a log: what it held is there at first; then   *)
(* it is followed from one place on, every entry once and in order,        *)
(* without a gap; what came in is shown in the end, also of a source that  *)
(* is gone.  A log that can resume is followed from where it was left, if  *)
(* anything was found in it (README.md:275-277).  Nothing is said here of  *)
(* cursors, threads, channels or ticks.                                    *)
(***************************************************************************)
EXTENDS Integers, Sequences

VARIABLES
  resumes, (* whether the log can be followed from where it was left       *)
  logged,  (* how many entries the log holds                               *)
  phase,   (* "none", "starting", "running", "gone"                        *)
  place,   (* the last entry that was followed                             *)
  landed,  (* the entries that came in                                     *)
  seen,    (* how many of them are shown                                   *)
  open     (* whether more is waited for                                   *)

vars == <<resumes, logged, phase, place, landed, seen, open>>

Init ==
  /\ resumes \in BOOLEAN /\ logged \in Nat
  /\ phase = "none" /\ place = 0 /\ landed = <<>> /\ seen = 0 /\ open = FALSE

Log ==
  /\ logged' = logged + 1
  /\ UNCHANGED <<resumes, phase, place, landed, seen, open>>

(* All there is comes in, and is shown. *)
Fill ==
  /\ phase = "none" /\ phase' = "starting"
  /\ landed' = [i \in 1 .. logged |-> i] /\ seen' = logged
  /\ open' = TRUE
  /\ UNCHANGED <<resumes, logged, place>>

(* The place from which the log is followed is no earlier. *)
Begin ==
  /\ phase = "starting" /\ phase' = "running"
  /\ place' \in Len(landed) .. logged
  /\ resumes /\ landed # <<>> => place' = Len(landed)
  /\ UNCHANGED <<resumes, logged, landed, seen, open>>

(* The next entry. *)
Land ==
  /\ phase = "running" /\ place < logged
  /\ place' = place + 1 /\ landed' = Append(landed, place + 1)
  /\ UNCHANGED <<resumes, logged, phase, seen, open>>

Stop ==
  /\ phase \in {"starting", "running"} /\ phase' = "gone"
  /\ UNCHANGED <<resumes, logged, place, landed, seen, open>>

Show ==
  /\ open /\ seen < Len(landed) /\ seen' = seen + 1
  /\ UNCHANGED <<resumes, logged, phase, place, landed, open>>

(* Nothing more is waited for when all is shown of a source that is gone.  *)
Close ==
  /\ open /\ phase = "gone" /\ seen = Len(landed) /\ open' = FALSE
  /\ UNCHANGED <<resumes, logged, phase, place, landed, seen>>

Next == Log \/ Fill \/ Begin \/ Land \/ Stop \/ Show \/ Close

Spec == Init /\ [][Next]_vars
=============================================================================
