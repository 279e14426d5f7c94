---------------------------- MODULE MCCollapser ----------------------------
(* A small instance of Collapser: three keys over a table of two, clock    *)
(* readings at both ends of the representable range.                       *)
EXTENDS Collapser, TLC

CONSTANTS a, b, c

MCKeys == {a, b, c}
MCReadings == {-3, 0, 1, 2, 3}
MCTimeMin == -3

Symmetry == Permutations(MCKeys)
=============================================================================
