---------------------------- MODULE MCBookmarks ----------------------------
(* Two programs that only their name tells apart. *)
EXTENDS Bookmarks, TLC

CONSTANTS one, two

Symmetry == Permutations({one, two})
=============================================================================
