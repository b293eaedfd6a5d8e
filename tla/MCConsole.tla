----------------------------- MODULE MCConsole -----------------------------
(***************************************************************************)
(* Two items, two calls at once, two clicks.                              *)
(***************************************************************************)
EXTENDS Console, TLC

CONSTANTS i1, i2, c1, c2

Symmetry == Permutations({i1, i2}) \cup Permutations({c1, c2})
=============================================================================
