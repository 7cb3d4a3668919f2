--------------------------- MODULE MCLockRefinement ---------------------------
(***************************************************************************)
(* A small instance of LockRefinement for TLC.                             *)
(***************************************************************************)
EXTENDS LockRefinement

Symmetry == Permutations(Request)
=============================================================================
