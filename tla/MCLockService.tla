---------------------------- MODULE MCLockService ----------------------------
(***************************************************************************)
(* Small instances of LockService for TLC.                                 *)
(***************************************************************************)
EXTENDS LockService

\* Requests and holders are interchangeable; used for safety only.
Symmetry == Permutations(Request) \cup Permutations(Holder)
=============================================================================
