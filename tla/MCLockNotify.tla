---------------------------- MODULE MCLockNotify ----------------------------
(***************************************************************************)
(* Small instances of LockNotify for TLC.                                  *)
(***************************************************************************)
EXTENDS LockNotify

\* Requests and holders are interchangeable; used for safety only.
Symmetry == Permutations(Request) \cup Permutations(Holder)
=============================================================================
