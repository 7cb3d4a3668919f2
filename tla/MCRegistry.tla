----------------------------- MODULE MCRegistry -----------------------------
(***************************************************************************)
(* Small instances of Registry for TLC: three names in two namespaces and  *)
(* one in a namespace that is denied.                                      *)
(***************************************************************************)
EXTENDS Registry, TLC

CONSTANTS n1, n2, n3, n4, sA, sB, sDenied

\* The namespaces of the names.
MCNamespaceOf == n1 :> sA @@ n2 :> sA @@ n3 :> sB @@ n4 :> sDenied

\* Goroutines are interchangeable; used for safety only.
Symmetry == Permutations(Proc)
=============================================================================
