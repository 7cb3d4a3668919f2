------------------------------- MODULE MCServer -------------------------------
(***************************************************************************)
(* A small instance of Server for TLC: one stream of everything and one of *)
(* a single namespace.                                                     *)
(***************************************************************************)
EXTENDS Server

CONSTANTS c1, s1, s2, n1, n2

MCFilter == [s \in {s1, s2} |-> IF s = s1 THEN AnyNamespace ELSE n1]
=============================================================================
