------------------------------- MODULE MCClient -------------------------------
(***************************************************************************)
(* Small instances of Client for TLC.  Tokens are drawn by CHOOSE, so no   *)
(* symmetry of Request may be used.                                        *)
(***************************************************************************)
EXTENDS Client

\* An instance with one TTL meets what the theorems about term and renewal suppose.
ASSUME InstanceAssumption ==
  TTLRequest \subseteq {0, DefaultTTL} => OneTTL /\ ShortDelay

=============================================================================
