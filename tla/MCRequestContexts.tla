-------------------------- MODULE MCRequestContexts --------------------------
(* Instances of RequestContexts for TLC. *)
EXTENDS RequestContexts, TLC

CONSTANTS c1, c2, c3, c4   \* places in memory

Symmetry == Permutations({c1, c2, c3, c4})
=============================================================================
