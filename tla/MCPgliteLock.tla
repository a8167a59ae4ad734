---------------------------- MODULE MCPgliteLock ----------------------------
(* Finite instances of PgliteLock. *)
EXTENDS PgliteLock, TLC

Symmetries == Permutations(Openers)
=============================================================================
