--------------------------- MODULE MCParentJoinTx ---------------------------
(* Finite instances of ParentJoinTx. *)
EXTENDS ParentJoinTx, TLC

Symmetries == Permutations(Children) \cup Permutations(Txs)
=============================================================================
