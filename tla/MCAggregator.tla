---------------------------- MODULE MCAggregator ----------------------------
(* Finite instances of Aggregator. *)
EXTENDS Aggregator, TLC

Symmetries == Permutations(Children) \cup Permutations(Runs)
=============================================================================
