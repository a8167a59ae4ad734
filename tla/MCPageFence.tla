---------------------------- MODULE MCPageFence ----------------------------
(* Finite instances of PageFence. *)
EXTENDS PageFence, TLC

CONSTANTS c1, c2, c3, p1, p2

TwoProcs == [c \in Calls |-> IF c = c3 THEN p2 ELSE p1]

Symmetries == Permutations({c1, c2})
=============================================================================
