--------------------------- MODULE MCMinionWorker ---------------------------
(* Finite instances of MinionWorker. *)
EXTENDS MinionWorker, TLC
=============================================================================
