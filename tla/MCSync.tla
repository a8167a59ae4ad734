------------------------------- MODULE MCSync -------------------------------
(* Two files for the instances of Sync. *)
EXTENDS Sync
CONSTANTS a, b
=============================================================================
