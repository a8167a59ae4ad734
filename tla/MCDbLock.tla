------------------------------ MODULE MCDbLock ------------------------------
(* Finite instances of DbLock: who runs where, and with which pid. *)
EXTENDS DbLock

\* Three processes with pids of their own, two of them on one host.
OneCallEach == [c \in {1, 2, 3} |-> c]
OwnPids     == [p \in {1, 2, 3} |-> p]
TwoHosts    == [p \in {1, 2, 3} |-> IF p = 3 THEN "h2" ELSE "h1"]
=============================================================================
