--------------------------- MODULE MCMinionQueue ---------------------------
(* Finite instances of MinionQueue: the submission options of each run. *)
EXTENDS MinionQueue, TLC

Plain == [NoOpts EXCEPT !.onChildFail = "continue", !.lane = "l1"]
Timed == [Plain EXCEPT !.timed = TRUE]

\* A tree of jobs that differ in what their failure means to the parent; one kind
\* has a deadline and vanishes when it fails, one vanishes when it completes, one
\* has a single slot, a key, and a lane that holds one waiting job.
TreeOpts ==
  { [Timed EXCEPT !.removeOnFail = TRUE],
    [Plain EXCEPT !.onChildFail = "fail_parent", !.removeOnComplete = TRUE, !.lane = "l2"],
    [Plain EXCEPT !.onChildFail = "remove_dep", !.maxChildren = 1,
                  !.key = "k1", !.lane = "l2", !.maxWaiting = 1] }

\* One job that has a deadline, one that starts delayed and has none.
ExecutionOpts == { Timed, [Plain EXCEPT !.delayed = TRUE] }

Symmetries == Permutations(Jobs) \cup Permutations(Runs)
=============================================================================
