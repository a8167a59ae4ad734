---------------------------- MODULE JobLifecycle ----------------------------
(***************************************************************************)
(* What the queue promises about a job, without tables, locks or sweeps: a *)
(* job is run by one holder at a time, an execution is booked once, and an *)
(* end is an end.  MinionQueue implements this specification, with the     *)
(* statements of one step moving any number of jobs.                       *)
(***************************************************************************)
EXTENDS Naturals

CONSTANTS Jobs, Runs, Nobody, MaxAttempts, MaxStalled

VARIABLES
  phase,     \* "unborn", "queued", "running", "won", "lost", "dropped" or "removed"
  holder,    \* the run that executes the job, or Nobody
  attempts,  \* executions booked as attempts in this life
  stalls     \* executions booked as stalls in this life

vars == <<phase, holder, attempts, stalls>>

Init ==
  /\ phase = [j \in Jobs |-> "unborn"]
  /\ holder = [j \in Jobs |-> Nobody]
  /\ attempts = [j \in Jobs |-> 0]
  /\ stalls = [j \in Jobs |-> 0]

Charge(j, a, s) ==
  /\ attempts'[j] = attempts[j] + a
  /\ stalls'[j] = stalls[j] + s

Goes(j, from, to) ==
  /\ phase[j] \in from
  /\ phase'[j] \in to
  /\ holder'[j] = Nobody

Stays(j) ==
  /\ phase'[j] = phase[j] /\ holder'[j] = holder[j] /\ Charge(j, 0, 0)

\* Submitted, held back, dropped, won or removed: nothing is booked.
Enter(j)   == Goes(j, {"unborn"}, {"queued"}) /\ Charge(j, 0, 0)
Release(j) == Goes(j, {"running"}, {"queued"}) /\ Charge(j, 0, 0)
Drop(j)    == Goes(j, {"queued", "running"}, {"dropped"}) /\ Charge(j, 0, 0)
Win(j)     == Goes(j, {"running"}, {"won", "removed"}) /\ Charge(j, 0, 0)
Remove(j)  == Goes(j, {"won", "lost", "dropped"}, {"removed"}) /\ Charge(j, 0, 0)

\* A queued job is lost with one it waits for.
Sink(j)    == Goes(j, {"queued"}, {"lost"}) /\ Charge(j, 0, 0)

\* From the queue, by a run that holds no job and takes no other one with it.
Start(j) ==
  /\ phase[j] = "queued" /\ phase'[j] = "running"
  /\ holder'[j] \in Runs
  /\ \A k \in Jobs : holder[k] # holder'[j] /\ (k # j => holder'[k] # holder'[j])
  /\ Charge(j, 0, 0)

\* The execution is over and booked: as an attempt, or as a stall.  The job is
\* queued again only while its budget lasts; the stall that spends the last of it
\* counts as an attempt too.
Retry(j)   == Goes(j, {"running"}, {"queued"}) /\ Charge(j, 1, 0) /\ attempts'[j] < MaxAttempts
Lose(j)    == Goes(j, {"running"}, {"lost", "removed"}) /\ Charge(j, 1, 0)
Requeue(j) == Goes(j, {"running"}, {"queued"}) /\ Charge(j, 0, 1) /\ stalls'[j] < MaxStalled
Strike(j)  == Goes(j, {"running"}, {"lost"}) /\ Charge(j, 1, 1)

\* A lost job is given a new life.
Revive(j) ==
  /\ Goes(j, {"lost"}, {"queued"})
  /\ attempts'[j] = 0 /\ stalls'[j] = 0

Step(j) ==
  \/ Stays(j) \/ Enter(j) \/ Release(j) \/ Drop(j) \/ Win(j) \/ Remove(j) \/ Sink(j)
  \/ Start(j) \/ Retry(j) \/ Lose(j) \/ Requeue(j) \/ Strike(j) \/ Revive(j)

Next == \A j \in Jobs : Step(j)

Spec == Init /\ [][Next]_vars

\* What follows for whoever submits jobs: a job has a holder exactly while it runs, no
\* run holds two, and no execution is booked beyond the budget, which a job that can
\* still run has not used up.
Sound(j) ==
  /\ phase[j] = "running" => holder[j] \in Runs
  /\ phase[j] # "running" => holder[j] = Nobody
  /\ attempts[j] \in 0..MaxAttempts /\ stalls[j] \in 0..MaxStalled
  /\ phase[j] \in {"unborn", "queued", "running"} =>
       attempts[j] < MaxAttempts /\ stalls[j] < MaxStalled

Promise ==
  \A j \in Jobs :
    /\ Sound(j)
    /\ holder[j] # Nobody => \A k \in Jobs \ {j} : holder[k] # holder[j]
=============================================================================
