---------------------------- MODULE MinionWorker ----------------------------
(***************************************************************************)
(* Worker processes (minions/worker.ts): the claim loop, the in-flight map *)
(* with its timers, the ends of a handler, quiet hours, the drain at exit. *)
(*                                                                         *)
(* A process runs one thing at a time, so an action is what happens        *)
(* between two awaits or in one timer.  A run is one launchJob; its lock   *)
(* token is its name.  The map is keyed by JOB id, as in the code.         *)
(*                                                                         *)
(* MinionQueue has the row in full.  Here a row is what a worker can tell  *)
(* apart, its status and its token; parents, counters and clocks are left  *)
(* out, and a timer fires, or a lock expires, at any moment.               *)
(***************************************************************************)
EXTENDS Naturals, FiniteSets

CONSTANTS Workers, Jobs, Runs, NoWorker, NoJob, NoRun,
          Quiet,         \* jobs whose quiet hours may refuse them at claim time
          Concurrency,   \* opts.concurrency
          MaxUpsets      \* bound: crashes, signals, lost answers, failed writes

ASSUME WorkerAssumption ==
  /\ NoWorker \notin Workers /\ NoJob \notin Jobs /\ NoRun \notin Runs
  /\ Quiet \subseteq Jobs /\ IsFiniteSet(Jobs) /\ IsFiniteSet(Runs)
  /\ Concurrency \in Nat \ {0} /\ MaxUpsets \in Nat

VARIABLES
  row,       \* status and lock_token of every job
  run,       \* worker, job, abort reason and timers of every launched run
  inFlight,  \* the map of every worker: the run under each job id
  loop,      \* the main loop of every worker, what it claimed, what it drains
  alone,     \* runs that never shared their worker with a run of the same job
  upsets

vars == <<row, run, inFlight, loop, alone, upsets>>

Infrastructure == {"lock-lost", "lock-renewal-failed"}
Reasons == Infrastructure \cup {"timeout", "watchdog"}
Ended   == {"completed", "dead", "cancelled"}

Idle    == [at |-> NoWorker, job |-> NoJob, pc |-> "idle", abort |-> "none",
            renewing |-> FALSE, grace |-> FALSE]
Started == [pc |-> "poll", running |-> TRUE, run |-> NoRun, job |-> NoJob, waits |-> {}]
Off(how) == [Started EXCEPT !.pc = how, !.running = FALSE]

Upset   == upsets < MaxUpsets /\ upsets' = upsets + 1
NoUpset == UNCHANGED upsets

Mine(w)    == {r \in Runs : run[r].at = w}
Entries(w) == {inFlight[w][j] : j \in Jobs} \ {NoRun}
Evicted(r) == run[r].abort # "none" /\ ~run[r].grace
Holds(r)   == row[run[r].job].status = "active" /\ row[run[r].job].token = r
Put(j, status, t) == row' = [row EXCEPT ![j] = [status |-> status, token |-> t]]
Poll(w)    == loop' = [loop EXCEPT ![w].pc = "poll", ![w].run = NoRun, ![w].job = NoJob]

(* No row and no loop knows the token yet.                                 *)
Fresh(r) ==
  /\ run[r].pc = "idle" /\ \A j \in Jobs : row[j].token # r
  /\ \A w \in Workers : loop[w].run # r

-----------------------------------------------------------------------------
(* The main loop: claim, then launch, or refuse for quiet hours.           *)

HasOneMore(w) == Cardinality(Entries(w)) <= Concurrency                  \* mutant
HasSlot(w)    == Cardinality(Entries(w)) < Concurrency

ClaimRow(w, r, j) ==
  /\ loop[w].pc = "poll" /\ loop[w].running /\ HasSlot(w)
  /\ row[j].status = "waiting" /\ Fresh(r)
  /\ Put(j, "active", r)
  /\ loop' = [loop EXCEPT ![w].pc = "claimed", ![w].run = r, ![w].job = j]
  /\ NoUpset /\ UNCHANGED <<run, inFlight, alone>>

(* The claim commits and its answer is lost: reconnect and poll again, or  *)
(* leave start() when the error is not one of the connection.              *)
LoseAnswer(w) ==
  /\ loop[w].pc = "claimed" /\ Upset
  /\ \E goesOn \in {loop[w].running, FALSE} :
       loop' = [loop EXCEPT ![w] = [Started EXCEPT !.running = goesOn]]
  /\ UNCHANGED <<row, run, inFlight, alone>>

(* launchJob.  The loop does not look again whether it is still running.   *)
Launch(w) ==
  LET r == loop[w].run
      j == loop[w].job
      others == {x \in Mine(w) : run[x].job = j}
  IN /\ loop[w].pc = "claimed"
     /\ run' = [run EXCEPT ![r] = [Idle EXCEPT !.at = w, !.job = j, !.pc = "work",
                                               !.renewing = TRUE]]
     /\ inFlight' = [inFlight EXCEPT ![w][j] = r]
     /\ alone' = IF others = {} THEN alone \cup {r} ELSE alone \ others
     /\ Poll(w) /\ NoUpset
     /\ UNCHANGED row

(* handleQuietHoursDefer: fenced by the token, its errors are swallowed.   *)
Defer(w) ==
  LET j == loop[w].job IN
  /\ loop[w].pc = "claimed" /\ j \in Quiet
  /\ \/ /\ NoUpset
        /\ IF row[j].token = loop[w].run THEN Put(j, "delayed", NoRun) ELSE UNCHANGED row
     \/ Upset /\ UNCHANGED row
  /\ Poll(w)
  /\ UNCHANGED <<run, inFlight, alone>>

(* The skip: first the lock is cleared, then cancelJob, which no token     *)
(* fences, ends the job.                                                   *)
SkipUnlock(w) ==
  LET j == loop[w].job IN
  /\ loop[w].pc = "claimed" /\ j \in Quiet
  /\ \/ /\ NoUpset
        /\ IF row[j].token = loop[w].run
           THEN Put(j, row[j].status, NoRun) ELSE UNCHANGED row
        /\ loop' = [loop EXCEPT ![w].pc = "skip", ![w].run = NoRun]
     \/ Upset /\ UNCHANGED row /\ Poll(w)
  /\ UNCHANGED <<run, inFlight, alone>>

SkipCancel(w) ==
  LET j == loop[w].job IN
  /\ loop[w].pc = "skip"
  /\ \/ /\ NoUpset
        /\ IF row[j].status \in Ended THEN UNCHANGED row ELSE Put(j, "cancelled", NoRun)
     \/ Upset /\ UNCHANGED row
  /\ Poll(w)
  /\ UNCHANGED <<run, inFlight, alone>>

-----------------------------------------------------------------------------
(* The timers of a run.                                                    *)

ArmsOnTimeout(why) == why = "timeout"                                    \* mutant
Arms(why) == why \in Reasons
Aborted(r, why) == [run[r] EXCEPT !.abort = why, !.grace = Arms(why)]

(* A renewal finds that the row has another token, or none.                *)
LoseLock(r) ==
  /\ run[r].renewing /\ ~Holds(r) /\ run[r].abort = "none"
  /\ run' = [run EXCEPT ![r] = [Aborted(r, "lock-lost") EXCEPT !.renewing = FALSE]]
  /\ NoUpset /\ UNCHANGED <<row, inFlight, loop, alone>>

(* Renewals failed for so long that the tick says should_abort.            *)
GiveUpLock(r) ==
  /\ run[r].renewing /\ run[r].abort = "none" /\ Upset
  /\ run' = [run EXCEPT ![r] = [Aborted(r, "lock-renewal-failed") EXCEPT !.renewing = FALSE]]
  /\ UNCHANGED <<row, inFlight, loop, alone>>

TimeOut(r) ==
  /\ run[r].pc = "work" /\ run[r].abort = "none"
  /\ run' = [run EXCEPT ![r] = Aborted(r, "timeout")]
  /\ NoUpset /\ UNCHANGED <<row, inFlight, loop, alone>>

Verdict == "dead"

CondemnsAny(r) == run[r].pc # "idle"                                     \* mutant
Condemns(r) == run[r].abort \notin Infrastructure

(* Thirty seconds after an abort: the entry under the job's id goes,       *)
(* whoever's it is, and the job is dead unless the infrastructure failed.  *)
Evict(r) ==
  LET w == run[r].at
      j == run[r].job
  IN /\ run[r].grace /\ NoUpset
     /\ IF inFlight[w][j] # NoRun
        THEN /\ run' = [run EXCEPT ![r].grace = FALSE, ![r].renewing = FALSE]
             /\ inFlight' = [inFlight EXCEPT ![w][j] = NoRun]
             /\ IF Condemns(r) /\ Holds(r) THEN Put(j, Verdict, NoRun) ELSE UNCHANGED row
        ELSE run' = [run EXCEPT ![r].grace = FALSE] /\ UNCHANGED <<inFlight, row>>
     /\ UNCHANGED <<loop, alone>>

(* That failJob is not waited for and its error is swallowed: the entry is *)
(* gone and the row stays active.                                          *)
EvictUnrecorded(r) ==
  LET w == run[r].at
      j == run[r].job
  IN /\ run[r].grace /\ inFlight[w][j] # NoRun /\ Condemns(r) /\ Upset
     /\ run' = [run EXCEPT ![r].grace = FALSE, ![r].renewing = FALSE]
     /\ inFlight' = [inFlight EXCEPT ![w][j] = NoRun]
     /\ UNCHANGED <<row, loop, alone>>

-----------------------------------------------------------------------------
(* executeJob: what the handler's end does to the row, then the finally.   *)

Over(r) == run' = [run EXCEPT ![r].pc = "over", ![r].renewing = FALSE]

Complete(r) ==
  /\ run[r].pc = "work"
  /\ IF Holds(r) THEN Put(run[r].job, "completed", NoRun) ELSE UNCHANGED row
  /\ Over(r) /\ NoUpset
  /\ UNCHANGED <<inFlight, loop, alone>>

(* The handler throws, as it should when aborted.                          *)
Fail(r) ==
  /\ run[r].pc = "work"
  /\ IF Holds(r) /\ Condemns(r)
     THEN \E status \in {"delayed", "dead"} : Put(run[r].job, status, NoRun)
     ELSE UNCHANGED row
  /\ Over(r) /\ NoUpset
  /\ UNCHANGED <<inFlight, loop, alone>>

(* failJob throws twice: the row is left to the stall sweep.               *)
FailUnrecorded(r) ==
  /\ run[r].pc = "work" /\ Upset
  /\ Over(r)
  /\ UNCHANGED <<row, inFlight, loop, alone>>

Finally(r) ==
  /\ run[r].pc = "over"
  /\ run' = [run EXCEPT ![r] = Idle]
  /\ inFlight' = [inFlight EXCEPT ![run[r].at][run[r].job] = NoRun]
  /\ alone' = alone \ {r}
  /\ NoUpset /\ UNCHANGED <<row, loop>>

-----------------------------------------------------------------------------
(* Shutdown.                                                               *)

Looping(w) == loop[w].pc \in {"poll", "claimed", "skip"}

(* SIGTERM, SIGINT or stop(): handlers are told, none is aborted.          *)
Signal(w) ==
  /\ Looping(w) /\ loop[w].running /\ Upset
  /\ loop' = [loop EXCEPT ![w].running = FALSE]
  /\ UNCHANGED <<row, run, inFlight, alone>>

(* gracefulShutdown: every entry of the map is aborted.                    *)
Watchdog(w) ==
  /\ Looping(w) /\ loop[w].running /\ Upset
  /\ loop' = [loop EXCEPT ![w].running = FALSE]
  /\ run' = [r \in Runs |-> IF r \in Entries(w) /\ run[r].abort = "none"
                            THEN Aborted(r, "watchdog") ELSE run[r]]
  /\ UNCHANGED <<row, inFlight, alone>>

AbortedEntries(w) == {r \in Entries(w) : run[r].abort # "none"}          \* mutant
Pending(w) == Entries(w)

Drain(w) ==
  /\ loop[w].pc = "poll" /\ ~loop[w].running
  /\ loop' = [loop EXCEPT ![w].pc = "drain", ![w].waits = Pending(w)]
  /\ NoUpset /\ UNCHANGED <<row, run, inFlight, alone>>

(* The process ends, and its handlers with it.                             *)
Quit(w, how) ==
  /\ loop' = [loop EXCEPT ![w] = Off(how)]
  /\ run' = [r \in Runs |-> IF r \in Mine(w) THEN Idle ELSE run[r]]
  /\ inFlight' = [inFlight EXCEPT ![w] = [j \in Jobs |-> NoRun]]
  /\ alone' = alone \ Mine(w)
  /\ UNCHANGED row

Settle(w)   == loop[w].pc = "drain" /\ loop[w].waits \cap Mine(w) = {} /\ Quit(w, "settled")
               /\ NoUpset
CutShort(w) == loop[w].pc = "drain" /\ Quit(w, "down") /\ NoUpset
Crash(w)    == (Looping(w) \/ loop[w].pc = "drain") /\ Upset /\ Quit(w, "down")

Restart(w) ==
  /\ loop[w].pc \in {"settled", "down"}
  /\ loop' = [loop EXCEPT ![w] = Started]
  /\ NoUpset /\ UNCHANGED <<row, run, inFlight, alone>>

-----------------------------------------------------------------------------
(* The queue, as far as it moves rows by itself.                           *)

Sweeping == \E w \in Workers : Looping(w)
Queue    == NoUpset /\ UNCHANGED <<run, inFlight, loop, alone>>

(* handleStalled: lock_until < now() is never true of a NULL.              *)
HandleStalled(j) ==
  /\ Sweeping /\ row[j].status = "active" /\ row[j].token # NoRun
  /\ \E status \in {"waiting", "dead"} : Put(j, status, NoRun)
  /\ Queue

WallClockOfHolders(j) == row[j].status = "active" /\ row[j].token # NoRun \* mutant
WallClockDue(j) == row[j].status = "active"

(* handleWallClockTimeouts, and handleTimeouts for a job with a deadline.  *)
HandleDeadlines(j) == Sweeping /\ WallClockDue(j) /\ Put(j, "dead", NoRun) /\ Queue
PromoteDelayed(j)  == Sweeping /\ row[j].status = "delayed" /\ Put(j, "waiting", NoRun) /\ Queue
CancelJob(j)       == row[j].status \notin Ended /\ Put(j, "cancelled", NoRun) /\ Queue

-----------------------------------------------------------------------------
Init ==
  /\ row = [j \in Jobs |-> [status |-> "waiting", token |-> NoRun]]
  /\ run = [r \in Runs |-> Idle]
  /\ inFlight = [w \in Workers |-> [j \in Jobs |-> NoRun]]
  /\ loop = [w \in Workers |-> Started]
  /\ alone = {} /\ upsets = 0

Next ==
  \/ \E w \in Workers, r \in Runs, j \in Jobs : ClaimRow(w, r, j)
  \/ \E w \in Workers :
       \/ LoseAnswer(w) \/ Launch(w) \/ Defer(w) \/ SkipUnlock(w) \/ SkipCancel(w)
       \/ Signal(w) \/ Watchdog(w) \/ Drain(w) \/ Settle(w) \/ CutShort(w) \/ Crash(w)
       \/ Restart(w)
  \/ \E r \in Runs :
       \/ LoseLock(r) \/ GiveUpLock(r) \/ TimeOut(r) \/ Evict(r) \/ EvictUnrecorded(r)
       \/ Complete(r) \/ Fail(r) \/ FailUnrecorded(r) \/ Finally(r)
  \/ \E j \in Jobs :
       HandleStalled(j) \/ HandleDeadlines(j) \/ PromoteDelayed(j) \/ CancelJob(j)

Spec == Init /\ [][Next]_vars

(* Timers fire, a drain is cut after its thirty seconds, the supervisor    *)
(* starts a worker again, and the sweep comes round.  Nothing is asked of  *)
(* a handler.                                                              *)
Fairness ==
  /\ \A r \in Runs : WF_vars(LoseLock(r)) /\ WF_vars(Evict(r)) /\ WF_vars(Finally(r))
  /\ \A w \in Workers : WF_vars(Drain(w)) /\ WF_vars(CutShort(w)) /\ WF_vars(Restart(w))
                        /\ WF_vars(Launch(w) \/ SkipCancel(w))
  /\ \A j \in Jobs : WF_vars(HandleDeadlines(j))

FairSpec == Spec /\ Fairness

-----------------------------------------------------------------------------
TypeOK ==
  /\ row \in [Jobs -> [status : {"waiting", "delayed", "active"} \cup Ended,
                       token : Runs \cup {NoRun}]]
  /\ run \in [Runs -> [at : Workers \cup {NoWorker}, job : Jobs \cup {NoJob},
                       pc : {"idle", "work", "over"}, abort : Reasons \cup {"none"},
                       renewing : BOOLEAN, grace : BOOLEAN]]
  /\ inFlight \in [Workers -> [Jobs -> Runs \cup {NoRun}]]
  /\ loop \in [Workers -> [pc : {"poll", "claimed", "skip", "drain", "settled", "down"},
                           running : BOOLEAN, run : Runs \cup {NoRun},
                           job : Jobs \cup {NoJob}, waits : SUBSET Runs]]
  /\ alone \in SUBSET Runs /\ upsets \in 0..MaxUpsets

(* The handlers a worker must answer for: not given up after an abort, and *)
(* not mixed up with another run of the same job.                          *)
Tracked(w) == {r \in Mine(w) : r \in alone /\ ~Evicted(r)}

(* Every such handler has its own slot, and there are no more of them than *)
(* the worker was started for, whatever is reclaimed around them.          *)
HandlersKeepTheirSlots ==
  \A w \in Workers :
    /\ \A r \in Tracked(w) : inFlight[w][run[r].job] = r
    /\ Cardinality(Tracked(w)) <= Concurrency

(* A worker that says it has drained leaves no such handler behind, also   *)
(* not the one whose claim was answered after the signal.                  *)
DrainWaitsForAll ==
  [][\A w \in Workers :
       loop[w].pc = "drain" /\ loop'[w].pc = "settled" => Tracked(w) = {}]_vars

(* A run that is aborted because its lock or its database is gone never    *)
(* fails the job: it completes it or leaves the row as it is.              *)
InfrastructureSparesJobs ==
  [][\A r \in Runs :
       run[r].abort \in Infrastructure /\ run'[r] # run[r] =>
         \A j \in Jobs : row'[j] = row[j] \/ row'[j].status = "completed"]_vars

(* A slot never stays with a run that lost its job or was told to stop,    *)
(* even if its handler never returns.                                      *)
EverySlotReturns ==
  \A w \in Workers, j \in Jobs, r \in Runs :
    (inFlight[w][j] = r /\ (row[j].token # r \/ run[r].abort # "none"))
      ~> inFlight[w][j] # r

(* Every claim comes to an end, whatever crashes or is lost after it: the  *)
(* answer, a renewal, the second half of a quiet-hours skip.               *)
ClaimsEnd == \A j \in Jobs : row[j].status = "active" ~> row[j].status # "active"

=============================================================================
