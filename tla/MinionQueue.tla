---------------------------- MODULE MinionQueue ----------------------------
(***************************************************************************)
(* The Minions job queue: the table minion_jobs, its inbox, and every      *)
(* statement that MinionQueue (src/core/minions/queue.ts) runs on them.    *)
(*                                                                         *)
(* Each method is one SQL statement or one transaction and is one action   *)
(* here; the statements inside a transaction are not interleaved with      *)
(* those of another.  cancelJob is two: its recursive query reads one      *)
(* snapshot, and its UPDATE may wait for row locks while others commit.    *)
(* A run is one execution of a handler by a worker process; its lock token *)
(* is the run itself.  A run may stay alive after its row was taken from   *)
(* it (a zombie), and may vanish at any step.                              *)
(*                                                                         *)
(* Time is not a number.  A lock is "live" or "expired" and LockExpires    *)
(* moves it; the other clocks (delay_until, timeout_at, started_at) are    *)
(* read in one place each, where the rows that are due are any of those    *)
(* that have the clock set.                                                *)
(***************************************************************************)
EXTENDS Naturals, FiniteSets

CONSTANTS
  Jobs,           \* row ids; SERIAL, so an id is never used twice
  Runs,           \* handler executions, each with its lock token
  Keys,           \* idempotency keys
  Lanes,          \* (name, queue, sourceId) triples that maxWaiting counts over
  Opts,           \* the submission options that occur
  Events,         \* the commands and pressures that occur
  MaxAttempts,    \* max_attempts of every job
  MaxStalled,     \* max_stalled of every job
  MaxSpawnDepth,  \* the queue's maxSpawnDepth
  CancelDepth,    \* how many parent links cancelJob follows
  MaxClaims,      \* bound: claims per job in one life
  MaxRoots,       \* bound: submissions without a parent
  MaxCancels,     \* bound: cancellations under way at the same time
  NoJob, NoRun, NoKey

Policies   == {"fail_parent", "remove_dep", "continue"}
Unlimited  == 0
Options    == [delayed: BOOLEAN, timed: BOOLEAN, onChildFail: Policies,
               maxChildren: Nat, removeOnComplete: BOOLEAN, removeOnFail: BOOLEAN,
               key: Keys \cup {NoKey}, lane: Lanes, maxWaiting: Nat]
EventKinds == {"cancel", "pause", "retry", "remove", "lease full"}

ASSUME ConstantsAssumption ==
  /\ Opts \subseteq Options
  /\ Events \subseteq EventKinds
  /\ MaxAttempts \in Nat \ {0}
  /\ MaxStalled \in Nat \ {0}
  /\ MaxSpawnDepth \in Nat
  /\ CancelDepth \in Nat
  /\ MaxClaims \in Nat /\ MaxRoots \in Nat /\ MaxCancels \in Nat
  /\ NoJob \notin Jobs /\ NoRun \notin Runs /\ NoKey \notin Keys

Live     == {"waiting", "active", "delayed", "waiting-children", "paused"}
Terminal == {"completed", "failed", "dead", "cancelled"}
NoRow    == {"absent", "deleted"}
Statuses == Live \cup Terminal \cup NoRow
Outcomes == {"complete", "failed", "dead", "cancelled", "timeout"}
Errors   == {"none", "handler", "aborted: timeout", "lease full", "stalled",
             "timeout", "wall-clock", "child failed"}
Messages == [child : Jobs, outcome : Outcomes]
NoMail   == [m \in Messages |-> 0]
NoSnap   == [found |-> {}, kin |-> {}]
NoOpts   == [delayed |-> FALSE, timed |-> FALSE, onChildFail |-> "fail_parent",
             maxChildren |-> Unlimited, removeOnComplete |-> FALSE,
             removeOnFail |-> FALSE, key |-> NoKey, lane |-> "none", maxWaiting |-> 0]

VARIABLES
  status,   \* minion_jobs.status, or "absent" / "deleted"
  opt,      \* the columns that submission sets once
  parent,   \* parent_job_id
  depth,
  key,      \* idempotency_key
  token,    \* lock_token
  lock,     \* lock_until: "none" (NULL), "live" or "expired"
  made,     \* attempts_made
  started,  \* attempts_started
  stalled,  \* stalled_counter
  error,    \* error_text
  inbox,    \* by job_id, how many of each child_done message minion_inbox holds
  run,      \* the job each run is executing
  snap      \* by root, the snapshot of a cancellation under way: the live rows that
            \* its query found in it, and the live children those rows have in it

ids   == <<opt, depth>>
locks == <<token, lock>>
tally == <<made, started, stalled>>
vars  == <<status, opt, parent, depth, key, token, lock, made, started,
           stalled, error, inbox, run, snap>>

----------------------------------------------------------------------------
(* What the statements share. *)

Exists(j)  == status[j] \notin NoRow
IsLive(j)  == status[j] \in Live

\* WHERE id = .. AND status = 'active' AND lock_token = ..
HoldsByStatus(r) == run[r] # NoJob /\ status[run[r]] = "active"   \* mutant
Holds(r)   == /\ run[r] # NoJob
              /\ status[run[r]] = "active"
              /\ token[run[r]] = r

Set(f, S, v) == [k \in DOMAIN f |-> IF k \in S THEN v ELSE f[k]]
BumpDown(f, S) == [k \in DOMAIN f |-> IF k \in S THEN f[k] - 1 ELSE f[k]]   \* mutant
Bump(f, S)   == [k \in DOMAIN f |-> IF k \in S THEN f[k] + 1 ELSE f[k]]

\* INSERT INTO minion_inbox ... WHERE EXISTS (the parent, not terminal), for
\* each job of S, in the state st of the rows.
PostedOnSuccess(S, st, outcome) ==                                  \* mutant
  [p \in Jobs |-> [m \in Messages |->
     IF outcome = "complete" /\ m.outcome = outcome /\ m.child \in S
          /\ parent[m.child] = p /\ st[p] \in Live
     THEN inbox[p][m] + 1 ELSE inbox[p][m]]]
PostedTwice(S, st, outcome) ==                                      \* mutant
  [p \in Jobs |-> [m \in Messages |->
     IF m.outcome = outcome /\ m.child \in S /\ parent[m.child] = p /\ st[p] \in Live
     THEN inbox[p][m] + IF outcome = "cancelled" THEN 2 ELSE 1 ELSE inbox[p][m]]]
Posted(S, st, outcome) ==
  [p \in Jobs |-> [m \in Messages |->
     IF m.outcome = outcome /\ m.child \in S /\ parent[m.child] = p /\ st[p] \in Live
     THEN inbox[p][m] + 1 ELSE inbox[p][m]]]

\* UPDATE ... SET status = 'waiting' WHERE status = 'waiting-children' AND NOT
\* EXISTS (a child that is not terminal), for each job of P.
ResolvedUnchecked(P, st, par) ==                                    \* mutant
  [p \in Jobs |-> IF p \in P /\ st[p] = "waiting-children" THEN "waiting" ELSE st[p]]
Resolved(P, st, par) ==
  [p \in Jobs |->
     IF /\ p \in P
        /\ st[p] = "waiting-children"
        /\ ~ \E c \in Jobs : par[c] = p /\ st[c] \in Live
     THEN "waiting" ELSE st[p]]

\* DELETE: children keep their row and lose the parent (ON DELETE SET NULL),
\* the inbox goes with it (ON DELETE CASCADE).
Orphaned(gone, par) == [k \in Jobs |-> IF par[k] \in gone THEN NoJob ELSE par[k]]

----------------------------------------------------------------------------
(* Submission. *)

SameKey(o) == {k \in Jobs : Exists(k) /\ o.key # NoKey /\ key[k] = o.key}
FreedIfIdle(o) == {k \in SameKey(o) : status[k] \in {"dead", "cancelled", "waiting-children"}}   \* mutant
FreedBy(o) == {k \in SameKey(o) : status[k] \in {"dead", "cancelled"}}
Waiting(o) == {k \in Jobs : status[k] = "waiting" /\ opt[k].lane = o.lane}
LiveChildren(p) == {c \in Jobs : parent[c] = p /\ IsLive(c)}
HasRoom(p) == opt[p].maxChildren = Unlimited
                \/ Cardinality(LiveChildren(p)) < opt[p].maxChildren
Coalesces(o) == o.maxWaiting # 0 /\ Cardinality(Waiting(o)) >= o.maxWaiting

\* A row with the key that is neither dead nor cancelled is returned as it is
\* (no step).  Otherwise the key is taken from the old row, a full lane returns
\* a waiting row, and the rest inserts.
MayInsert(p, o) ==
  /\ SameKey(o) = FreedBy(o)
  /\ ~ Coalesces(o)
  /\ p # NoJob =>
       /\ Exists(p)
       /\ depth[p] + 1 <= MaxSpawnDepth
       /\ HasRoom(p)

Roots == {k \in Jobs : status[k] # "absent" /\ depth[k] = 0}

Add(j, p, o) ==
  /\ status[j] = "absent"
  /\ p = NoJob => Cardinality(Roots) < MaxRoots
  /\ MayInsert(p, o)
  /\ status' = [k \in Jobs |->
        IF k = j THEN IF o.delayed THEN "delayed" ELSE "waiting"
        ELSE IF k = p /\ status[k] \in {"waiting", "active", "delayed"}
        THEN "waiting-children" ELSE status[k]]
  /\ opt' = [opt EXCEPT ![j] = o]
  /\ parent' = [parent EXCEPT ![j] = p]
  /\ depth' = [depth EXCEPT ![j] = IF p = NoJob THEN 0 ELSE depth[p] + 1]
  /\ key' = [Set(key, FreedBy(o), NoKey) EXCEPT ![j] = o.key]
  /\ UNCHANGED <<locks, tally, error, inbox, run, snap>>

AddCoalesced(o) ==
  /\ FreedBy(o) # {}
  /\ SameKey(o) = FreedBy(o)
  /\ Coalesces(o)
  /\ key' = Set(key, FreedBy(o), NoKey)
  /\ UNCHANGED <<status, ids, parent, locks, tally, error, inbox, run, snap>>

----------------------------------------------------------------------------
(* The worker: promote, claim, renew, and how a run ends. *)

\* delay_until <= now for the rows of due.
PromoteDelayed(due) ==
  /\ due # {}
  /\ \A j \in due : status[j] = "delayed"
  /\ status' = Set(status, due, "waiting")
  /\ token' = Set(token, due, NoRun)
  /\ lock' = Set(lock, due, "none")
  /\ UNCHANGED <<ids, parent, key, tally, error, inbox, run, snap>>

\* Any waiting row can be the head of the claim order: a worker claims only the
\* names it registered, and SKIP LOCKED passes over rows another one holds.
Claim(r, j) ==
  /\ run[r] = NoJob /\ \A k \in Jobs : token[k] # r
  /\ status[j] = "waiting"
  /\ started[j] < MaxClaims
  /\ status' = [status EXCEPT ![j] = "active"]
  /\ token' = [token EXCEPT ![j] = r]
  /\ lock' = [lock EXCEPT ![j] = "live"]
  /\ started' = [started EXCEPT ![j] = @ + 1]
  /\ run' = [run EXCEPT ![r] = j]
  /\ UNCHANGED <<ids, parent, key, made, stalled, error, inbox, snap>>

LockExpires(j) ==
  /\ status[j] = "active" /\ lock[j] = "live"
  /\ lock' = [lock EXCEPT ![j] = "expired"]
  /\ UNCHANGED <<status, ids, parent, key, token, tally, error, inbox, run, snap>>

RenewLock(r) ==
  /\ Holds(r)
  /\ lock' = [lock EXCEPT ![run[r]] = "live"]
  /\ UNCHANGED <<status, ids, parent, key, token, tally, error, inbox, run, snap>>

\* The run ends and records nothing: its process died, an infrastructure abort
\* returned early, the failure could not be written, or its token no longer
\* matched and the write was dropped.
Abandon(r) ==
  /\ run[r] # NoJob
  /\ run' = [run EXCEPT ![r] = NoJob]
  /\ UNCHANGED <<status, ids, parent, key, locks, tally, error, inbox, snap>>

CompleteJob(r) ==
  LET j    == run[r]
      st   == [status EXCEPT ![j] = "completed"]
      gone == IF opt[j].removeOnComplete THEN {j} ELSE {}
  IN  /\ Holds(r)
      /\ status' = Set(Resolved({parent[j]}, st, parent), gone, "deleted")
      /\ inbox' = Set(Posted({j}, st, "complete"), gone, NoMail)
      /\ parent' = Orphaned(gone, parent)
      /\ token' = [token EXCEPT ![j] = NoRun]
      /\ lock' = [lock EXCEPT ![j] = "none"]
      /\ run' = [run EXCEPT ![r] = NoJob]
      /\ UNCHANGED <<ids, key, tally, error, snap>>

\* The parent's side of a terminal failure, after the child_done is posted.
FailPolicyNoWake(j, st, par) ==                                     \* mutant
  [p \in Jobs |-> IF /\ opt[j].onChildFail = "fail_parent"
                     /\ p = parent[j] /\ st[p] = "waiting-children"
                  THEN "failed" ELSE st[p]]
FailPolicyLenient(j, st, par) == Resolved({parent[j]}, st, par)     \* mutant
FailPolicy(j, st, par) ==
  IF opt[j].onChildFail = "fail_parent"
  THEN [p \in Jobs |-> IF p = parent[j] /\ st[p] = "waiting-children"
                       THEN "failed" ELSE st[p]]
  ELSE Resolved({parent[j]}, st, par)

ExhaustedLate(j) == made[j] >= MaxAttempts                          \* mutant
Exhausted(j) == made[j] + 1 >= MaxAttempts

\* unrecoverable: the handler threw UnrecoverableError, has no registration, or
\* was evicted 30s after its abort.
FailJob(r, unrecoverable, why) ==
  LET j    == run[r]
      new  == IF unrecoverable \/ Exhausted(j) THEN "dead" ELSE "delayed"
      st   == [status EXCEPT ![j] = new]
      par  == IF opt[j].onChildFail = "remove_dep" /\ new = "dead"
              THEN [parent EXCEPT ![j] = NoJob] ELSE parent
      st2  == IF new = "dead" THEN FailPolicy(j, st, par) ELSE st
      gone == IF opt[j].removeOnFail /\ new = "dead" THEN {j} ELSE {}
  IN  /\ Holds(r)
      /\ why = "aborted: timeout" => opt[j].timed
      /\ status' = Set(st2, gone, "deleted")
      /\ inbox' = Set(IF new = "dead" THEN Posted({j}, st, "dead") ELSE inbox, gone, NoMail)
      /\ parent' = Orphaned(gone, par)
      /\ made' = [made EXCEPT ![j] = @ + 1]
      /\ error' = [k \in Jobs |-> IF k = j THEN why
                                  ELSE IF st2[k] # st[k] /\ st2[k] = "failed"
                                  THEN "child failed" ELSE error[k]]
      /\ token' = [token EXCEPT ![j] = NoRun]
      /\ lock' = [lock EXCEPT ![j] = "none"]
      /\ run' = [run EXCEPT ![r] = NoJob]
      /\ UNCHANGED <<ids, key, started, stalled, snap>>

\* A rate-lease bounce: delayed, and no attempt is burned.
ReleaseLeaseFullJob(r) ==
  LET j == run[r]
  IN  /\ Holds(r)
      /\ status' = [status EXCEPT ![j] = "delayed"]
      /\ error' = [error EXCEPT ![j] = "lease full"]
      /\ token' = [token EXCEPT ![j] = NoRun]
      /\ lock' = [lock EXCEPT ![j] = "none"]
      /\ run' = [run EXCEPT ![r] = NoJob]
      /\ UNCHANGED <<ids, parent, key, tally, inbox, snap>>

----------------------------------------------------------------------------
(* The sweeps of the worker's stall timer. *)

\* SKIP LOCKED: rows that another statement holds are left for the next tick.
HandleStalled(due) ==
  LET spent == {j \in due : stalled[j] + 1 >= MaxStalled}
  IN  /\ due # {}
      /\ \A j \in due : status[j] = "active" /\ lock[j] = "expired"
      /\ status' = Set(Set(status, due, "waiting"), spent, "dead")
      /\ stalled' = Bump(stalled, due)
      /\ made' = Bump(made, spent)
      /\ error' = Set(error, spent, "stalled")
      /\ token' = Set(token, due, NoRun)
      /\ lock' = Set(lock, due, "none")
      /\ UNCHANGED <<ids, parent, key, started, inbox, run, snap>>

\* What both timeout sweeps do with the rows they select.
DeadLetter(due, why) ==
  LET st == Set(status, due, "dead")
  IN  /\ due # {}
      /\ status' = Resolved({parent[j] : j \in due}, st, parent)
      /\ inbox' = Posted(due, st, "timeout")
      /\ made' = Bump(made, due)
      /\ error' = Set(error, due, why)
      /\ token' = Set(token, due, NoRun)
      /\ lock' = Set(lock, due, "none")
      /\ UNCHANGED <<ids, parent, key, started, stalled, run, snap>>

HandleTimeouts(due) ==
  /\ \A j \in due : status[j] = "active" /\ opt[j].timed /\ lock[j] = "live"
  /\ DeadLetter(due, "timeout")

HandleWallClockQueued(due) ==                                       \* mutant
  /\ \A j \in due : status[j] \in {"active", "waiting"}
  /\ DeadLetter(due, "wall-clock")
HandleWallClockTimeouts(due) ==
  /\ \A j \in due : status[j] = "active"
  /\ DeadLetter(due, "wall-clock")

----------------------------------------------------------------------------
(* The operator's commands. *)

\* The recursive CTE: the rows within CancelDepth parent links of j.
WithinChildren(j) == {j} \cup {k \in Jobs : parent[k] = j}          \* mutant
Within(j) ==
  LET reach[d \in 0..CancelDepth] ==
        IF d = 0 THEN {j}
        ELSE LET above == reach[d - 1]
             IN  above \cup {k \in Jobs : parent[k] \in above}
  IN  reach[CancelDepth]

\* The statement reads its snapshot ...
BeginCancel(j) ==
  LET found == {k \in Jobs : k \in Within(j) /\ IsLive(k)}
      kin   == {c \in Jobs : parent[c] \in found /\ IsLive(c)}
  IN  /\ snap[j] = NoSnap
      /\ Cardinality({k \in Jobs : snap[k] # NoSnap}) < MaxCancels
      /\ found # {}
      /\ snap' = [snap EXCEPT ![j] = [found |-> found, kin |-> kin]]
      /\ UNCHANGED <<status, ids, parent, key, locks, tally, error, inbox, run>>

\* ... and updates the rows it found, once their locks are free: each is checked
\* again for its status, and no row that was inserted meanwhile is looked for.
CancelJob(j) ==
  LET hit == {k \in snap[j].found : IsLive(k)}
      st  == Set(status, hit, "cancelled")
  IN  /\ snap[j] # NoSnap
      /\ status' = Resolved({parent[k] : k \in hit}, st, parent)
      /\ inbox' = Posted(hit, st, "cancelled")
      /\ token' = Set(token, hit, NoRun)
      /\ lock' = Set(lock, hit, "none")
      /\ snap' = [snap EXCEPT ![j] = NoSnap]
      /\ UNCHANGED <<ids, parent, key, tally, error, run>>

PauseJob(j) ==
  /\ status[j] \in {"waiting", "active", "delayed"}
  /\ status' = [status EXCEPT ![j] = "paused"]
  /\ token' = [token EXCEPT ![j] = NoRun]
  /\ lock' = [lock EXCEPT ![j] = "none"]
  /\ UNCHANGED <<ids, parent, key, tally, error, inbox, run, snap>>

ResumeJob(j) ==
  /\ status[j] = "paused"
  /\ status' = [status EXCEPT ![j] = "waiting"]
  /\ token' = [token EXCEPT ![j] = NoRun]
  /\ lock' = [lock EXCEPT ![j] = "none"]
  /\ UNCHANGED <<ids, parent, key, tally, error, inbox, run, snap>>

ResetKeepingStalls(j) ==                                            \* mutant
  /\ made' = [made EXCEPT ![j] = 0]
  /\ started' = [started EXCEPT ![j] = 0]
  /\ UNCHANGED stalled
ResetTally(j) ==
  /\ made' = [made EXCEPT ![j] = 0]
  /\ started' = [started EXCEPT ![j] = 0]
  /\ stalled' = [stalled EXCEPT ![j] = 0]

RetryJob(j) ==
  /\ status[j] \in {"failed", "dead"}
  /\ status' = [status EXCEPT ![j] = "waiting"]
  /\ error' = [error EXCEPT ![j] = "none"]
  /\ token' = [token EXCEPT ![j] = NoRun]
  /\ lock' = [lock EXCEPT ![j] = "none"]
  /\ ResetTally(j)
  /\ UNCHANGED <<ids, parent, key, inbox, run, snap>>

\* prune: the old rows of the terminal statuses it is given.
RemoveJobs(gone) ==
  /\ gone # {}
  /\ \A j \in gone : status[j] \in Terminal
  /\ status' = Set(status, gone, "deleted")
  /\ parent' = Orphaned(gone, parent)
  /\ inbox' = Set(inbox, gone, NoMail)
  /\ UNCHANGED <<ids, key, locks, tally, error, run, snap>>

RemoveJob(j) == RemoveJobs({j})

----------------------------------------------------------------------------

Init ==
  /\ status = [j \in Jobs |-> "absent"]
  /\ opt = [j \in Jobs |-> NoOpts]
  /\ parent = [j \in Jobs |-> NoJob]
  /\ depth = [j \in Jobs |-> 0]
  /\ key = [j \in Jobs |-> NoKey]
  /\ token = [j \in Jobs |-> NoRun]
  /\ lock = [j \in Jobs |-> "none"]
  /\ made = [j \in Jobs |-> 0]
  /\ started = [j \in Jobs |-> 0]
  /\ stalled = [j \in Jobs |-> 0]
  /\ error = [j \in Jobs |-> "none"]
  /\ inbox = [j \in Jobs |-> NoMail]
  /\ run = [r \in Runs |-> NoJob]
  /\ snap = [j \in Jobs |-> NoSnap]

Submit ==
  \/ \E j \in Jobs, p \in Jobs \cup {NoJob}, o \in Opts : Add(j, p, o)
  \/ \E o \in Opts : AddCoalesced(o)

RunStep(r) ==
  \/ \E j \in Jobs : Claim(r, j)
  \/ RenewLock(r)
  \/ CompleteJob(r)
  \/ \E u \in BOOLEAN, why \in {"handler", "aborted: timeout"} : FailJob(r, u, why)
  \/ "lease full" \in Events /\ ReleaseLeaseFullJob(r)
  \/ Abandon(r)

Sweep ==
  \/ \E due \in SUBSET Jobs : PromoteDelayed(due)
  \/ \E due \in SUBSET Jobs : HandleStalled(due)
  \/ \E due \in SUBSET Jobs : HandleTimeouts(due)
  \/ \E due \in SUBSET Jobs : HandleWallClockTimeouts(due)

Operator ==
  \/ "cancel" \in Events /\ \E j \in Jobs : BeginCancel(j)
  \/ "cancel" \in Events /\ \E j \in Jobs : CancelJob(j)
  \/ "pause" \in Events /\ \E j \in Jobs : PauseJob(j)
  \/ "pause" \in Events /\ \E j \in Jobs : ResumeJob(j)
  \/ "retry" \in Events /\ \E j \in Jobs : RetryJob(j)
  \/ "remove" \in Events /\ \E j \in Jobs : RemoveJob(j)
  \/ "remove" \in Events /\ \E gone \in SUBSET Jobs : RemoveJobs(gone)

Next ==
  \/ Submit
  \/ \E r \in Runs : RunStep(r)
  \/ \E j \in Jobs : LockExpires(j)
  \/ Sweep
  \/ Operator

Spec == Init /\ [][Next]_vars

----------------------------------------------------------------------------
(* Properties. *)

TypeOK ==
  /\ status \in [Jobs -> Statuses]
  /\ opt \in [Jobs -> Opts \cup {NoOpts}]
  /\ parent \in [Jobs -> Jobs \cup {NoJob}]
  /\ depth \in [Jobs -> Nat]
  /\ key \in [Jobs -> Keys \cup {NoKey}]
  /\ token \in [Jobs -> Runs \cup {NoRun}]
  /\ lock \in [Jobs -> {"none", "live", "expired"}]
  /\ made \in [Jobs -> Nat]
  /\ started \in [Jobs -> Nat]
  /\ stalled \in [Jobs -> Nat]
  /\ error \in [Jobs -> Errors]
  /\ inbox \in [Jobs -> [Messages -> Nat]]
  /\ run \in [Runs -> Jobs \cup {NoJob}]
  /\ snap \in [Jobs -> [found : SUBSET Jobs, kin : SUBSET Jobs]]

StalledOut(j) == status[j] = "dead" /\ error[j] = "stalled"

\* The CHECK constraint chk_attempts_order never rejects a statement: a sweep
\* that tripped it would roll back for every row it selected.
AttemptsOrdered == \A j \in Jobs : Exists(j) => made[j] <= started[j]

\* Every claim pays for one recorded end.  A failed attempt, a stall and the
\* execution in progress each use up a claim of their own; only a job that is
\* dead-lettered by the stall sweep books its last claim twice, as a stall and
\* as an attempt.
ClaimsAccounted ==
  \A j \in Jobs : Exists(j) =>
    made[j] + stalled[j] + (IF status[j] = "active" THEN 1 ELSE 0)
      <= started[j] + (IF StalledOut(j) THEN 1 ELSE 0)

\* No interleaving of failures, sweeps and re-claims overruns a job's budget: a
\* job that may still run has attempts and stalls left.  And a job that the stall
\* sweep made dead had used up its stalls: it did not die of an earlier one.
\* (A deadline, an unrecoverable error and a fail_parent child end a job with
\* attempts left, as they should.)
BudgetLeft ==
  \A j \in Jobs :
    /\ made[j] <= MaxAttempts /\ stalled[j] <= MaxStalled
    /\ IsLive(j) => made[j] < MaxAttempts /\ stalled[j] < MaxStalled
    /\ StalledOut(j) => stalled[j] = MaxStalled

\* Without retry and pause, a job with a live child is neither queued nor
\* running: a parent is claimed again only when all its children have ended.
ParentWaits ==
  \A c, p \in Jobs :
    parent[c] = p /\ IsLive(c) => status[p] \notin {"waiting", "active", "delayed"}

\* A parent in waiting-children that nobody will wake has a child whose end was
\* silent: dead-lettered by the stall sweep, or failed by a child of its own.
StrandHasCause ==
  \A p \in Jobs :
    status[p] = "waiting-children" /\ LiveChildren(p) = {} =>
      \E c \in Jobs : parent[c] = p /\ (StalledOut(c) \/ status[c] = "failed")

OutcomeOf(j) ==
  CASE status[j] = "completed" -> "complete"
    [] status[j] = "cancelled" -> "cancelled"
    [] status[j] = "dead" /\ error[j] \in {"timeout", "wall-clock"} -> "timeout"
    [] OTHER -> "dead"

\* Without retry, a live parent has in its inbox exactly one message with the
\* outcome of each child that ended, except for the two silent ends.
InboxComplete ==
  \A c, p \in Jobs :
    /\ parent[c] = p /\ IsLive(p)
    /\ status[c] \in Terminal \ {"failed"} /\ ~ StalledOut(c)
    => inbox[p][[child |-> c, outcome |-> OutcomeOf(c)]] = 1

Told(p) == {m \in Messages : inbox[p][m] > 0}
ChildOf(c, p) == \/ parent[c] = p
                 \/ parent[c] = NoJob /\ opt[c].onChildFail = "remove_dep"

\* Without retry, a child is reported once, to one job, whose child it is or was
\* before remove_dep unlinked it, and with the outcome its row shows: no two of
\* completeJob, failJob, cancelJob and the sweeps handle the same end.
InboxTruthful ==
  \A p \in Jobs : \A m \in Told(p) :
    /\ inbox[p][m] = 1 /\ ChildOf(m.child, p)
    /\ ~ IsLive(m.child)
    /\ status[m.child] \in Terminal => OutcomeOf(m.child) = m.outcome
    /\ \A q \in Jobs : \A n \in Told(q) : n.child = m.child => q = p /\ n = m

\* Without retry and pause, a child with on_child_fail = fail_parent that dies of
\* its own error leaves no live parent: it never proceeds to success.
FailureReachesParent ==
  \A c, p \in Jobs :
    /\ parent[c] = p /\ status[c] = "dead"
    /\ error[c] \in {"handler", "aborted: timeout"}
    /\ opt[c].onChildFail = "fail_parent"
    => ~ IsLive(p)

\* Without retry, one idempotency key has at most one live job, although the key
\* is taken away from dead and cancelled rows.
OneLiveJobPerKey ==
  \A j, k \in Jobs :
    IsLive(j) /\ IsLive(k) /\ opt[j].key = opt[k].key /\ opt[j].key # NoKey => j = k

PhaseOf(st) ==
  CASE st = "absent"                 -> "unborn"
    [] st = "active"                 -> "running"
    [] st \in Live \ {"active"}      -> "queued"
    [] st = "completed"              -> "won"
    [] st \in {"failed", "dead"}     -> "lost"
    [] st = "cancelled"              -> "dropped"
    [] st = "deleted"                -> "removed"

\* The row of a parent that submitted a child keeps its lock columns while it
\* waits: a token counts on an active row only.
Lifecycle == INSTANCE JobLifecycle WITH
  phase    <- [j \in Jobs |-> PhaseOf(status[j])],
  holder   <- [j \in Jobs |-> IF status[j] = "active" THEN token[j] ELSE NoRun],
  attempts <- made,
  stalls   <- stalled,
  Nobody   <- NoRun

\* The statements, in any interleaving, keep the promise of JobLifecycle: one
\* holder per execution, no change of holder under way, every execution booked
\* once and within the budget, and ends that only a retry with a new budget
\* reopens.
KeepsLifecycle == Lifecycle!Spec

\* A completed or cancelled job stays so until its row is deleted; a failed or
\* dead one leaves that state only with its budget restored.
EndsAreFinal ==
  [][\A j \in Jobs :
       /\ status[j] \in {"completed", "cancelled"} => status'[j] \in {status[j], "deleted"}
       /\ status[j] \in {"failed", "dead"} /\ status'[j] \in Live =>
            made'[j] = 0 /\ started'[j] = 0 /\ stalled'[j] = 0]_vars

\* A cancellation takes with every row the children that were live when it read
\* its snapshot, whatever other statements commit before it ends; only a child
\* that was added, or came back to life, behind the snapshot outlives its parent.
CancelCascades ==
  [][\A j, c, p \in Jobs :
       /\ snap[j] # NoSnap /\ snap'[j] = NoSnap
       /\ parent[c] = p /\ IsLive(p) /\ status'[p] = "cancelled"
       /\ c \in snap[j].kin
       => status'[c] \notin Live]_vars

\* A run whose row was requeued, paused, cancelled or claimed by another run
\* changes nothing when it ends.
LostRunsChangeNothing ==
  [][\A r \in Runs :
       /\ run[r] # NoJob /\ run'[r] = NoJob
       /\ ~ (status[run[r]] = "active" /\ token[run[r]] = r)
       => UNCHANGED <<status, parent, made, error, inbox>>]_vars

\* What the worker processes keep doing: they poll for waiting rows, promote what
\* is due, run the wall-clock sweep, and free the slot of a run that has lost its
\* lock (its renewal fails, the abort fires and the run is evicted).  A handler
\* that holds its lock may hang for ever, and no lock need ever expire.
Fairness ==
  /\ \A j \in Jobs : WF_vars(\E r \in Runs : Claim(r, j))
  /\ \A j \in Jobs : WF_vars(\E due \in SUBSET Jobs : j \in due /\ PromoteDelayed(due))
  /\ \A j \in Jobs :
       WF_vars(\E due \in SUBSET Jobs : j \in due /\ HandleWallClockTimeouts(due))
  /\ \A r \in Runs : WF_vars(~ Holds(r) /\ Abandon(r))

FairSpec == Spec /\ Fairness

\* Without lease pressure, retry and pause, every job ends, whatever its runs do;
\* only a job with a silent end among its descendants may wait for ever.
EveryJobEnds ==
  \A j \in Jobs :
    IsLive(j) ~> \/ ~ IsLive(j)
                 \/ \E c \in Within(j) \ {j} : StalledOut(c) \/ status[c] = "failed"
=============================================================================
