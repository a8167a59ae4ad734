# Jarvis Knowledge OS: formal models

TLA+ models of the core of this repository (the `gbrain` program under
`src/src`), the TLC runs that check them on small instances, and theorems that
hold for every instance, proved with TLAPS. Paths below are relative to the
repository root `src/`.

## What the repository holds

The program stores notes as pages in Postgres or PGLite, imports them from git,
extracts facts and links, and answers searches. What makes it a concurrent
system is not the search but what runs in the background: a job queue in a
table, worker processes that claim from it, leases and locks held in rows and
files, and budgets shared by many jobs.

| Component | Code | State it keeps | Interacts through | Hard part |
|---|---|---|---|---|
| Minions job queue | `src/core/minions/queue.ts`, `src/schema.sql` | `minion_jobs`, `minion_inbox` | SQL transactions | parent/child join, token fence, attempts, five methods that end a job |
| Minion worker | `src/core/minions/worker.ts` | in-flight map, timers, abort signals | queue methods, handler promises | abort races, grace eviction, quiet hours, shutdown |
| Lock renewal | `lock-renewal-tick.ts` | time of the last renewal | `renewLock`, abort | two clocks, hung calls |
| Rate leases, lease cap | `rate-leases.ts`, `lease-cap-controller.ts` | lease rows, cap in config | advisory lock, election | expiry under a running call |
| Aggregator fan-out | `handlers/subagent-aggregator.ts`, `commands/agent.ts` | children ids, inbox read marks | queue | submission in three steps, re-run after the inbox was read |
| Subagent loop | `handlers/subagent.ts` | message and tool ledger | model provider, tools | resume after a crash, tools that ran once, two runs at once |
| Supervisor | `supervisor.ts`, `child-worker-supervisor.ts` | crash counters, pid file | child exit codes | crash loops |
| Spend meter, job budget | `budget-meter.ts`, `budget-tracker.ts` | reservations, balance | advisory lock, conditional update | late settlement, midnight |
| Database lock | `src/core/db-lock.ts` | `gbrain_cycle_locks` | rows with a time to live | takeover, pid reuse, heartbeats |
| PGLite directory lock | `pglite-lock.ts` | a directory with a file in it | file system | check, make and write are separate steps |
| Page lock, facts fence | `page-lock.ts`, `facts/fence-write.ts`, `facts/forget.ts`, `cycle/extract-facts.ts` | a lock file, a page body, the `facts` table | file system, SQL | file and table written one after the other, and a reconciliation beside them without the lock |
| Sync, checkpoints, failure ledger | `commands/sync.ts`, `op-checkpoint.ts`, `sync-failure-ledger.ts` | bookmark, checkpoint rows, a ledger file | git, retries, the database lock | commits that land during a run, partial imports, resume |
| Facts queue, background work | `facts/queue.ts`, `background-work.ts` | in-memory queue | promises | overflow, shutdown with work in flight |
| Cycle | `core/cycle.ts` | phase reports | the locks above | one lock over many phases |
| OAuth, self upgrade | `oauth-provider.ts`, `self-upgrade.ts` | codes and tokens, checkpoint file | HTTP, package manager | single use, resume |
| Engines, search, AI, CLI, server, admin, dashboard | the rest | | | queries, text and formatting |

`PROJECT.json` lists the components with their status, and the hazards of the
code with the property that covers each, or the reason none does yet.

What correctness means for each:

* queue: a run that lost its job changes nothing; every attempt is paid for by a
  claim and none is given away; a parent runs exactly when its children have
  ended and with a message of each; what ends stays ended; every job ends.
* worker: a slot is freed for every run; a worker never runs more handlers than its
  concurrency; a drain waits for every handler; trouble of the infrastructure costs
  no job an attempt.
* leases and locks: at most the allowed number of holders, as long as each
  renews in time; a holder that is alive is not evicted; a crash frees the slot.
* subagent: a paid reply is kept, an unsafe tool is not run again, the
  conversation stays one the provider accepts, and the job completes.
* sync: no file is lost between bookmark, checkpoint and ledger; the bookmark
  reaches HEAD; a failure is retried until it succeeds or is acknowledged.
* page: the markdown and the table agree, whatever cuts a writer off.

## What is modelled

### MinionQueue

The table `minion_jobs`, the `child_done` messages of `minion_inbox`, and the
methods of `MinionQueue` that change them. Each method is one statement or one
transaction in the code and one action here, but for `cancelJob`, whose snapshot and
update are two. An action holds everything its transaction does: completing a job also
posts to the parent, wakes it and deletes the row when `remove_on_complete` is set.

State and code:

| Variable | Column |
|---|---|
| `status` | `status`, plus "absent" (id not used yet) and "deleted" (row gone) |
| `opt` | the columns that submission sets once: delay, timeout, `on_child_fail`, `max_children`, `remove_on_*`, key and lane |
| `parent`, `depth`, `key` | `parent_job_id`, `depth`, `idempotency_key` |
| `token`, `lock` | `lock_token`; `lock_until` as "none", "live" or "expired" |
| `made`, `started`, `stalled` | `attempts_made`, `attempts_started`, `stalled_counter` |
| `error` | `error_text`, as the class of message each statement writes |
| `inbox` | how many `child_done` rows each parent has of each child and outcome |
| `snap` | what the recursive query of a `cancelJob` under way found, and the children that were live then |
| `run` | the job each handler execution works on; a run is its own lock token |

| Action | Method |
|---|---|
| `Add`, `AddCoalesced` | `add`: idempotency key, `maxWaiting`, depth and `max_children` checks, insert, parent to waiting-children |
| `Claim`, `RenewLock`, `PromoteDelayed` | the same names |
| `CompleteJob`, `FailJob`, `ReleaseLeaseFullJob`, `Abandon` | how `executeJob` in `worker.ts` ends: success, failure (retried or dead), lease refused, and no record at all |
| `HandleStalled`, `HandleTimeouts`, `HandleWallClockTimeouts` | the three sweeps of the stall timer |
| `BeginCancel`, `CancelJob` | `cancelJob`: the recursive query reads the tree as it is when the statement starts; then the UPDATE, messages and wake-ups |
| `PauseJob`, `ResumeJob`, `RetryJob`, `RemoveJob`, `RemoveJobs` | the operator's other commands; `RemoveJobs` is `prune` |
| `LockExpires` | time passing `lock_until` |

What is abstracted:

* Time is not a number. A lock expires by an event; `delay_until`, `timeout_at` and
  `started_at` are read in one statement each, so the rows that are due are any
  rows that have the clock set. Every order of renewals, sweeps and ends that some
  timing allows is explored.
* A run may stay after it lost its row (a zombie), and `Abandon` ends it without
  a trace: a crash of the process, an infrastructure abort, a failure whose
  recording failed, or a write whose token no longer matched. A claim whose answer
  was lost is `Claim` followed by `Abandon`.
* The claim order (priority, age) is left out. A worker claims only the names it
  registered and SKIP LOCKED passes over locked rows, so any waiting row can be next.
* A sweep takes any subset of the rows that are due, for the same reason.
* Columns that only carry data (payload, result, progress, tokens, timings,
  backoff) are left out, and so are side-channel inbox messages and attachments.
* `on_child_fail = 'ignore'` behaves as `continue` in every statement and is not a
  separate value. `max_attempts` and `max_stalled` are constants.

A cancellation waits for the locks of rows that others hold, and between its query and
its last lock anything may commit. `CancelJob` looks at the status of each row again, as
the UPDATE does, and looks for no other row: a child that `add` attached meanwhile stays
live under a cancelled parent (best effort, says the comment at `queue.ts:409-414`). The
rows are updated at one instant, the last of those at which the statement gets a lock.

A transaction is otherwise atomic in this module. `ParentJoinTx` has the join once more,
statement by statement, and `JoinActsAtOnce` shows that its transactions take effect at
once unless two of those that do not lock the parent meet. It is about the statuses of
a parent and its children, and says nothing of a cascade over several levels or of the
messages.

### JobLifecycle

What the queue promises about a job, without tables and sweeps: phases unborn,
queued, running, won, lost, dropped and removed, one holder while it runs, and the
executions booked as attempts and stalls. `MinionQueue` instantiates it with
`phase` as a function of `status` (`PhaseOf`), the token of active rows as holder,
`attempts_made` and `stalled_counter`; `KeepsLifecycle` says that every step of the
queue is a step of it or a stutter. `Promise` is what follows from it for those who submit
jobs: a holder exactly while the job runs, no run with two jobs, no execution beyond the
budget.

### ParentJoinTx

The transactions of `queue.ts` that attach or end a child, under READ COMMITTED as
Postgres runs them: a statement reads what is committed when it starts and what its
transaction wrote, an update waits for the row lock and looks at the row again, and
the insert into the inbox takes a key-share lock on the parent by its foreign key.

| Variable | Meaning |
|---|---|
| `db`, `own` | the committed status of each row, and what each open transaction wrote |
| `hold` | the lock a transaction asked for on the parent's row |
| `tx` | its kind (add, complete, fail with `fail_parent`, sweep, cancel), its place, the rows still to end |
| `raced` | two transactions that do not lock the parent were open at once |

`Begin`, `LockParent`, `Insert`, `BeginUnlocked`, `EndRow`, `Report`, `Post`,
`Resolve`, `Wake`, `Commit` and `Abort` are the statements. Left out: the contents of
messages, `max_children`, removal of rows, retries, `handleStalled` (which wakes
nobody) and the parent's own end; `remove_dep` behaves as `continue`. A deadlock that
Postgres breaks is an `Abort`. PGLite has one connection and none of these
interleavings.

### AtomicJoin

What these transactions promise together, without transactions: the status of the parent
and of each child, and steps that are whole. `Attach` brings a child to life and makes
the parent wait, `End` ends open rows and wakes a parent that no live child is left to
wake, `Fail` ends a child and its waiting parent. `Overlook`, an end that wakes nobody
although it should, is open only after two unlocked transactions met (`Meet`).
`ParentJoinTx` instantiates it with `row <- db`: statements and aborts stutter, a
transaction that begins beside another may be a `Meet`, and each commit is one step of
the machine on the rows as they are committed at that moment, whatever the transaction
read earlier (`ActsAtOnce`).

### DbLock

One row of `gbrain_cycle_locks` and the calls that use it: `tryAcquireDbLock` with
the takeover of a dead holder, the handle's `refresh` and `release` as
`withRefreshingLock` drives them, the cleanup pass of a process that is told to
end, `reapDeadHolderLocks`, and `gbrain sync --break-lock` in its three forms.

| Variable | Code |
|---|---|
| `row` | the row: pid, host, `acquired_at` as a stamp, its age, the time since `last_refreshed_at`; `by` is the call that wrote it and is in no column |
| `proc` | each process: up, ending (cleanup pass done, work still going) or down |
| `pc`, `purpose`, `snap` | where a call is, what it inspects the row for, and the snapshot it holds across the await before its DELETE |
| `gap` | the time since the call's own last refresh, for stating properties |
| `reused` | a process has started with a pid that the row or a snapshot named, for stating properties |

| Action | Code |
|---|---|
| `Acquire`, `Refused` | the upsert of `acquireOnce`, first try and retry |
| `Inspect`, `Judge`, `DeleteRow`, `GiveUp` | `inspectLock`; the liveness probe and the decision; `deleteLockRow`, `deleteLockRowIfStale` or `deleteLockRowExact`; a query that fails |
| `Refresh`, `Release` | the two UPDATE/DELETE statements fenced by pid; a release may fail |
| `Cleanup`, `Exit`, `Start` | `process-cleanup.ts`; a crash or the end of the cleanup; a new process with an old pid, at any time, also while the row or a snapshot names the pid |
| `Tick` | time |

Time is a number here, in units of which the time to live is one or two. Ages stop
counting above the largest value anything compares them with. The ages in a
snapshot are computed when the answer arrives, so they grow until the judgement.
The clocks of hosts and database are taken as one. `last_refreshed_at` is never
NULL (it is on schemas older than the column). The election wrapper
`tryWithDbElection` is an acquisition and a release. The namespaces of the reaper
are left out: the modelled lock is one of those it may reap.

### MinionWorker

One or more workers over rows reduced to status and token: the claim loop of
`start()`, `launchJob`, `executeJob`, its timers, the quiet-hours refusal, both
ways to stop, and the drain.

| Variable | Code |
|---|---|
| `row` | `status` and `lock_token` of each job |
| `run` | a handler execution: its worker and job, whether its promise is idle, working or settled, the abort reason, whether it still renews, the 30 second grace timer |
| `inFlight` | the map of each worker, keyed by job id, with the run that entered it |
| `loop` | where the loop stands across its awaits, and what a drain waits for |
| `alone`, `upsets` | whether a run never shared its worker with another run of its job; how often the environment intervened (a bound) |

| Action | Code |
|---|---|
| `ClaimRow`, `LoseAnswer`, `Launch` | the claim, an answer that never arrives, `launchJob` |
| `Defer`, `SkipUnlock`, `SkipCancel` | the three outcomes of quiet hours, the skip in its two statements |
| `LoseLock`, `GiveUpLock`, `TimeOut`, `Watchdog`, `Signal` | everything that aborts a run |
| `Complete`, `Fail`, `FailUnrecorded`, `Finally` | the ends of `executeJob` and its `finally` |
| `Evict`, `EvictUnrecorded` | the grace timer: entry deleted, the job failed without waiting for the answer; the same when that write fails, which is swallowed |
| `Drain`, `Settle`, `CutShort`, `Crash`, `Restart` | shutdown and what follows it |
| `HandleStalled`, `HandleDeadlines`, `PromoteDelayed`, `CancelJob` | what others do to the rows |

Left out: health checks and reconnects, the memory arithmetic of the watchdog, and a
handler's calls for progress, tokens and inbox. Attempts are in `MinionQueue`.

### LockRenewal

One run, its lock and the interval timer, in numeric time: `left` is
`lock_until` minus now, `age` the time since the last successful renewal, `pc`,
`elapsed` and `answer` the tick that is waiting, `strays` a call nobody waits for any
more and that may reach the row later. `Fire`, `Land`, `Answered`, `CallFails`,
`Reconnected` and `Ends` are the tick of `lock-renewal-tick.ts`, `LandLate` the lost
call, `Reclaim` the stall sweep, `Pass` one unit of time. The timers of the worker
are punctual and both clocks run equally fast.

### SubagentLoop

Runs of one subagent job from the queue's claim to its end: `loadPriorMessages` and
the tool rows, the turns, the provider call under a rate lease (`rate-leases.ts`), the
two-phase record of a tool call, the tool results and the final result.

| Variable | Code |
|---|---|
| `msgs`, `ledger` | `subagent_messages` and `subagent_tool_executions` |
| `lease`, `orphans` | lease rows of live runs, and those nobody will release |
| `owner`, `outcome` | the token of the job's row, and how it ended |
| `run` | the local variables of a run and the await it stands at |
| `reply`, `ran`, `overlap`, `faults` | what the provider answered, how often a tool ran, whether two runs were at work at once, the failures so far (a bound) |

A claim, a loss of the lock or a death may come between any two steps, and a run that
lost its job goes on to its next fenced write. Left out: the gateway path
(`agent.use_gateway_loop`), the seed message, token roll-ups, heartbeats, prompts and
the contents of tools. Nothing calls `renewLease`, so no action renews.

### Aggregator

`agent run` with a manifest of several entries, and `subagent_aggregator`: the
submission of the aggregator, of each child and of `children_ids`, the message of each
child as it ends, the claim, the two statements of `readInbox`, which marks what it
returns, and the report, in which a child without a message counts as "failed".
`FailRun` puts the job back at once: the backoff only delays it.
`upsets` records what happened to this aggregator: an `early` claim, a `reread` after
a lost run, a child whose end was `silent`.

### Sync

`gbrain sync` of one source with a history of commits under it. A file version
is the commit that wrote it.

| Variable | Code |
|---|---|
| `trees`, `moves`, `branch`, `head` | git |
| `pages` | the version of each path in the database |
| `bookmark`, `target`, `banked` | `sources.last_commit`, and the two rows of `op_checkpoints` (pin and paths done) |
| `ledger` | `sync-failures.jsonl`: path, commit, attempts, state |
| `run`, `walked` | the local variables of the sync in progress; what a full walk has finished |
| `faults`, `upsets` | failures so far (a bound); the events of the table below that happened |

| Action | Code |
|---|---|
| `Edit`, `Remove`, `Move`, `Restore`, `Rewrite` | commits that land at any time, also during a run |
| `StartFull`, `StartIncremental`, `PersistPin` | the choice of range: a pin that is resumed, a fresh one, or one that must be made anew |
| `DeletePage`, `RenamePage`, `ImportPage`, `Walk`, `Flush` | the drain, with its checkpoint appended in batches |
| `Stop` | an interrupt, a crash, a time budget; for a full walk that is done (`WalkedOut`) also between the removal of its checkpoint file and the gate |
| `Gate`, `MoveBookmark`, `ClearPaths`, `ClearTarget`, `MarkSkipped`, `Reconcile` | the failure gate and the writes behind it, each on its own |
| `AcknowledgeAll` | `--skip-failed` of another command, which acknowledges every open row before it asks for the lock of the sync, also in the middle of one |

Left out: a failing pull, heartbeats, the chunker-version gate, a detached or dirty
tree, path filters, dry run, sentinel rows of the ledger, identity deduplication,
`source_path` of a row that slid, the seven-day purge of checkpoints, and the
cleanup of modified files that are no longer syncable. The mass-delete valve is a
`Reconcile` that deletes nothing. Deletes fail per path; the failure threshold is
never zero.

After five events the code may lose a file, and the properties of the run
exempt them by name:

| `upsets` | What happens | Code |
|---|---|---|
| `revert` | a commit brings back an earlier content of a file, so that two commits with another one between them show no difference | `sync.ts`, the diff of two commits |
| `rewrite` | HEAD goes back to an ancestor under the bookmark or the pin | `sync.ts`, the ancestry checks |
| `misread` | the read of a stored pin fails and the run starts with a new pin, over paths banked for the old one | `op-checkpoint.ts`, a load that answers with nothing |
| `walked` | `import-checkpoint.json` knows paths and not versions, so a resumed full walk skips a file that changed since | `sync.ts:3743` |
| `rename` | the import of a renamed file fails and the path is banked anyway | `sync.ts:2978` |

### PgliteLock

`acquireLock`, the heartbeat and `releaseLock` of `pglite-lock.ts`, every call into
the file system a step: `dir` and `file` are the lock directory and who its file
names, `seen` and `mine` what a contender read and whether it holds, `takes` the
acquisitions (a bound). A process may crash at every step and its pid may name another
process (`Orphan` and restarts). `raced` says that a contender read a lock
that a running process was just writing, judged one that had changed since it was
read, or removed one beside another remover. Left out: in-memory databases, messages and the clock
of the acquisition timeout; `rmSync` removes file and directory in one step.

### PageFence

`withPageLock` and the writers under it, for one page: `fence-write.ts` adds a fact to
the markdown and inserts its row, `forget.ts` strikes one through and expires its row.
Beside them, without the lock, the `extract_facts` phase makes the table follow the page
as it was last imported, and a fact that cannot be struck out expires in the table alone.

| Variable | Code |
|---|---|
| `lock` | the lock file: who wrote it, whether the write is complete, whether it is older than five minutes |
| `fence`, `facts` | the body's table of facts, and the rows of `facts` |
| `call`, `up` | each call with what it read, whether it outlived the five minutes (`late`) and whether a wipe deleted the row it forgets (`gone`), and its process |
| `db`, `pass` | the fence in the imported page (`pages.compiled_truth`), and `extract_facts` at this page: its place and what it read |
| `bare` | the numbers that expired in the table and were not struck on the page, for stating properties |
| `upsets` | `raced`: two calls took the lock at once; `rewritten`: another writer dropped the page's fence; `blind`: the lookup of the highest number failed; `revived`: a refill brought back a row that the page had lost; `refused`: a number was already another fact's |

| Action | Code |
|---|---|
| `Begin`, `BeginForget` | `writeFactsToFence`; `forgetFactInFence`, which takes the lock or, where it finds no file, goes without |
| `Exists`, `Stat`, `Read`, `Open`, `Fill`, `Check`, `Unlink` | the steps of the lock |
| `ReadBody`, `Number`, `WriteBody`, `Insert` | adding: body, highest number, new body (or its quarantine), row |
| `ReadTarget`, `Strike`, `Expire`, `ExpireOnly` | forgetting: body, new body (or its quarantine), row; `ExpireOnly` is the `expireFact` of the five fallbacks |
| `Import` | a sync or a write-through that imports the page |
| `ReadPage`, `List`, `Wipe`, `Refill`, `Abandon` | `extract_facts`: the imported body, the comparison, `deleteFactsForPage`, `insertFacts`, an error or abort |
| `Rewrite` | a writer that does not keep the fence |

The synchronous sections of one process exclude each other. `insertFacts` drops a row
whose number is taken (`ON CONFLICT DO NOTHING`), and a failed lookup of the highest number
counts as zero. A wipe deletes what the table has at that moment, also rows added since
the phase read the page; they come back when a later pass reads a later import. A
refill inserts rows as not expired, also those that are struck on the page. `forget.ts:129`
joins the path of the source and the slug, where `fence-write.ts:175` resolves it
(`.sources/<id>/`), so that for every source but the default one the file is not found and
the fact expires in the table only; with the event "unfenced" any forget may do so.

Left out: `refresh` (no code calls it), the takes commands, rows without a number and
`cli:` rows (neither wiped nor refilled), two rows with the same text and source (they
count as one fact), the temporary file, a failed write of the lock, and the
phantom-redirect pass, which moves facts between pages before the phase.

### Instances and proofs

`MCMinionQueue`, `MCDbLock`, `MCMinionWorker`, `MCLockRenewal`, `MCSubagentLoop`,
`MCAggregator`, `MCSync`, `MCParentJoinTx`, `MCPgliteLock` and `MCPageFence` give
constants that a configuration cannot express and the symmetries.
`MinionQueueProofs`, `ParentJoinTxProofs`, `MinionWorkerProofs` (also about `LockRenewal`),
`SubagentLoopProofs`, `AggregatorProofs`, `DbLockProofs`, `FileLockProofs` (about
`PgliteLock` and `PageFence`) and `SyncProofs` hold the theorems. `LockRenewal` and
`PgliteLock` have names of their own for their specifications (`TickSpec`, `DirSpec`), so
that one proof module can extend them beside a second component.
An operator beside another with the same parameters and a longer name
(`HasOneMore` beside `HasSlot`) is a deviation of the code that one of the properties must
notice; no specification uses it, and `PROJECT.json` lists them under "mutants".

## What the runs check

| Run | Instance | Properties |
|---|---|---|
| `tree` | 3 jobs, 2 runs, one root, depth 2, every `on_child_fail`, a parent with one slot, a key, a lane of one, a cancellation in two steps | `ParentWaits`, `StrandHasCause`, `InboxComplete`, `InboxTruthful`, `FailureReachesParent`, `CancelCascades`, `OneLiveJobPerKey` |
| `execution` | 2 jobs without parent, 2 runs, 2 attempts, 2 stalls, all commands and lease pressure | `TypeOK`, `ClaimsAccounted`, `BudgetLeft`, `KeepsLifecycle`, `LostRunsChangeNothing` |
| `progress` | a parent and a child, 2 runs, 2 attempts, 2 stalls, cancellation, fairness | `EveryJobEnds` |
| `join` | a parent, 2 children, 3 transactions | `LastEndWakes`, `NoEarlyWake`, `ActsAtOnce` |
| `worker` | one worker with one slot, 2 jobs of which one has quiet hours, 2 runs, 2 interventions (also a failed write of an eviction), fairness | `HandlersKeepTheirSlots`, `DrainWaitsForAll`, `InfrastructureSparesJobs`, `EverySlotReturns`, `ClaimsEnd` |
| `lock_renewal` | the default knobs in units of 2.5 seconds | `OverlapBounded` |
| `subagent` | one job, 2 runs, a lease cap of 1, two turns, three tools of which one must not run twice and one is unknown, 2 faults, fairness | `TypeOK`, `CallsCapped`, `RepliesKept`, `TranscriptCoherent`, `RerunsAreSafe`, `EveryJobCompletes` |
| `aggregate` | 2 children, 3 runs, stalls, deaths, lost and failed runs | `ReportTrue` |
| `lock` | 3 processes, 2 hosts, two processes that crash and restart under their pid at any moment, a third that is signalled, a reaper, fairness | `TypeOK`, `MutualExclusion`, `ReaperSparesTheLiving`, `AbandonedLockYields` |
| `sync` | 2 files, 3 commits, a version that cannot be imported, a page that cannot be deleted, one fault or acknowledgement from outside, fairness | `EveryFileTracked`, `BankedIsDone`, `SkipsFollowBookmark`, `RowsClearWhenIndexed`, `Converges` |
| `pglite` | 3 processes, 4 acquisitions, crashes, reused pids | `HoldersExclude` |
| `page` | 3 calls in 2 processes, `extract_facts` and imports, crashes, old locks, rewritten pages, failed statements, expiries in the table alone | `FactsKept` |

What each property says is in the comment above it. Those that relate several
actors or several moments:

* `ClaimsAccounted`: failures, stalls and the execution in progress each have a
  claim of their own. It is why the CHECK constraint `chk_attempts_order` never
  rejects a sweep, which would roll back for every row it selected.
* `BudgetLeft`: no interleaving of failures, sweeps and re-claims gives a job an
  execution more than its budget, and the stall sweep makes no job dead that had stalls
  left. A deadline or an unrecoverable error does end a job with attempts left.
* `LostRunsChangeNothing`, `KeepsLifecycle`: the token fence, for every way a run can
  lose its row, and the promise of the queue as a whole.
* `ParentWaits`, `InboxComplete`, `InboxTruthful`: the join. Five methods end a
  child; each has its own copy of the insert and of the wake-up. Messages are counted:
  each end is told once, to one parent, whose child it was.
* `CancelCascades`: a cancellation takes with every row the children that its snapshot
  held, whatever commits before it gets its locks.
* `StrandHasCause`: the two ends that wake nobody (a stall dead-letter, a parent
  failed by its child) are the only reasons why a parent waits for nothing.
  `EveryJobEnds` is liveness, up to those two.
* `NoEarlyWake`, `LastEndWakes`: the same join under row locks, where two ends may each
  see the other child still live.
* `ActsAtOnce`: the row locks make a transaction of several statements, which reads and
  writes at different moments, take effect as if it ran alone at its commit.
* `HandlersKeepTheirSlots`, `DrainWaitsForAll`: the map is keyed by job, and a job
  can be claimed again while its old run is still there; what is claimed after the
  signal must be waited for too.
* `InfrastructureSparesJobs`: an abort because the lock or the database is gone never
  costs the job an attempt, on none of the paths out of a run, eviction included.
* `OverlapBounded`: how long a run may go on behind the end of its lock. With the
  defaults the bound is 40 seconds for a lock of 30; the run comes within 10
  seconds of it.
* `RepliesKept`, `RerunsAreSafe`, `TranscriptCoherent`: what a resumed run may do again.
* `ReportTrue`: what the aggregator says of each child, across re-runs. A child it has
  no message of is reported as failed; that is the only wrong outcome, and happens only
  after a silent end or a second read.
* `MutualExclusion`: two calls that both refreshed within the time to live never
  work at once, whatever late holders, takeovers, deletions by age and crashes do
  around them, until a process starts with a pid that the row or a snapshot still names.
  A late holder goes on working, because a refresh never looks at
  whether it changed a row; the property is about punctual ones.
* `ReaperSparesTheLiving`: the deletion that also compares `acquired_at` is
  safe although the pid it saw dead may be in use again. In the run it is: a process
  crashes, the reaper reads its row, the process comes back under its pid and takes the
  lock, and the reaper deletes.
* `AbandonedLockYields`: a row without a holder goes; the pid in the refresh is what
  keeps a late holder from prolonging another's row for ever.
* `EveryFileTracked`: between bookmark, pin, checkpoint, diff and failure ledger there is
  at every moment somebody who still knows of a file that the brain lacks.
* `Converges`: the bookmark reaches HEAD once the repository is quiet, past files
  that can never be imported.
* `SkipsFollowBookmark`: a row that the valve skipped never lies ahead of the bookmark. It
  is about `auto_skipped` rows; `--skip-failed` may acknowledge a row ahead of it.
* `FactsKept`: a number is never given twice and the table never knows what the page
  does not, wherever a writer is cut off and whatever `extract_facts` wipes and refills
  between two steps of it.

### Bounds

A tree of three jobs contains a parent with two children and a chain of
three, the two shapes in which a join or a cascade can go wrong. Two runs give a
zombie beside a new owner of the row. Two attempts and two stalls separate the
first from the last; `tree` is about the join and has one of each. `MaxClaims` bounds
the claims of one life of a job; in `tree` and `progress` attempts and stalls run out
first, so it never binds there; in `execution` it cuts only repeated lease-full bounces
and pause/resume rounds, which change no counter but `attempts_started`. `MaxRoots`
bounds submissions without a parent. `MaxCancels` bounds the cancellations under way at
once; with one, everything else a row can meet goes on between its two steps. The three
options of `tree` (`TreeOpts`) share out the policies, the removals, the key and the
lane. `CancelDepth` stands for the limit of 100 in
the recursive query and is larger than any depth in the instance. Runs with
`CHECK_DEADLOCK FALSE` stop when every job has ended and every id is used, or when the
constants leave nothing more to do.

In `join` two children and three transactions are the two that race and one that locks.
In `worker` one slot and two jobs make a second claim wait for the first slot, two runs
give an old run beside its successor, and two interventions allow a lost lock
followed by a crash, a signal or a deadline; the theorems cover any number of
each. In `subagent` two faults exceed one failed run by one, so that a resumed run
fails too; `EveryJobCompletes` rests on fewer faults than the job has attempts.
`MaxTurns` of two is a turn that uses tools and a last one, `MaxCalls` leaves room for
the replies that faults waste. In `sync` three commits give a bookmark, a pin and a
commit that lands behind it; one fault is a crash, a failed write or an acknowledgement
from outside at any step; `Poison`
is a version that never imports and `Stuck` a page that cannot be deleted; an
auto-skip threshold of two separates a first failure from a chronic one;
`MaxMisses` is the number of failed checkpoint writes in a row after which a run
stops. In `pglite` a third process meets what two left; four
acquisitions let the first holder come back. In `page` two calls share a process and
one is in another; one pass of `extract_facts` at a time, any number of them.

For the database lock, three processes are a holder, a successor and a third party
that deletes or waits; three calls, one each. Two processes may crash and come back
(`Crashing`), one of them runs the reaper (`Inspectors`), the third may be signalled. The
time to live is 1, the steal grace of the same length, the takeover grace 0; the default
grace is at most a third of the time to live but at least a minute, and the
environment may set it higher. Nothing of the lock is cut off by a bound: ages saturate
where no comparison can tell them apart.

Commands that are left out of a run are named in its configuration (`Events`,
`Purposes`) and in the comment of the property. `retry` makes an ended child live under
a parent that was already told of its end, and `pause` followed by `resume` makes a
parent runnable whatever its children do: `ParentWaits` and the inbox properties do not
hold with them, and nothing in the code says they should. In `page` the states after two
calls took the lock at once are cut off (`CONSTRAINT Exclusive`): `FactsKept` says
nothing about them.

### Fairness

`progress`: weak fairness of claiming each waiting job, of promoting
each due job, of the wall-clock sweep for each job that stays active, and of
freeing a run that lost its lock. The worker's loop and timers do these for ever
(`worker.ts` 297-333 and 520-588; the abort and the grace timer at 839-914). The
wall-clock sweep is the one every job is subject to, because `timeout_at` is
optional and a handler may renew its lock for ever. No fairness is assumed of a
handler, of lock expiry, of `handleStalled` or of `handleTimeouts`.

`worker`: the renewal that notices a lost lock, the grace timer, the `finally` of a
settled promise, the drain and what follows it, the launch of a claimed job, and the
deadline sweep. They are timers, promise callbacks and the next statement of a loop.
Nothing is asked of a handler, which may never return.

`lock`: the clock ticks, an acquisition that began finishes its
queries, and callers try again (cron, autopilot or the next command). No fairness
is assumed of refreshes, releases, cleanups or the reaper: the upsert alone must
free the lock. The attempts are strongly fair, because an attempt that finds the row
deletable is interrupted by nothing but other calls.

`sync`: the scheduler starts an incremental sync again and again, and a full one while
there is no bookmark; a sync that runs goes on or stops. No fairness of commits or
of operators' acknowledgements: the bookmark gets to HEAD without them.

`subagent`: a job without owner is claimed, a run takes its next step, an orphaned lease
expires. No fairness of deaths, losses of the lock or of a lease running out.

### Disagreements between the code and its documentation

Each is an event that a property above exempts by name: without the
exemption the run would end with it.

| What the code does | What is said | Named in |
|---|---|---|
| `handleStalled` ends a child without a message and without waking its parent (`queue.ts:1229`) | every terminal transition does both (`subagent-aggregator.ts`, header) | `StrandHasCause`, `EveryJobEnds`, `ReportTrue` (`silent`) |
| `failJob` with `fail_parent` ends the parent and tells nobody above it (`queue.ts:1039`) | the message is posted on every terminal transition (`types.ts`) | `StrandHasCause`, `EveryJobEnds` |
| two sweeps or cancellations at once each see the other's child still live and nobody wakes the parent (`queue.ts:763`) | the last child's end wakes it (`queue.ts:762`, 870-873) | `LastEndWakes` (`raced`) |
| a path whose delete failed counts as resolved, and the run that repeats it never gets past the gate (`sync.ts:3418`) | a delete that fails is retried and acknowledged like an import (`sync.ts:3389`) | `Converges` (`Wedged`) |
| a renewal that fails fast at 15 seconds is tried again at 30, when the lock is gone (`lock-renewal-tick.ts:250`) | the worker stops before the lock ends (`lock-renewal-tick.ts:24-27`) | `OverlapBounded` (`Overlap`) |
| a contender may remove a lock that a running process holds (`pglite-lock.ts:213`) | a live holder is never evicted (`pglite-lock.ts:43-44`) | `HoldersExclude` (`raced`) |
| a re-run of the aggregator no longer sees the messages its predecessor marked read; an aggregator claimed during the submission completes with no children (`subagent-aggregator.ts:59`, `agent.ts:295`) | the inbox has all children when the aggregator runs (`subagent-aggregator.ts:4`, 71) | `ReportTrue` (`reread`, `early`) |
| a pid that is used again between a takeover's inspection and its DELETE names a living holder, who loses the lock (`db-lock.ts:317`) | the age gate is there against pid reuse (`db-lock.ts:120-122`) | `MutualExclusion` (`reused`) |
| a forget that finds no file, no row on the page or a fence it would break expires the fact in the table alone (`forget.ts:110-152`, 190-194); for sources other than the default the file is always looked for in the wrong place (`forget.ts:129`) | forget is a rewrite of the fence, with the table alone as the exception for legacy rows (`forget.ts:10-14`, 26-32) | `FactsKept` (`bare`) |
| a refill from an older import brings back rows of a page that lost its fence, and their numbers may be given out again when the table was asked before (`extract-facts.ts:466`) | the table says which numbers were given out (`fence-write.ts:237-239`) | `FactsKept` (`revived`) |
| two processes may take the page lock at once; a late holder removes its successor's file when both belong to one process (`page-lock.ts:95`, 111) | one writer at a time (`page-lock.ts:4-7`, 33) | `FactsKept` (`raced`, `late`) |

Noted while reading, and not the subject of a property:

* A run aborted by its own timer is retried while attempts are left
  (`worker.ts:1127`); the type says a timeout is terminal (`types.ts:121`).
  `retryJob` makes a child live without the cap check (`queue.ts:523`), while
  `max_children` is the cap on live children (`types.ts:119`). `resumeJob` makes a paused
  parent runnable with live children.
* The safe `--break-lock` deletes by id and pid what it judged by an earlier
  snapshot (`sync.ts:1754`); the comment on the DELETE says there is no window between
  check and delete (`db-lock.ts:479`). A takeover does the same, and its
  age gate, meant against pid reuse, looks at the inspected row. `deleteLockRowExact`, which the
  reaper uses, has neither problem. `withRefreshingLock` says that the next refresh would
  see the lock invalidated; `refresh` does not look at its result.
* A worker that reclaims a job it still runs loses the new entry of `inFlight` to the
  old run's `finally` or grace timer (`worker.ts:889`); `alone` leaves such runs out. The
  `cancelJob` of a quiet-hours skip is not fenced. An abort by the watchdog uses an attempt.
* Two subagent runs that overlap may mix their answers (`subagent.ts:3-9`). A resumed
  run calls a reply that the output cap cut off `end_turn` (`subagent.ts:665-669`, 381-387).
  A successful tool whose record failed is recorded as failed. The header promises
  lease renewal (`subagent.ts:14-16`); nothing calls it, as 510-514 says.
* `pglite-lock.ts` 117-125 takes a process of another user for dead. `withPageLock` never
  refreshes. A number that is taken does not raise the duplicate-key error that
  `fence-write.ts:231-233` tells of: `insertFacts` drops the row silently.
* A forgotten fact comes back to life in the table after a wipe: `insertFacts` sets no
  `expired_at`, although `forget.ts:12-14` says that it is rebuilt from `valid_until`. The
  page keeps it struck out.
* A crash after a full walk removed its checkpoint and before the gate makes the next
  run walk everything again; nothing is lost.
* An aborted sync that imported a file leaves the file's ledger row open
  (`sync-failure-ledger.ts:424`). A full walk that stops before its reconciliation leaves pages of
  deleted files. Files are read from the live tree, beyond the pin. A blocked
  version-gate run writes the version anyway.
* `completeJob` and a sweep may deadlock on the rows of parent and child; Postgres
  breaks it and the loser is repeated by its caller or by the next sweep.

## What is proved

The theorems hold for every value of the constants that the named assumption of the
module allows: any number of jobs, runs, workers, processes, files, commits, and any
budgets, bounds and durations.

| Module | Theorem | Statement |
|---|---|---|
| `MinionQueueProofs` | `TypeCorrect` | `Spec => []TypeOK` |
| | `ClaimsAreAccounted` | `Spec => []ClaimsAccounted` |
| | `AttemptsStayOrdered` | `Spec => []AttemptsOrdered` |
| | `BudgetsAreKept` | `Spec => []BudgetLeft` |
| | `EndsStayFinal` | `Spec => EndsAreFinal` |
| | `LostRunsAreFenced` | `Spec => LostRunsChangeNothing` |
| | `ParentsWait` | `JoinSetting => (Spec => []ParentWaits)` |
| | `FailuresReachParents` | `JoinSetting => (Spec => []FailureReachesParent)` |
| | `InboxIsComplete` | `NoRetry => (Spec => []InboxComplete)` |
| | `InboxIsTruthful` | `NoRetry => (Spec => []InboxTruthful)` |
| | `OneJobPerKey` | `NoRetry => (Spec => []OneLiveJobPerKey)` |
| | `StrandsHaveCauses` | `"remove" \notin Events => (Spec => []StrandHasCause)` |
| | `CancellationsCascade` | `CancelDepth >= MaxSpawnDepth => (Spec => CancelCascades)` |
| | `QueueImplementsLifecycle` | `Spec => KeepsLifecycle` |
| | `QueueKeepsPromise` | `Spec => []Lifecycle!Promise` |
| `ParentJoinTxProofs` | `TypeCorrect` | `Spec => []TypeOK` |
| | `NeverWokenEarly` | `Spec => []NoEarlyWake` |
| | `LastEndAlwaysWakes` | `Spec => []LastEndWakes` |
| | `JoinActsAtOnce` | `Spec => ActsAtOnce` |
| `MinionWorkerProofs` | `TypeCorrect` | `Spec => []TypeOK` |
| | `SlotsAreKept` | `Spec => []HandlersKeepTheirSlots` |
| | `DrainsAreComplete` | `Spec => DrainWaitsForAll` |
| | `InfrastructureNeverFails` | `Spec => InfrastructureSparesJobs` |
| | `RenewalTypeCorrect` | `TickSpec => []TickTypeOK` |
| | `OverlapIsBounded` | `TickSpec => []OverlapBounded` |
| `SubagentLoopProofs` | `TypeCorrect` | `Spec => []TypeOK` |
| | `LeasesCapCalls` | `Spec => []CallsCapped` |
| | `TranscriptIsCoherent` | `Spec => []TranscriptCoherent` |
| | `ToolsRunAgainSafely` | `Spec => RerunsAreSafe` |
| | `RepliesAreKept` | `Spec => []RepliesKept` |
| `AggregatorProofs` | `TypeCorrect` | `Spec => []TypeOK` |
| | `ReportsAreTrue` | `Spec => []ReportTrue` |
| `SyncProofs` | `TypeCorrect` | `Spec => []TypeOK` |
| | `SkipsAreBehind` | `Spec => []SkipsFollowBookmark` |
| | `NoFileIsLost` | `Spec => []EveryFileTracked` |
| | `BankedStaysDone` | `Spec => []BankedIsDone` |
| | `RowsAreKept` | `Spec => RowsClearWhenIndexed` |
| `DbLockProofs` | `TypeCorrect` | `Spec => []TypeOK` |
| | `ReaperIsSafe` | `Spec => ReaperSparesTheLiving` |
| | `Exclusion` | `ExclusiveSetting => (Spec => []MutualExclusion)` |
| `FileLockProofs` | `TypeCorrect` | `DirSpec => []TypeOK` |
| | `OneHolder` | `DirSpec => []HoldersExclude` |
| | `PageTypeCorrect` | `Spec => []PageTypeOK` |
| | `FactsAreKept` | `Spec => []FactsKept` |
| | `OneWriter` | `Spec => []PageHasOneWriter` |

*The queue.* `ClaimsAccounted` and `BudgetLeft` are not inductive: nothing in them
says what an ended row looks like, and `retryJob`, a claim and a sweep all
depend on that. `AccountInv` strengthens them with `Settled` (the account of each
row, by its status) and `Budgeted` (the budget of each row, by its status).
Whatever an action does to other columns, it moves each row of the table in one
of five ways: its account is untouched, it is claimed, it ends an execution, it
stalls, or it is retried. `StepMoves` shows this once, action by action;
`MoveSettles` and `MoveBudgets` show that each of the five keeps the account, by
arithmetic on one row. `AccountStep` and `AccountHolds` put them together and the
theorems follow. `EndsStayFinal` uses the same five moves. `LostRunsAreFenced` needs only
the types: whatever frees a run is a step of that run, and all but `Abandon` test the
token first.

*The refinement.* `QueueImplementsLifecycle` reuses `StepMoves` for the counters,
adds `StepKeepsHolders` (no step hands a running job to another holder) and `Phases`
(what `PhaseOf` says of each status); `StepImplements` shows that every step of the queue
moves each job along one edge of `JobLifecycle` or not at all. The invariant `Promise` is
proved of the abstract machine, from its steps alone (`PromiseStep`), and
`QueueKeepsPromise` carries it to the queue by the refinement: that no two running jobs
share a token, for instance, needs no further look at the queue's actions.

*The join.* `JoinSetting` says that no operator pauses or retries.
`ParentWaits` becomes inductive (`JoinInv`) with one fact, `ParentsExist`: a row that
is still absent is nobody's parent, so a new row starts without children. `JoinKept`
is what every step but a submission does to the join of one parent: no child becomes
live or is attached, and the parent becomes runnable only if no child is live.
`ResolvingKeepsJoin` shows it once for the statements that end rows and then resolve
parents (`completeJob`, `failJob`, both timeout sweeps, `cancelJob`), from
`ResolvedJoins` and `FailPolicyJoins`; `AddKeepsJoins` covers the submission, which
moves a runnable parent to waiting-children in the step that adds the child.

*What reaches a parent.* `FailureInv` adds to `JoinInv` that nothing is paused: a
failure policy only fails a parent that still waits, and a paused one does not.
`InboxInv` adds to both statements about the inbox, which count the messages, that the
sender of each message was a row, so a row number still to be used has sent nothing; a
message is either an old one or the first of a row that ends in this step (`MailStep`), and
a row stays a child unless `remove_dep` unlinks it or its parent goes (`StaysChildOf`). `NoRetry` (no operator
retries) is their hypothesis because a retry changes the outcome a message told.
`KeyInv` says what a live job holds: the key it was submitted with (`KeysHeld`), which
no other row has (`KeysUnique`); a retried row comes back without its key, so `NoRetry` is
needed here too. `StrandHasCause` is inductive once it is known what each step can do to a
waiting parent and its last child; a removed child leaves no cause behind, which is why
"remove" is excluded.

*The cascade.* `CascadeInv` keeps every child one level below its parent and no level
beyond `MaxSpawnDepth` (`Depths`), and says of a cancellation under way that the live
children of the rows it found are among them (`KinFound`). `Within` follows links level by
level, a recursive function; `NatSetInduction` is induction over a set of numbers, which
needs no operator parameter, and gives `WithinTakesChildren`: the rows found contain the
children of each row found. `KinFoundStep` carries that from the snapshot to the update
(`SnapStep`: nothing else touches a snapshot), which then ends all of them that are still
live. The hypothesis is what the defaults satisfy: the query goes 100 levels deep,
a submission 5 (`max_spawn_depth` may be raised by the caller, beyond 100 in principle).

*The join under row locks.* `LockInv` says which locks exclude each other and what each
transaction has written at each of its places (`LocalInv`). `EarlyInv` adds what a
transaction that wants to wake the parent has seen (`WakesOf`); `LastInv` adds that an
end which leaves the parent waiting leaves a live child, or a transaction that will
look again (`LeavesOf`), as long as no two unlocked transactions met (`Alone`).
`JoinActsAtOnce` needs a third part, because the abstract step is judged by the rows at the
commit and a transaction decided by those at its statements. `WriteInv` says that open
transactions write different rows (`Apart`), that what each wrote replaces a committed
value which is still there (`RowsOf`), and what caused each write (`CausesOf`): a parent
ends only with its child and wakes only after an end.
`CommitInv` is the three together. Every statement keeps `db` and
so maps to a stutter or to `Meet`; a commit maps by its kind, an addition to `Attach`
(`AdditionActsAtOnce`), an end to `Fail`, `End` or, after a meeting, `Overlook`
(`EndsActAtOnce`).

*The worker.* `SlotInv` is the types, `Room` (entries and a pending claim fit in the
concurrency), `InOwnSlot` and `DrainKnowsAll`. Every step but `Launch` only takes runs out of
the slots; `LaunchKeepsSlots` is the one that uses `HasSlot`, which was tested before the
await of the claim.

*The renewal.* `OverlapInv` bounds how far the lock's end can lie behind the last success
(`Granted`) and the age of that success by the place of the tick (`Aged`);
`OverlapIsBounded` is their sum.

*The subagent loop.* Three layers. `BaseInv` is the types and `Known`: what a stored turn
or a run refers to was answered before, to the same job. `LeaseInv` adds that at
most `Cap` leases are alive and that a run has one exactly around its call;
`LeasesCapCalls` is a count of runs. `LoopInv` says, as long as no two runs worked at once,
what the conversation of a job may look like (`Whole`) and what its only run knows of
it at each place (`RunOk`); coherence and the safe re-runs follow from it. `KeptInv` counts:
a reply is a stored turn, in the hands of a run, or one of the faults.

*The aggregator.* `BaseInv` always holds: messages are true and a report that is not is
"failed" (`Truthful`), and the submission and the join are in order (`Submitted`,
`Joined`). `Told` holds until a child ends silently or messages are read again: every end
is told (`AllTold`), a run that is about to finish has a message of each child it asks for
(`HolderHeard`), and the report says what the children did (`ReportedTrue`). `Late` holds
until an early claim: the aggregator works after its submission and asks for every child.

*The sync.* `OrderInv` keeps bookmark, pin, HEAD and the commits in the ledger in order.
`TrackInv` follows one file through a run: what the range shows is still to do, done, failed
with a row, or changed since (`Settled`), and each phase of the run (`Drawn`, `Worked`, `LeftOver`,
`Ready`, `Passed`) says which of these are left when the bookmark moves. The checkpoint
(`Stored`) is part of it because a resumed run skips what it says.

*The database lock.* `RowInv` ties rows and snapshots to calls: a row names
the process of the call that wrote it, equal stamps mean the same acquisition, a
process that is down runs no call, and the acquisition that a reaper is about to
delete is over. The last part is what `ReaperIsSafe` needs and it is inductive
because a new acquisition has a stamp that no snapshot has (`FreshIsNew`, a counting
argument). `Exclusion` adds `Owned` (the row is the punctual holder's and no staler
than its last refresh) and `CondemnedIsDown` (what was judged dead is down).
`ExclusiveSetting` names what the deployment must guarantee: one pid per call, and no
`--break-lock` except with `--max-age` of at least the time to live. The pid fence gives
nothing to calls that share a pid. The property itself ends where a pid is used again
while the row or a snapshot names it: a restart between a takeover's inspection and its
DELETE costs the new holder its lock. The graces are not needed for it, and neither is
any of this for `ReaperIsSafe`.

*The PGLite lock.* As long as nothing raced, the directory belongs to exactly the process
that is using or filling it (`OwnerMade`), the file in it names that process (`FileTrue`),
and what a contender is about to remove has no owner (`ReapsOrphans`).

*The page.* As long as no two calls took the lock at once, one call at most is between its
decision to take the lock and the end of its release, and the file is its own
(`LockIsHis`). Behind that exclusion the holder's knowledge is current at each place:
the body it read (`ReadIsCurrent`), the number it chose, which is new on the page
(`NumberIsNew`, with `MaxExists` for the greatest of a bounded set) and free in the table
(`NumberIsFree`), the row it has yet to insert or expire (`RowIsWritten`, `RowIsStruck`).
`extract_facts` takes no lock, so each of these must survive its steps: it writes only what
it read from an import of the page, and that is on the page (`CopiesInFence`), so a refill
takes a number from nobody but a page that lost its fence (`RefusedOnlyExcused`).
`FactsInFence` is then inductive. `PassKeepsPage` has the steps of the phase, the other
lemmas those of the calls.

Where a step needs longer than the provers are given by default, its proof names a
longer time (`ZenonT`, `SMTT`); nothing else about it is different.

What stays with TLC: the liveness properties (`EveryJobEnds`, `EverySlotReturns`,
`ClaimsEnd`, `EveryJobCompletes`, `AbandonedLockYields`, `Converges`), since the prover does
not handle fairness and ENABLED. Every safety invariant and action property of the
runs is stated by one of the theorems. The hypotheses in the table name
the settings in which the code keeps its promise; `retryJob` and `removeJob` are outside some
of them, and the run `execution`, which has both, does not check those properties.

## Not modelled

The components with status "not_modelled" in `PROJECT.json`, with the reason each, and
what the sections above leave out. The lease cap controller and the job budget are not
called by anything. Five hazards have no property: messages that a terminal parent
never got and a retry does not ask for (`queue.ts:754`), the map of a worker that runs a
job twice (`worker.ts:889`), `--break-lock` on a snapshot (`sync.ts:1754`), a ledger row that
starts over with every delete that fails (`sync.ts:3418`), and the spend meter's late
settlement (`budget-meter.ts:99`). Others are covered up to the events that the properties
exempt by name; the notes in `PROJECT.json` say which.

The storage engines, search, chunking, the AI gateway, the command line, the servers
and the pages are the bulk of the repository. They are queries, text, floating point and
formatting over the state that the models name; their transactions appear as the
actions of the components that call them.

## Plan

Done: `MinionQueue` with `JobLifecycle`, `ParentJoinTx` with `AtomicJoin`, `MinionWorker`,
`LockRenewal`, `SubagentLoop`, `Aggregator`, `DbLock`, `PgliteLock`, `PageFence`, `Sync`, and
the proofs above.

Next, in order:

1. `SpendMeter`: reserve, sweep and settle under the advisory lock.
2. The supervisor's crash counting, the facts queue with its drain, one-time codes of
   the OAuth provider.
