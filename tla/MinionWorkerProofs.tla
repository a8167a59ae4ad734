------------------------- MODULE MinionWorkerProofs -------------------------
(* Theorems about MinionWorker, for any workers, jobs, runs, concurrency   *)
(* and number of upsets, and about LockRenewal, the tick that renews the   *)
(* lock of one of its executions, for any durations, timeouts and margins. *)
EXTENDS MinionWorker, LockRenewal, FiniteSetTheorems, TLAPS

RowType  == [status : {"waiting", "delayed", "active"} \cup Ended, token : Runs \cup {NoRun}]
RunType  == [at : Workers \cup {NoWorker}, job : Jobs \cup {NoJob},
             pc : {"idle", "work", "over"}, abort : Reasons \cup {"none"},
             renewing : BOOLEAN, grace : BOOLEAN]
LoopType == [pc : {"poll", "claimed", "skip", "drain", "settled", "down"},
             running : BOOLEAN, run : Runs \cup {NoRun},
             job : Jobs \cup {NoJob}, waits : SUBSET Runs]

Typed == /\ row \in [Jobs -> RowType] /\ run \in [Runs -> RunType]
         /\ inFlight \in [Workers -> [Jobs -> Runs \cup {NoRun}]]
         /\ loop \in [Workers -> LoopType]
         /\ alone \in SUBSET Runs /\ upsets \in 0..MaxUpsets

(* Where a run that is launched lives, and that its grace timer is armed   *)
(* by an abort only.                                                       *)
RunsPlaced ==
  \A r \in Runs :
    /\ run[r].pc = "idle" => run[r] = Idle
    /\ run[r].pc # "idle" => run[r].at \in Workers /\ run[r].job \in Jobs
    /\ run[r].grace => run[r].abort # "none"

(* A loop that has claimed holds a job, and a token that no run and no     *)
(* other loop has.                                                         *)
ClaimsPlaced ==
  \A w \in Workers :
    /\ loop[w].pc = "claimed" =>
         /\ loop[w].run \in Runs /\ loop[w].job \in Jobs
         /\ run[loop[w].run].pc = "idle"
         /\ \A v \in Workers \ {w} : loop[v].run # loop[w].run
    /\ loop[w].pc = "skip" => loop[w].job \in Jobs

(* An entry of the map is a run of that worker and job.                    *)
EntriesPlaced ==
  \A w \in Workers, j \in Jobs :
    inFlight[w][j] # NoRun =>
      run[inFlight[w][j]].pc # "idle" /\ run[inFlight[w][j]].at = w /\ run[inFlight[w][j]].job = j

(* A run in alone is launched and shares its worker with no run of its job.*)
AloneIsAlone ==
  \A r \in alone :
    /\ run[r].pc # "idle"
    /\ \A x \in Runs \ {r} : run[x].at = run[r].at => run[x].job # run[r].job

TypeInv == Typed /\ RunsPlaced /\ ClaimsPlaced /\ EntriesPlaced /\ AloneIsAlone

(* The room in the map: a loop that has claimed still has a free slot.     *)
Room ==
  \A w \in Workers :
    /\ Cardinality(Entries(w)) <= Concurrency
    /\ loop[w].pc = "claimed" => HasSlot(w)

InOwnSlot == \A w \in Workers : \A r \in Tracked(w) : inFlight[w][run[r].job] = r

DrainKnowsAll == \A w \in Workers : loop[w].pc = "drain" => Tracked(w) \subseteq loop[w].waits

SlotInv == TypeInv /\ Room /\ InOwnSlot /\ DrainKnowsAll

(* What every step but a launch does to the slots of a worker: entries and *)
(* answered-for handlers only go, and those that stay keep their slot.     *)
SlotsShrink(w) ==
  /\ Entries(w)' \subseteq Entries(w)
  /\ \A r \in Tracked(w)' : /\ r \in Tracked(w) /\ run'[r].job = run[r].job
                             /\ inFlight'[w][run[r].job] = inFlight[w][run[r].job]

(* The types as the proofs use them are the type invariant of the model.   *)
LEMMA TypedIsTypeOK == Typed <=> TypeOK
BY DEF Typed, TypeOK, RowType, RunType, LoopType

(* The constant records are of their types.                                *)
LEMMA Constants ==
  /\ Idle \in RunType /\ Started \in LoopType
  /\ \A how \in {"settled", "down"} : Off(how) \in LoopType /\ Off(how).pc = how
                                      /\ Off(how).run = NoRun
  /\ Idle.pc = "idle" /\ Idle.at = NoWorker /\ Idle.job = NoJob /\ ~ Idle.grace
  /\ Idle.abort = "none" /\ ~ Idle.renewing
  /\ Started.pc = "poll" /\ Started.run = NoRun
BY DEF Idle, Started, Off, RunType, LoopType

(* Writing a row keeps the type of the table.                              *)
LEMMA PutType ==
  ASSUME row \in [Jobs -> RowType], NEW j \in Jobs,
         NEW s \in {"waiting", "delayed", "active"} \cup Ended, NEW t \in Runs \cup {NoRun},
         Put(j, s, t)
  PROVE  row' \in [Jobs -> RowType]
BY DEF Put, RowType


(* Polling again.                                                          *)
LEMMA PollType ==
  ASSUME loop \in [Workers -> LoopType], NEW w \in Workers, Poll(w)
  PROVE  /\ loop' \in [Workers -> LoopType] /\ loop' = [loop EXCEPT ![w] = loop'[w]]
         /\ loop'[w].pc = "poll" /\ loop'[w].run = NoRun
BY ZenonT(60) DEF Poll, LoopType

(* The steps that touch no run and no map: those of a loop, of the queue,  *)
(* and those that move one run and leave maps and places alone.            *)
LoopStep(w) ==
  \/ \E r \in Runs, j \in Jobs : ClaimRow(w, r, j)
  \/ LoseAnswer(w) \/ Defer(w) \/ SkipUnlock(w) \/ SkipCancel(w)
  \/ Signal(w) \/ Drain(w) \/ Restart(w)

QueueStep(j) == HandleStalled(j) \/ HandleDeadlines(j) \/ PromoteDelayed(j) \/ CancelJob(j)

RunStep(r) ==
  LoseLock(r) \/ GiveUpLock(r) \/ TimeOut(r) \/ Complete(r) \/ Fail(r) \/ FailUnrecorded(r)

(* What a step of a loop does to it: it gives a claim up, keeps it, takes  *)
(* one that nobody else has, or starts to drain what is in the map.  It    *)
(* never settles.                                                          *)
LoopMoves(w) ==
  /\ loop' = [loop EXCEPT ![w] = loop'[w]]
  /\ loop'[w].pc # "claimed" => loop'[w].run \in {NoRun, loop[w].run}
  /\ loop'[w].pc = "skip" => loop'[w].job \in Jobs
  /\ loop'[w].pc = "claimed" =>
       \/ loop[w].pc = "claimed" /\ loop'[w].run = loop[w].run /\ loop'[w].job = loop[w].job
       \/ /\ HasSlot(w) /\ loop'[w].job \in Jobs /\ loop'[w].run \in Runs
          /\ run[loop'[w].run].pc = "idle" /\ \A v \in Workers : loop[v].run # loop'[w].run
  /\ loop'[w].pc = "drain" => \/ loop[w].pc = "drain" /\ loop'[w].waits = loop[w].waits
                            \/ loop'[w].waits = Entries(w)
  /\ loop'[w].pc = "settled" => loop[w].pc = "settled"

(* Every step of a loop is such a move, and touches no run and no map.     *)
LEMMA LoopStepMoves ==
  ASSUME TypeInv, NEW w \in Workers, LoopStep(w)
  PROVE  UNCHANGED <<run, inFlight, alone>> /\ Typed' /\ LoopMoves(w)
<1> USE Constants, WorkerAssumption DEF TypeInv, Typed, LoopMoves, LoopType
<1>1. ASSUME NEW r \in Runs, NEW j \in Jobs, ClaimRow(w, r, j)
      PROVE  UNCHANGED <<run, inFlight, alone>> /\ Typed' /\ LoopMoves(w)
  <2>1. row' \in [Jobs -> RowType]
    BY <1>1, PutType DEF ClaimRow
  <2> QED  BY <1>1, <2>1 DEF ClaimRow, Fresh, NoUpset
<1>2. CASE LoseAnswer(w)
  <2>1. PICK goesOn \in {loop[w].running, FALSE} :
          loop' = [loop EXCEPT ![w] = [Started EXCEPT !.running = goesOn]]
    BY <1>2 DEF LoseAnswer
  <2>2. [Started EXCEPT !.running = goesOn] \in LoopType
    BY DEF Started
  <2>3. loop'[w].pc = "poll" /\ loop'[w].run = NoRun /\ loop' \in [Workers -> LoopType]
    BY <2>1, <2>2 DEF Started
  <2> QED  BY <1>2, <2>1, <2>3 DEF LoseAnswer, Upset
<1>3. CASE Defer(w)
  <2>1. row' \in [Jobs -> RowType]
    BY <1>3, PutType DEF Defer, ClaimsPlaced
  <2> QED  BY SMTT(40), <1>3, <2>1 DEF Defer, Upset, NoUpset, Poll
<1>4. CASE SkipUnlock(w)
  <2>1. row' \in [Jobs -> RowType]
    BY <1>4, PutType DEF SkipUnlock, ClaimsPlaced, RowType
  <2> QED  BY SMTT(40), <1>4, <2>1 DEF SkipUnlock, Upset, NoUpset, Poll, ClaimsPlaced
<1>5. CASE SkipCancel(w)
  <2>1. row' \in [Jobs -> RowType]
    BY <1>5, PutType DEF SkipCancel, ClaimsPlaced, Ended
  <2>2. Poll(w) /\ UNCHANGED <<run, inFlight, alone>> /\ upsets' \in 0..MaxUpsets
    BY <1>5 DEF SkipCancel, Upset, NoUpset
  <2>3. loop' \in [Workers -> LoopType] /\ loop' = [loop EXCEPT ![w] = loop'[w]]
        /\ loop'[w].pc = "poll" /\ loop'[w].run = NoRun
    BY <2>2, PollType DEF TypeInv, Typed
  <2> QED  BY <2>1, <2>2, <2>3
<1>6. CASE Signal(w)
  <2>1. loop' \in [Workers -> LoopType] /\ loop' = [loop EXCEPT ![w] = loop'[w]]
        /\ loop'[w].pc = loop[w].pc /\ loop'[w].run = loop[w].run /\ loop'[w].job = loop[w].job
        /\ loop'[w].waits = loop[w].waits
    BY ZenonT(60), <1>6 DEF Signal
  <2>2. UNCHANGED <<row, run, inFlight, alone>> /\ upsets' \in 0..MaxUpsets
    BY <1>6 DEF Signal, Upset
  <2> QED  BY <2>1, <2>2 DEF ClaimsPlaced
<1>7. CASE Drain(w)
  <2>1. Entries(w) \in SUBSET Runs
    BY DEF Entries
  <2> QED  BY ZenonT(60), <1>7, <2>1 DEF Drain, NoUpset, Pending
<1>8. CASE Restart(w)
  BY <1>8 DEF Restart, NoUpset, Started
<1> QED  BY <1>1, <1>2, <1>3, <1>4, <1>5, <1>6, <1>7, <1>8 DEF LoopStep

(* The queue by itself writes rows only.                                   *)
LEMMA QueueStepTyped ==
  ASSUME TypeInv, NEW j \in Jobs, QueueStep(j)
  PROVE  UNCHANGED <<run, inFlight, loop, alone>> /\ Typed'
<1>1. \E s \in {"waiting", "delayed", "active"} \cup Ended : Put(j, s, NoRun)
  BY DEF QueueStep, HandleStalled, HandleDeadlines, PromoteDelayed, CancelJob, Ended
<1>2. Queue
  BY DEF QueueStep, HandleStalled, HandleDeadlines, PromoteDelayed, CancelJob
<1>3. row' \in [Jobs -> RowType]
  BY <1>1, PutType DEF TypeInv, Typed
<1> QED  BY <1>2, <1>3 DEF Queue, NoUpset, TypeInv, Typed

(* What a step of some runs does to each of them: it stays where it is,    *)
(* and is aborted with its grace timer armed, or not aborted.              *)
RunsMove ==
  \A x \in Runs :
    /\ run'[x] \in RunType
    /\ run'[x] # run[x] => run[x].pc # "idle" /\ run'[x].pc # "idle"
    /\ run'[x].at = run[x].at /\ run'[x].job = run[x].job
    /\ \/ run'[x].abort = run[x].abort /\ run'[x].grace = run[x].grace
       \/ run[x].abort = "none" /\ run'[x].abort # "none" /\ run'[x].grace

(* Aborts by timers and the ends of a handler are such moves.              *)
LEMMA RunStepMoves ==
  ASSUME TypeInv, NEW r \in Runs, RunStep(r)
  PROVE  UNCHANGED <<inFlight, loop, alone>> /\ Typed' /\ RunsMove
<1> USE Constants, WorkerAssumption DEF TypeInv, Typed, RunsMove
<1>1. CASE LoseLock(r) \/ GiveUpLock(r) \/ TimeOut(r)
  <2>1. UNCHANGED <<row, inFlight, loop, alone>> /\ upsets' \in 0..MaxUpsets
    BY <1>1 DEF LoseLock, GiveUpLock, TimeOut, Upset, NoUpset
  <2>2. run[r].pc # "idle" /\ run[r].abort = "none"
    BY <1>1 DEF LoseLock, GiveUpLock, TimeOut, RunsPlaced
  <2>3. PICK why \in Reasons, renewing \in BOOLEAN :
          run' = [run EXCEPT ![r] = [run[r] EXCEPT !.abort = why, !.grace = TRUE,
                                                   !.renewing = renewing]]
    <3>1. run[r] = [run[r] EXCEPT !.renewing = run[r].renewing] /\ run[r].renewing \in BOOLEAN
      BY DEF RunType
    <3>2. CASE LoseLock(r)
      BY <3>2 DEF LoseLock, Aborted, Arms, Reasons, Infrastructure, RunType
    <3>3. CASE GiveUpLock(r)
      BY <3>3 DEF GiveUpLock, Aborted, Arms, Reasons, Infrastructure, RunType
    <3>4. CASE TimeOut(r)
      <4>1. run' = [run EXCEPT ![r] = Aborted(r, "timeout")] /\ Arms("timeout") = TRUE
        BY <3>4 DEF TimeOut, Arms, Reasons
      <4>2. Aborted(r, "timeout") = [run[r] EXCEPT !.abort = "timeout", !.grace = TRUE,
                                                   !.renewing = run[r].renewing]
        BY <3>1, <4>1 DEF Aborted, RunType
      <4> QED  BY <3>1, <4>1, <4>2 DEF Reasons
    <3> QED  BY <1>1, <3>2, <3>3, <3>4
  <2>4. /\ run' = [run EXCEPT ![r] = run'[r]] /\ run'[r] \in RunType
        /\ run'[r].pc = run[r].pc /\ run'[r].at = run[r].at /\ run'[r].job = run[r].job
        /\ run'[r].abort # "none" /\ run'[r].grace
    BY <2>3 DEF RunType, Reasons, Infrastructure
  <2> QED  BY <2>1, <2>2, <2>4
<1>2. CASE Complete(r) \/ Fail(r) \/ FailUnrecorded(r)
  <2>1. run[r].pc = "work" /\ Over(r) /\ UNCHANGED <<inFlight, loop, alone>>
        /\ upsets' \in 0..MaxUpsets
    BY <1>2 DEF Complete, Fail, FailUnrecorded, Upset, NoUpset
  <2>2. row' \in [Jobs -> RowType]
    <3>1. run[r].job \in Jobs
      BY <2>1 DEF RunsPlaced
    <3> QED  BY <1>2, <3>1, PutType DEF Complete, Fail, FailUnrecorded, Ended
  <2> QED  BY ZenonT(60), <2>1, <2>2 DEF Over, RunType
<1> QED  BY <1>1, <1>2 DEF RunStep

(* The abort of a whole map moves runs the same way, and stops one loop.   *)
LEMMA WatchdogMoves ==
  ASSUME TypeInv, NEW w \in Workers, Watchdog(w)
  PROVE  UNCHANGED <<inFlight, alone>> /\ Typed' /\ RunsMove /\ LoopMoves(w)
<1> USE DEF TypeInv, Typed
<1>1. loop' \in [Workers -> LoopType] /\ LoopMoves(w)
  <2>1. /\ loop' \in [Workers -> LoopType] /\ loop' = [loop EXCEPT ![w] = loop'[w]]
        /\ loop'[w].pc = loop[w].pc /\ loop'[w].run = loop[w].run /\ loop'[w].job = loop[w].job
        /\ loop'[w].waits = loop[w].waits
    BY DEF Watchdog, LoopType
  <2> QED  BY <2>1 DEF LoopMoves, ClaimsPlaced
<1>2. UNCHANGED <<row, inFlight, alone>> /\ upsets' \in 0..MaxUpsets
  BY WorkerAssumption DEF Watchdog, Upset
<1>3. run' \in [Runs -> RunType] /\ RunsMove
  <2>1. ASSUME NEW x \in Runs
        PROVE  /\ Aborted(x, "watchdog") \in RunType
               /\ Aborted(x, "watchdog").pc = run[x].pc
               /\ Aborted(x, "watchdog").at = run[x].at
               /\ Aborted(x, "watchdog").job = run[x].job
               /\ Aborted(x, "watchdog").abort # "none" /\ Aborted(x, "watchdog").grace
    BY DEF Aborted, Arms, Reasons, Infrastructure, RunType
  <2>2. ASSUME NEW x \in Entries(w)  PROVE run[x].pc # "idle"
    BY DEF Entries, EntriesPlaced
  <2> QED  BY <2>1, <2>2 DEF Watchdog, RunsMove
<1> QED  BY <1>1, <1>2, <1>3

(* Steps in which runs move and at most one loop does, and no map changes. *)
CalmStep == /\ UNCHANGED <<inFlight, alone>> /\ Typed' /\ RunsMove
            /\ UNCHANGED loop \/ \E w \in Workers : LoopMoves(w)

(* They keep the types and places: a claim in hand is still nobody else's. *)
LEMMA CalmKeepsPlaces ==
  ASSUME TypeInv, CalmStep
  PROVE  TypeInv'
<1> USE DEF TypeInv, Typed, CalmStep
<1>1. RunsPlaced'
  BY DEF RunsPlaced, RunsMove
<1>2. ClaimsPlaced'
  <2>1. \A x \in Runs : run'[x].pc = "idle" <=> run[x].pc = "idle"
    BY DEF RunsMove
  <2>2. CASE UNCHANGED loop
    BY <2>1, <2>2 DEF ClaimsPlaced
  <2>3. ASSUME NEW w \in Workers, LoopMoves(w)  PROVE ClaimsPlaced'
    <3> SUFFICES ASSUME NEW v \in Workers
                 PROVE  /\ loop'[v].pc = "claimed" =>
                             /\ loop'[v].run \in Runs /\ loop'[v].job \in Jobs
                             /\ run'[loop'[v].run].pc = "idle"
                             /\ \A u \in Workers \ {v} : loop'[u].run # loop'[v].run
                        /\ loop'[v].pc = "skip" => loop'[v].job \in Jobs
      BY DEF ClaimsPlaced
    <3>1. \A u \in Workers \ {w} : loop'[u] = loop[u]
      BY <2>3 DEF LoopMoves
    <3>2. CASE v = w
      BY <2>1, <2>3, <3>1, <3>2 DEF LoopMoves, ClaimsPlaced
    <3>3. CASE v # w
      <4>1. loop[v].pc = "claimed" => loop'[w].run # loop[v].run
        BY <2>3, <3>3, WorkerAssumption DEF LoopMoves, ClaimsPlaced
      <4> QED  BY <2>1, <3>1, <3>3, <4>1 DEF ClaimsPlaced
    <3> QED  BY <3>2, <3>3
  <2> QED  BY <2>2, <2>3
<1>3. EntriesPlaced'
  BY DEF EntriesPlaced, RunsMove
<1>4. AloneIsAlone'
  BY DEF AloneIsAlone, RunsMove
<1> QED  BY <1>1, <1>2, <1>3, <1>4

(* They only let handlers go, and a drain begins with all that are left.   *)
LEMMA CalmKeepsSlots ==
  ASSUME SlotInv, CalmStep
  PROVE  SlotInv' /\ \A w \in Workers : SlotsShrink(w)
<1> USE DEF SlotInv, TypeInv, Typed, CalmStep
<1>1. ASSUME NEW w \in Workers  PROVE SlotsShrink(w) /\ Entries(w)' = Entries(w)
  <2>1. Entries(w)' = Entries(w)
    BY DEF Entries
  <2>2. \A r \in Tracked(w)' : r \in Tracked(w) /\ run'[r].job = run[r].job
    BY DEF Tracked, Mine, Evicted, RunsMove
  <2> QED  BY <2>1, <2>2 DEF SlotsShrink
<1>2. TypeInv'
  BY CalmKeepsPlaces
<1>3. Room'
  <2>1. CASE UNCHANGED loop
    BY <1>1, <2>1 DEF Room, HasSlot
  <2>2. ASSUME NEW w \in Workers, LoopMoves(w)  PROVE Room'
    BY <1>1, <2>2 DEF Room, HasSlot, LoopMoves
  <2> QED  BY <2>1, <2>2
<1>4. InOwnSlot'
  BY <1>1 DEF InOwnSlot, SlotsShrink
<1>5. DrainKnowsAll'
  <2> SUFFICES ASSUME NEW w \in Workers, loop'[w].pc = "drain"
               PROVE  Tracked(w)' \subseteq loop'[w].waits
    BY DEF DrainKnowsAll
  <2>1. Tracked(w) \subseteq Entries(w)
    <3> SUFFICES ASSUME NEW r \in Tracked(w)  PROVE r \in Entries(w)
      OBVIOUS
    <3>1. r \in Runs /\ run[r].pc # "idle" /\ run[r].job \in Jobs
      BY DEF Tracked, Mine, AloneIsAlone, RunsPlaced
    <3> QED  BY <3>1, WorkerAssumption DEF InOwnSlot, Entries
  <2>2. Tracked(w)' \subseteq Tracked(w)
    BY <1>1 DEF SlotsShrink
  <2>3. \/ loop'[w].waits = Entries(w)
        \/ loop[w].pc = "drain" /\ loop'[w].waits = loop[w].waits
    <3>1. ASSUME NEW v \in Workers, LoopMoves(v), v # w  PROVE loop'[w] = loop[w]
      BY <3>1 DEF LoopMoves
    <3>2. CASE LoopMoves(w)
      BY <3>2 DEF LoopMoves
    <3> QED  BY <3>1, <3>2
  <2> QED  BY <2>1, <2>2, <2>3 DEF DrainKnowsAll
<1> QED  BY <1>1, <1>2, <1>3, <1>4, <1>5

(* Where slots only shrink, loops keep their claims and nobody begins to   *)
(* drain, what was said of slots stays true.                               *)
LEMMA ShrinkKeepsSlots ==
  ASSUME SlotInv, TypeInv', \A w \in Workers : SlotsShrink(w),
         \A w \in Workers :
           /\ loop'[w].pc = "claimed" => loop[w].pc = "claimed"
           /\ loop'[w].pc = "drain" => loop[w].pc = "drain" /\ loop'[w].waits = loop[w].waits
  PROVE  SlotInv'
<1> USE DEF SlotInv
<1>1. Room'
  <2> SUFFICES ASSUME NEW w \in Workers
               PROVE  Cardinality(Entries(w)') <= Cardinality(Entries(w))
                      /\ Cardinality(Entries(w)') \in Nat /\ Cardinality(Entries(w)) \in Nat
    BY WorkerAssumption DEF Room, HasSlot
  <2>1. Entries(w) \subseteq Runs
    BY DEF Entries, TypeInv, Typed
  <2>2. IsFiniteSet(Entries(w))
    BY <2>1, FS_Subset, WorkerAssumption
  <2>3. Entries(w)' \subseteq Entries(w)
    BY DEF SlotsShrink
  <2> QED  BY <2>2, <2>3, FS_Subset, FS_CardinalityType
<1>2. InOwnSlot'
  BY DEF InOwnSlot, SlotsShrink
<1>3. DrainKnowsAll'
  BY DEF DrainKnowsAll, SlotsShrink
<1> QED  BY <1>1, <1>2, <1>3

(* The grace timer: the entry that goes is that of the run itself or of    *)
(* one nobody answers for.                                                 *)
LEMMA EvictKeepsSlots ==
  ASSUME SlotInv, NEW r \in Runs, Evict(r) \/ EvictUnrecorded(r)
  PROVE  SlotInv' /\ \A w \in Workers : SlotsShrink(w)
<1> USE DEF SlotInv, TypeInv, Typed
<1> DEFINE w == run[r].at
           j == run[r].job
<1>1. /\ run[r].pc # "idle" /\ run[r].abort # "none" /\ w \in Workers /\ j \in Jobs
      /\ UNCHANGED <<loop, alone>> /\ upsets' \in 0..MaxUpsets
  <2>1. run[r].pc # "idle" /\ run[r].abort # "none" /\ w \in Workers /\ j \in Jobs
    BY Constants DEF Evict, EvictUnrecorded, RunsPlaced
  <2>2. UNCHANGED <<loop, alone>> /\ (NoUpset \/ Upset)
    BY DEF Evict, EvictUnrecorded
  <2>3. upsets' \in 0..MaxUpsets
    BY <2>2, WorkerAssumption DEF NoUpset, Upset
  <2> QED  BY <2>1, <2>2, <2>3
<1>2. PICK renewing \in BOOLEAN :
        run' = [run EXCEPT ![r] = [run[r] EXCEPT !.grace = FALSE, !.renewing = renewing]]
  <2>1. run[r] = [run[r] EXCEPT !.renewing = run[r].renewing] /\ run[r].renewing \in BOOLEAN
    BY DEF RunType
  <2>2. CASE run' = [run EXCEPT ![r].grace = FALSE, ![r].renewing = FALSE]
    BY <2>2
  <2>3. CASE run' = [run EXCEPT ![r].grace = FALSE]
    BY ZenonT(60), <2>1, <2>3 DEF RunType
  <2> QED  BY <2>2, <2>3 DEF Evict, EvictUnrecorded
<1>3. inFlight' = [inFlight EXCEPT ![w][j] = NoRun]
  <2>1. CASE inFlight[w][j] # NoRun
    BY <2>1 DEF Evict, EvictUnrecorded
  <2>2. CASE inFlight[w][j] = NoRun
    BY <1>1, <2>2 DEF Evict, EvictUnrecorded
  <2> QED  BY <2>1, <2>2
<1>4. Typed'
  <2>1. row' \in [Jobs -> RowType]
    BY <1>1, PutType DEF Evict, EvictUnrecorded, Verdict, Ended
  <2>2. run' \in [Runs -> RunType]
    BY ZenonT(60), <1>2 DEF RunType
  <2> QED  BY <1>1, <1>3, <2>1, <2>2
<1>5. \A x \in Runs : /\ run'[x].pc = run[x].pc /\ run'[x].at = run[x].at
                      /\ run'[x].job = run[x].job /\ run'[x].abort = run[x].abort
                      /\ x # r => run'[x] = run[x]
                      /\ ~ run'[r].grace
  BY <1>2 DEF RunType
<1>6. \A v \in Workers, i \in Jobs :
        inFlight'[v][i] = IF v = w /\ i = j THEN NoRun ELSE inFlight[v][i]
  BY <1>1, <1>3
<1>7. TypeInv'
  <2>1. RunsPlaced'
    BY <1>1, <1>5 DEF RunsPlaced
  <2>2. ClaimsPlaced'
    BY <1>1, <1>5 DEF ClaimsPlaced
  <2>3. EntriesPlaced'
    BY <1>5, <1>6 DEF EntriesPlaced
  <2>4. AloneIsAlone'
    BY <1>1, <1>5 DEF AloneIsAlone
  <2> QED  BY <1>4, <2>1, <2>2, <2>3, <2>4
<1>8. ASSUME NEW v \in Workers  PROVE SlotsShrink(v)
  <2>1. Entries(v)' \subseteq Entries(v)
    BY <1>6 DEF Entries
  <2>2. ASSUME NEW x \in Tracked(v)'
        PROVE  /\ x \in Tracked(v) /\ run'[x].job = run[x].job
               /\ inFlight'[v][run[x].job] = inFlight[v][run[x].job]
    <3>1. x \in Runs /\ x # r /\ x \in alone /\ run[x].at = v
      BY <1>1, <1>5, <2>2 DEF Tracked, Mine, Evicted
    <3>2. x \in Tracked(v)
      BY <1>1, <1>5, <2>2, <3>1 DEF Tracked, Mine, Evicted
    <3>3. v # w \/ run[x].job # j
      BY <3>1 DEF AloneIsAlone
    <3>4. run[x].job \in Jobs
      BY <3>1 DEF AloneIsAlone, RunsPlaced
    <3> QED  BY <1>5, <1>6, <3>1, <3>2, <3>3, <3>4
  <2> QED  BY <2>1, <2>2 DEF SlotsShrink
<1> QED  BY <1>1, <1>7, <1>8, ShrinkKeepsSlots

(* The finally of a run, the same way.                                     *)
LEMMA FinallyKeepsSlots ==
  ASSUME SlotInv, NEW r \in Runs, Finally(r)
  PROVE  SlotInv' /\ \A w \in Workers : SlotsShrink(w)
<1> USE DEF SlotInv, TypeInv, Typed
<1> DEFINE w == run[r].at
           j == run[r].job
<1>1. /\ run[r].pc # "idle" /\ w \in Workers /\ j \in Jobs
      /\ UNCHANGED <<row, loop, upsets>> /\ alone' = alone \ {r}
  BY DEF Finally, RunsPlaced, NoUpset
<1>2. \A x \in Runs : run'[x] = IF x = r THEN Idle ELSE run[x]
  BY DEF Finally
<1>3. \A v \in Workers, i \in Jobs :
        inFlight'[v][i] = IF v = w /\ i = j THEN NoRun ELSE inFlight[v][i]
  BY <1>1 DEF Finally
<1>4. Typed'
  BY <1>1, Constants DEF Finally
<1>5. TypeInv'
  <2>1. RunsPlaced'
    BY <1>2, Constants DEF RunsPlaced
  <2>2. ClaimsPlaced'
    BY <1>1, <1>2, Constants DEF ClaimsPlaced
  <2>3. EntriesPlaced'
    BY <1>2, <1>3 DEF EntriesPlaced
  <2>4. AloneIsAlone'
    BY <1>1, <1>2, Constants, WorkerAssumption DEF AloneIsAlone, RunsPlaced
  <2> QED  BY <1>4, <2>1, <2>2, <2>3, <2>4
<1>6. ASSUME NEW v \in Workers  PROVE SlotsShrink(v)
  <2>1. Entries(v)' \subseteq Entries(v)
    BY <1>3 DEF Entries
  <2>2. ASSUME NEW x \in Tracked(v)'
        PROVE  /\ x \in Tracked(v) /\ run'[x].job = run[x].job
               /\ inFlight'[v][run[x].job] = inFlight[v][run[x].job]
    <3>1. x \in Runs /\ x # r /\ x \in alone /\ run[x].at = v /\ x \in Tracked(v)
      BY <1>1, <1>2, <2>2 DEF Tracked, Mine, Evicted
    <3>2. v # w \/ run[x].job # j
      BY <3>1 DEF AloneIsAlone
    <3>3. run[x].job \in Jobs
      BY <3>1 DEF AloneIsAlone, RunsPlaced
    <3> QED  BY <1>2, <1>3, <3>1, <3>2, <3>3
  <2> QED  BY <2>1, <2>2 DEF SlotsShrink
<1> QED  BY <1>1, <1>5, <1>6, ShrinkKeepsSlots

(* The end of a process takes its runs and its entries along.              *)
LEMMA QuitKeepsSlots ==
  ASSUME SlotInv, NEW w \in Workers, Settle(w) \/ CutShort(w) \/ Crash(w)
  PROVE  SlotInv' /\ \A v \in Workers : SlotsShrink(v)
<1> USE DEF SlotInv, TypeInv, Typed
<1>1. PICK how \in {"settled", "down"} : Quit(w, how)
  BY DEF Settle, CutShort, Crash
<1>2. upsets' \in 0..MaxUpsets
  BY WorkerAssumption DEF Settle, CutShort, Crash, NoUpset, Upset
<1>3. \A x \in Runs : run'[x] = IF run[x].at = w THEN Idle ELSE run[x]
  BY <1>1 DEF Quit, Mine
<1>4. \A v \in Workers, i \in Jobs :
        inFlight'[v][i] = IF v = w THEN NoRun ELSE inFlight[v][i]
  BY <1>1 DEF Quit
<1>5. \A v \in Workers : loop'[v] = IF v = w THEN Off(how) ELSE loop[v]
  BY <1>1 DEF Quit
<1>6. row' = row /\ \A x \in Runs : x \in alone' <=> x \in alone /\ run[x].at # w
  BY <1>1 DEF Quit, Mine
<1>7. Typed'
  <2>1. run' \in [Runs -> RunType]
    BY <1>1, Constants DEF Quit
  <2>2. inFlight' \in [Workers -> [Jobs -> Runs \cup {NoRun}]]
    BY <1>1 DEF Quit
  <2>3. loop' \in [Workers -> LoopType]
    BY <1>1, Constants DEF Quit
  <2>4. alone' \in SUBSET Runs
    BY <1>1 DEF Quit
  <2> QED  BY <1>2, <1>6, <2>1, <2>2, <2>3, <2>4
<1>8. TypeInv'
  <2>1. RunsPlaced'
    BY <1>3, Constants DEF RunsPlaced
  <2>2. ClaimsPlaced'
    <3> SUFFICES ASSUME NEW v \in Workers
                 PROVE  /\ loop'[v].pc = "claimed" =>
                             /\ loop'[v].run \in Runs /\ loop'[v].job \in Jobs
                             /\ run'[loop'[v].run].pc = "idle"
                             /\ \A u \in Workers \ {v} : loop'[u].run # loop'[v].run
                        /\ loop'[v].pc = "skip" => loop'[v].job \in Jobs
      BY DEF ClaimsPlaced
    <3>1. CASE v = w
      BY <1>5, <3>1, Constants
    <3>2. CASE v # w
      BY SMTT(40), <1>3, <1>5, <3>2, Constants, WorkerAssumption DEF ClaimsPlaced
    <3> QED  BY <3>1, <3>2
  <2>3. EntriesPlaced'
    BY <1>3, <1>4 DEF EntriesPlaced
  <2>4. AloneIsAlone'
    <3>1. \A x \in alone : run[x].at \in Workers
      BY DEF AloneIsAlone, RunsPlaced
    <3> QED  BY ZenonT(60), <1>3, <1>6, <3>1, Constants, WorkerAssumption, <1>7 DEF AloneIsAlone
  <2> QED  BY <1>7, <2>1, <2>2, <2>3, <2>4
<1>9. ASSUME NEW v \in Workers  PROVE SlotsShrink(v)
  <2>1. Entries(v)' \subseteq Entries(v)
    BY <1>4 DEF Entries
  <2>2. ASSUME NEW x \in Tracked(v)'
        PROVE  /\ x \in Tracked(v) /\ run'[x].job = run[x].job
               /\ inFlight'[v][run[x].job] = inFlight[v][run[x].job]
    <3>1. x \in Runs /\ x \in alone /\ run[x].at # w /\ run'[x] = run[x]
      BY <1>3, <1>6, <2>2 DEF Tracked, Mine
    <3>2. x \in Tracked(v) /\ run[x].at = v
      BY <2>2, <3>1 DEF Tracked, Mine, Evicted
    <3>3. run[x].job \in Jobs
      BY <3>1 DEF AloneIsAlone, RunsPlaced
    <3> QED  BY <1>4, <3>1, <3>2, <3>3
  <2> QED  BY <2>1, <2>2 DEF SlotsShrink
<1>10. \A v \in Workers :
         /\ loop'[v].pc = "claimed" => loop[v].pc = "claimed"
         /\ loop'[v].pc = "drain" => loop[v].pc = "drain" /\ loop'[v].waits = loop[v].waits
  BY <1>5, Constants
<1> QED  BY <1>8, <1>9, <1>10, ShrinkKeepsSlots

(* A launch fills the slot it claimed for.  A run of the same job that is  *)
(* still there loses the slot, and is no longer answered for.              *)
LEMMA LaunchKeepsSlots ==
  ASSUME SlotInv, NEW w \in Workers, Launch(w)
  PROVE  SlotInv'
<1> USE DEF SlotInv, TypeInv, Typed
<1> DEFINE r == loop[w].run
           j == loop[w].job
           others == {x \in Mine(w) : run[x].job = j}
           New == [Idle EXCEPT !.at = w, !.job = j, !.pc = "work", !.renewing = TRUE]
<1>1. /\ loop[w].pc = "claimed" /\ r \in Runs /\ j \in Jobs /\ run[r].pc = "idle"
      /\ \A v \in Workers \ {w} : loop[v].run # r
      /\ run[r].at = NoWorker
  BY Constants DEF Launch, ClaimsPlaced, RunsPlaced
<1>2. /\ New \in RunType /\ New.at = w /\ New.job = j /\ New.pc = "work"
      /\ New.abort = "none" /\ ~ New.grace
  BY <1>1 DEF Idle, RunType
<1>3. run' = [run EXCEPT ![r] = New] /\ inFlight' = [inFlight EXCEPT ![w][j] = r]
      /\ alone' = (IF others = {} THEN alone \cup {r} ELSE alone \ others)
      /\ Poll(w) /\ row' = row /\ upsets' = upsets
  BY DEF Launch, NoUpset
<1>14. \A x : x \in others <=> x \in Runs /\ run[x].at = w /\ run[x].job = j
  BY DEF Mine
<1>15. j = loop[w].job /\ r = loop[w].run
  OBVIOUS
<1> HIDE DEF New, others, r, j
<1>4. \A x \in Runs : run'[x] = IF x = r THEN New ELSE run[x]
  BY <1>3
<1>5. \A v \in Workers, i \in Jobs :
        inFlight'[v][i] = IF v = w /\ i = j THEN r ELSE inFlight[v][i]
  BY <1>1, <1>3
<1>6. /\ loop'[w].pc = "poll" /\ loop'[w].run = NoRun
      /\ \A v \in Workers \ {w} : loop'[v] = loop[v]
  BY <1>3, PollType
<1>7. \A x \in alone' : /\ x = r => others = {}
                        /\ x # r => x \in alone /\ x \notin others
  <2>1. r \notin alone
    BY <1>1 DEF AloneIsAlone
  <2> QED  BY <1>3, <2>1
<1>8. Typed'
  <2>1. run' \in [Runs -> RunType]
    BY <1>1, <1>2, <1>3
  <2>2. inFlight' \in [Workers -> [Jobs -> Runs \cup {NoRun}]]
    BY <1>1, <1>3
  <2>3. loop' \in [Workers -> LoopType]
    BY <1>3, PollType
  <2>4. alone' \in SUBSET Runs
    BY <1>1, <1>3
  <2> QED  BY <1>3, <2>1, <2>2, <2>3, <2>4
<1>9. TypeInv'
  <2>1. RunsPlaced'
    BY <1>1, <1>2, <1>4 DEF RunsPlaced
  <2>2. ClaimsPlaced'
    <3> SUFFICES ASSUME NEW v \in Workers, v # w
                 PROVE  /\ loop[v].pc = "claimed" =>
                             /\ loop[v].run \in Runs /\ loop[v].job \in Jobs
                             /\ run'[loop[v].run].pc = "idle"
                             /\ \A u \in Workers \ {v} : loop'[u].run # loop[v].run
                        /\ loop[v].pc = "skip" => loop[v].job \in Jobs
      BY <1>6 DEF ClaimsPlaced
    <3> QED  BY <1>1, <1>4, <1>6, WorkerAssumption DEF ClaimsPlaced
  <2>3. EntriesPlaced'
    <3> SUFFICES ASSUME NEW v \in Workers, NEW i \in Jobs, inFlight'[v][i] # NoRun
                 PROVE  /\ run'[inFlight'[v][i]].pc # "idle" /\ run'[inFlight'[v][i]].at = v
                        /\ run'[inFlight'[v][i]].job = i
      BY DEF EntriesPlaced
    <3>1. CASE v = w /\ i = j
      BY <1>1, <1>2, <1>4, <1>5, <3>1
    <3>2. CASE ~ (v = w /\ i = j)
      BY <1>1, <1>4, <1>5, <3>2 DEF EntriesPlaced
    <3> QED  BY <3>1, <3>2
  <2>4. AloneIsAlone'
    <3> SUFFICES ASSUME NEW x \in alone', NEW y \in Runs, y # x, run'[y].at = run'[x].at
                 PROVE  run'[x].pc # "idle" /\ run'[y].job # run'[x].job
      BY <1>1, <1>2, <1>4, <1>7, <1>8 DEF AloneIsAlone
    <3>1. CASE x = r
      BY <1>1, <1>2, <1>4, <1>7, <1>14, <3>1
    <3>2. CASE x # r /\ y = r
      BY <1>2, <1>4, <1>7, <1>8, <1>14, <3>2 DEF AloneIsAlone
    <3>3. CASE x # r /\ y # r
      BY <1>4, <1>7, <1>8, <3>3 DEF AloneIsAlone
    <3> QED  BY <3>1, <3>2, <3>3
  <2> QED  BY <1>8, <2>1, <2>2, <2>3, <2>4
<1>10. ASSUME NEW v \in Workers, NEW x \in Tracked(v)', x # r
       PROVE  /\ x \in Tracked(v) /\ run'[x] = run[x] /\ run[x].job \in Jobs /\ run[x].at = v
              /\ v = w => run[x].job # j
  <2>1. x \in Runs /\ x \in alone /\ x \notin others /\ run'[x] = run[x]
    BY <1>4, <1>7, <1>10 DEF Tracked, Mine
  <2>2. x \in Tracked(v) /\ run[x].at = v
    BY <1>10, <2>1 DEF Tracked, Mine, Evicted
  <2>3. run[x].job \in Jobs
    BY <2>1 DEF AloneIsAlone, RunsPlaced
  <2> QED  BY <1>14, <2>1, <2>2, <2>3
<1>11. Room'
  <2> SUFFICES ASSUME NEW v \in Workers
               PROVE  /\ Cardinality(Entries(v)') <= Concurrency
                      /\ loop'[v].pc = "claimed" => Cardinality(Entries(v)') < Concurrency
    BY DEF Room, HasSlot
  <2>1. CASE v # w
    <3>1. Entries(v)' = Entries(v)
      BY <1>5, <2>1 DEF Entries
    <3> QED  BY <1>6, <2>1, <3>1 DEF Room, HasSlot
  <2>2. CASE v = w
    <3>1. IsFiniteSet(Entries(w))
      <4>1. Entries(w) \subseteq Runs
        BY DEF Entries
      <4> QED  BY <4>1, FS_Subset, WorkerAssumption
    <3>2. Cardinality(Entries(w)) < Concurrency
      BY <1>1 DEF Room, HasSlot
    <3>3. Entries(w)' \subseteq Entries(w) \cup {r}
      BY <1>5 DEF Entries
    <3>4. /\ IsFiniteSet(Entries(w) \cup {r})
          /\ Cardinality(Entries(w) \cup {r}) <= Cardinality(Entries(w)) + 1
      <4>1. Cardinality(Entries(w)) \in Nat
        BY <3>1, FS_CardinalityType
      <4>2. /\ IsFiniteSet(Entries(w) \cup {r})
            /\ Cardinality(Entries(w) \cup {r}) =
                 IF r \in Entries(w) THEN Cardinality(Entries(w)) ELSE Cardinality(Entries(w)) + 1
        BY <3>1, FS_AddElement
      <4> QED  BY <4>1, <4>2
    <3>5. /\ Cardinality(Entries(w)') <= Cardinality(Entries(w) \cup {r})
          /\ Cardinality(Entries(w)') \in Nat /\ Cardinality(Entries(w)) \in Nat
          /\ Cardinality(Entries(w) \cup {r}) \in Nat
      BY <3>1, <3>3, <3>4, FS_Subset, FS_CardinalityType
    <3>6. Cardinality(Entries(w)') <= Concurrency
      BY <3>2, <3>4, <3>5, WorkerAssumption
    <3> QED  BY <1>6, <2>2, <3>6
  <2> QED  BY <2>1, <2>2
<1>12. InOwnSlot'
  <2> SUFFICES ASSUME NEW v \in Workers, NEW x \in Tracked(v)'
               PROVE  inFlight'[v][run'[x].job] = x
    BY DEF InOwnSlot
  <2>1. CASE x = r
    <3>1. run'[x].at = v
      BY DEF Tracked, Mine
    <3> QED  BY <1>1, <1>2, <1>4, <1>5, <2>1, <3>1
  <2>2. CASE x # r
    BY <1>5, <1>10, <2>2 DEF InOwnSlot
  <2> QED  BY <2>1, <2>2
<1>13. DrainKnowsAll'
  <2> SUFFICES ASSUME NEW v \in Workers, loop'[v].pc = "drain", NEW x \in Tracked(v)'
               PROVE  x \in loop'[v].waits
    BY DEF DrainKnowsAll
  <2>1. v # w /\ loop'[v] = loop[v]
    BY <1>6
  <2>2. x # r
    BY <1>1, <1>2, <1>4, <2>1 DEF Tracked, Mine
  <2> QED  BY <1>10, <2>1, <2>2 DEF DrainKnowsAll
<1> QED  BY <1>9, <1>11, <1>12, <1>13

(* Every step but a launch is calm, takes an entry away, or ends a process.*)
LEMMA StepKeepsSlots ==
  ASSUME SlotInv, [Next]_vars
  PROVE  SlotInv' /\ ((\A w \in Workers : ~ Launch(w)) => \A w \in Workers : SlotsShrink(w))
<1>1. ASSUME NEW w \in Workers, LoopStep(w) \/ Watchdog(w)  PROVE CalmStep
  <2>1. CASE LoopStep(w)
    <3>1. UNCHANGED <<run, inFlight, alone>> /\ Typed' /\ LoopMoves(w)
      BY <2>1, LoopStepMoves DEF SlotInv
    <3>2. RunsMove
      BY <3>1 DEF RunsMove, SlotInv, TypeInv, Typed
    <3> QED  BY <3>1, <3>2 DEF CalmStep
  <2>2. CASE Watchdog(w)
    BY <2>2, WatchdogMoves DEF CalmStep, SlotInv
  <2> QED  BY <1>1, <2>1, <2>2
<1>2. ASSUME NEW r \in Runs, RunStep(r)  PROVE CalmStep
  BY <1>2, RunStepMoves DEF CalmStep, SlotInv
<1>3. ASSUME NEW j \in Jobs, QueueStep(j)  PROVE CalmStep
  <2>1. UNCHANGED <<run, inFlight, loop, alone>> /\ Typed'
    BY <1>3, QueueStepTyped DEF SlotInv
  <2>2. RunsMove
    BY <2>1 DEF RunsMove, SlotInv, TypeInv, Typed
  <2> QED  BY <2>1, <2>2 DEF CalmStep
<1>4. CASE UNCHANGED vars
  <2>1. UNCHANGED <<row, run, inFlight, loop, alone, upsets>>
    BY <1>4 DEF vars
  <2>2. CalmStep
    BY <2>1 DEF CalmStep, RunsMove, SlotInv, TypeInv, Typed
  <2> QED  BY <2>2, CalmKeepsSlots
<1>5. \/ \E w \in Workers : Launch(w)
      \/ \E w \in Workers : LoopStep(w) \/ Watchdog(w)
      \/ \E w \in Workers : Settle(w) \/ CutShort(w) \/ Crash(w)
      \/ \E r \in Runs : RunStep(r) \/ Evict(r) \/ EvictUnrecorded(r) \/ Finally(r)
      \/ \E j \in Jobs : QueueStep(j)
      \/ UNCHANGED vars
  BY DEF Next, LoopStep, RunStep, QueueStep
<1> QED  BY <1>1, <1>2, <1>3, <1>4, <1>5, CalmKeepsSlots, EvictKeepsSlots, FinallyKeepsSlots,
            QuitKeepsSlots, LaunchKeepsSlots

(* Nothing is claimed, launched or in a map at the start.                  *)
LEMMA SlotsStart == Init => SlotInv
<1> SUFFICES ASSUME Init  PROVE SlotInv
  OBVIOUS
<1> USE Constants, WorkerAssumption DEF Init
<1>1. Typed
  BY DEF Typed, RowType
<1>2. \A w \in Workers : Entries(w) = {} /\ Tracked(w) = {}
  BY DEF Entries, Tracked
<1>3. RunsPlaced /\ ClaimsPlaced /\ EntriesPlaced /\ AloneIsAlone
  BY DEF RunsPlaced, ClaimsPlaced, EntriesPlaced, AloneIsAlone
<1>4. Room /\ InOwnSlot /\ DrainKnowsAll
  BY SMTT(40), <1>2, FS_EmptySet DEF Room, HasSlot, InOwnSlot, DrainKnowsAll
<1> QED  BY <1>1, <1>3, <1>4 DEF SlotInv, TypeInv

(* The invariant holds in every reachable state.                           *)
LEMMA SlotsHold == Spec => []SlotInv
BY SlotsStart, StepKeepsSlots, PTL DEF Spec

(* Rows, runs, maps and loops stay well typed.                             *)
THEOREM TypeCorrect == Spec => []TypeOK
<1>1. SlotInv => TypeOK
  BY TypedIsTypeOK DEF SlotInv, TypeInv
<1> QED  BY <1>1, SlotsHold, PTL

(* A handler the worker answers for keeps a slot of its own, and there are *)
(* never more of them than opts.concurrency, whatever is reclaimed, lost,  *)
(* evicted or restarted around them.                                       *)
THEOREM SlotsAreKept == Spec => []HandlersKeepTheirSlots
<1>1. ASSUME SlotInv  PROVE HandlersKeepTheirSlots
  <2> SUFFICES ASSUME NEW w \in Workers  PROVE Cardinality(Tracked(w)) <= Concurrency
    BY <1>1 DEF HandlersKeepTheirSlots, SlotInv, InOwnSlot
  <2>1. IsFiniteSet(Entries(w)) /\ Cardinality(Entries(w)) <= Concurrency
    <3>1. Entries(w) \subseteq Runs
      BY <1>1 DEF Entries, SlotInv, TypeInv, Typed
    <3> QED  BY <1>1, <3>1, FS_Subset, WorkerAssumption DEF SlotInv, Room
  <2>2. Tracked(w) \subseteq Entries(w)
    <3> SUFFICES ASSUME NEW r \in Tracked(w)  PROVE r \in Entries(w)
      OBVIOUS
    <3>1. r \in Runs /\ run[r].job \in Jobs
      BY <1>1 DEF Tracked, Mine, SlotInv, TypeInv, AloneIsAlone, RunsPlaced
    <3> QED  BY <1>1, <3>1, WorkerAssumption DEF SlotInv, InOwnSlot, Entries
  <2>3. /\ Cardinality(Tracked(w)) <= Cardinality(Entries(w))
        /\ Cardinality(Tracked(w)) \in Nat /\ Cardinality(Entries(w)) \in Nat
    BY <2>1, <2>2, FS_Subset, FS_CardinalityType
  <2> QED  BY <2>1, <2>3, WorkerAssumption
<1> QED  BY <1>1, SlotsHold, PTL

(* A worker that says it has drained leaves no handler behind that it      *)
(* answers for, also not one it launched after the signal.                 *)
THEOREM DrainsAreComplete == Spec => DrainWaitsForAll
<1>1. ASSUME SlotInv, [Next]_vars
      PROVE  [\A w \in Workers : loop[w].pc = "drain" /\ loop'[w].pc = "settled"
                                   => Tracked(w) = {}]_vars
  <2> SUFFICES ASSUME NEW w \in Workers, Next, loop[w].pc = "drain", loop'[w].pc = "settled"
               PROVE  Tracked(w) = {}
    BY <1>1
  <2>1. Settle(w)
    <3>1. loop[w].pc # "settled"
      OBVIOUS
    <3>2. loop'[w] # loop[w]
      OBVIOUS
    <3>3. ASSUME NEW v \in Workers, LoopStep(v) \/ Watchdog(v) \/ Launch(v)  PROVE FALSE
      <4>1. CASE LoopStep(v) \/ Watchdog(v)
        <5>1. LoopMoves(v)
          BY <1>1, <4>1, LoopStepMoves, WatchdogMoves DEF SlotInv
        <5>2. loop \in [Workers -> LoopType]
          BY <1>1 DEF SlotInv, TypeInv, Typed
        <5>3. /\ loop' = [loop EXCEPT ![v] = loop'[v]]
              /\ loop'[v].pc = "settled" => loop[v].pc = "settled"
          BY <5>1 DEF LoopMoves
        <5> QED  BY <3>1, <3>2, <5>2, <5>3
      <4>2. CASE Launch(v)
        <5>1. loop' = [loop EXCEPT ![v] = loop'[v]] /\ loop'[v].pc = "poll"
          BY <1>1, <4>2, PollType DEF Launch, SlotInv, TypeInv, Typed
        <5>2. loop \in [Workers -> LoopType]
          BY <1>1 DEF SlotInv, TypeInv, Typed
        <5> QED  BY <3>2, <5>1, <5>2
      <4> QED  BY <3>3, <4>1, <4>2
    <3>4. ASSUME NEW v \in Workers, Settle(v) \/ CutShort(v) \/ Crash(v)  PROVE Settle(w)
      <4>1. PICK how \in {"settled", "down"} :
              Quit(v, how) /\ (Settle(v) \/ how = "down")
        BY <3>4 DEF Settle, CutShort, Crash
      <4>2. loop' = [loop EXCEPT ![v] = Off(how)]
        BY <4>1 DEF Quit
      <4>3. v = w /\ loop'[w] = Off(how)
        BY <1>1, <3>2, <4>2 DEF SlotInv, TypeInv, Typed
      <4>4. how = "settled"
        BY <4>3, Constants
      <4> QED  BY <4>1, <4>3, <4>4
    <3>5. ASSUME NEW r \in Runs, RunStep(r) \/ Evict(r) \/ EvictUnrecorded(r) \/ Finally(r)
          PROVE FALSE
      BY <3>2, <3>5 DEF RunStep, LoseLock, GiveUpLock, TimeOut, Complete, Fail, FailUnrecorded,
         Evict, EvictUnrecorded, Finally
    <3>6. ASSUME NEW j \in Jobs, QueueStep(j)  PROVE FALSE
      BY <3>2, <3>6 DEF QueueStep, HandleStalled, HandleDeadlines, PromoteDelayed, CancelJob, Queue
    <3> QED  BY <3>3, <3>4, <3>5, <3>6 DEF Next, LoopStep, RunStep, QueueStep
  <2>2. Tracked(w) \subseteq loop[w].waits /\ Tracked(w) \subseteq Mine(w)
    BY <1>1 DEF SlotInv, DrainKnowsAll, Tracked
  <2> QED  BY <2>1, <2>2 DEF Settle
<1> QED  BY <1>1, SlotsHold, PTL DEF Spec, DrainWaitsForAll

(* A run aborted because its lock or its database is gone completes its    *)
(* job or leaves every row alone: only its own steps and the end of its    *)
(* process change it, and none of them condemns the job.                   *)
THEOREM InfrastructureNeverFails == Spec => InfrastructureSparesJobs
<1> DEFINE Spares == \A r \in Runs :
                       run[r].abort \in Infrastructure /\ run'[r] # run[r] =>
                         \A j \in Jobs : row'[j] = row[j] \/ row'[j].status = "completed"
<1>1. ASSUME SlotInv, [Next]_vars  PROVE [Spares]_vars
  <2> SUFFICES ASSUME Next, NEW r \in Runs, run[r].abort \in Infrastructure, run'[r] # run[r],
                      NEW j \in Jobs
               PROVE  row'[j] = row[j] \/ row'[j].status = "completed"
    BY <1>1
  <2> USE <1>1 DEF SlotInv, TypeInv, Typed
  <2>1. run[r].abort # "none" /\ ~ Condemns(r)
    BY DEF Infrastructure, Condemns
  <2>2. ASSUME NEW w \in Workers, LoopStep(w)  PROVE FALSE
    BY <2>2, LoopStepMoves
  <2>3. ASSUME NEW i \in Jobs, QueueStep(i)  PROVE FALSE
    BY <2>3, QueueStepTyped
  <2>4. ASSUME NEW w \in Workers, Launch(w) \/ Watchdog(w)  PROVE row' = row
    BY <2>4 DEF Launch, Watchdog
  <2>5. ASSUME NEW w \in Workers, Settle(w) \/ CutShort(w) \/ Crash(w)  PROVE row' = row
    BY <2>5 DEF Settle, CutShort, Crash, Quit
  <2>6. ASSUME NEW x \in Runs, LoseLock(x) \/ GiveUpLock(x) \/ TimeOut(x) \/ FailUnrecorded(x)
                              \/ EvictUnrecorded(x) \/ Finally(x)
        PROVE  row' = row
    BY <2>6 DEF LoseLock, GiveUpLock, TimeOut, FailUnrecorded, EvictUnrecorded, Finally
  <2>7. ASSUME NEW x \in Runs, Fail(x) \/ Evict(x)  PROVE row' = row
    <3>1. x = r
      <4>1. CASE Fail(x)
        BY <4>1 DEF Fail, Over
      <4>2. CASE Evict(x)
        <5>1. \/ run' = [run EXCEPT ![x].grace = FALSE, ![x].renewing = FALSE]
              \/ run' = [run EXCEPT ![x].grace = FALSE]
          BY <4>2 DEF Evict
        <5> QED  BY <5>1
      <4> QED  BY <2>7, <4>1, <4>2
    <3> QED  BY <2>1, <2>7, <3>1 DEF Fail, Evict
  <2>8. ASSUME NEW x \in Runs, Complete(x)
        PROVE  row'[j] = row[j] \/ row'[j].status = "completed"
    BY <2>8 DEF Complete, Put
  <2> QED  BY <2>2, <2>3, <2>4, <2>5, <2>6, <2>7, <2>8 DEF Next, LoopStep, QueueStep
<1> QED  BY <1>1, SlotsHold, PTL DEF Spec, InfrastructureSparesJobs

----------------------------------------------------------------------------
(* The tick that renews the lock of one execution (LockRenewal), for every *)
(* duration, interval, timeout and margin that its assumption allows.      *)

\* A step keeps the types.
LEMMA RenewalStep == TickTypeOK /\ [TickNext]_tickVars => TickTypeOK'
<1> SUFFICES ASSUME TickTypeOK, [TickNext]_tickVars PROVE TickTypeOK'
  OBVIOUS
<1> USE RenewalAssumption DEF TickTypeOK, lock, tick
<1>1. CASE Fire
  BY <1>1 DEF Fire, NextTick
<1>2. CASE Land \/ LandLate
  BY <1>2 DEF Land, LandLate, Renewed
<1>3. CASE Answered \/ CallFails \/ Reconnected \/ Ends
  BY <1>3 DEF Answered, CallFails, Reconnected, Ends
<1>4. CASE Reclaim
  BY <1>4 DEF Reclaim
<1>5. CASE Pass
  BY <1>5 DEF Pass, Timed
<1>6. CASE UNCHANGED tickVars
  BY <1>6 DEF tickVars
<1> QED BY <1>1, <1>2, <1>3, <1>4, <1>5, <1>6 DEF TickNext

\* The variables of the timers stay within the timers.
THEOREM RenewalTypeCorrect == TickSpec => []TickTypeOK
<1>1. TickInit => TickTypeOK
  BY RenewalAssumption DEF TickInit, TickTypeOK
<1> QED BY <1>1, RenewalStep, PTL DEF TickSpec

----------------------------------------------------------------------------
(* The overlap.                                                            *)

\* A lock was given at most one call before the renewal that is being counted.
Granted ==
  /\ left + age >= Duration - Lag
  /\ answer = "renewed" => left + elapsed >= Duration
  /\ pc # "renew" => answer = "none"

\* How long ago the last success can be, by what the tick is doing.
Aged ==
  /\ pc = "between"   => elapsed = 0 /\ age + toNext < Duration - Margin + CallTimeout + Interval
  /\ pc = "renew"     => age - elapsed < Duration - Margin + CallTimeout + Interval
  /\ pc = "reconnect" => age - elapsed < Duration - Margin

OverlapInv == TickTypeOK /\ (pc # "over" => Granted /\ Aged)

\* For at most Lag + 2 * CallTimeout + Interval - Margin another run can work
\* beside one that has not noticed that its lock is gone.
THEOREM OverlapIsBounded == TickSpec => []OverlapBounded
<1> USE RenewalAssumption DEF Lag
<1>1. TickInit => OverlapInv
  BY DEF TickInit, OverlapInv, TickTypeOK, Granted, Aged
<1>2. OverlapInv /\ [TickNext]_tickVars => OverlapInv'
  <2> SUFFICES ASSUME OverlapInv, [TickNext]_tickVars, TickTypeOK', pc' # "over"
               PROVE  Granted' /\ Aged'
    BY RenewalStep DEF OverlapInv
  <2> USE DEF OverlapInv, TickTypeOK, Granted, Aged, lock, tick
  <2>1. CASE Fire
    <3>1. CASE pc = "between"
      BY <2>1, <3>1 DEF Fire, NextTick
    <3>2. CASE pc # "between"
      BY <2>1, <3>2 DEF Fire, NextTick
    <3> QED BY <3>1, <3>2
  <2>2. CASE Land
    BY <2>2 DEF Land, Renewed
  <2>3. CASE LandLate
    BY <2>3 DEF LandLate, Renewed
  <2>4. CASE Answered
    <3>1. age' = 0 /\ left' = left /\ toNext' = toNext /\ pc' = "between" /\ elapsed' = 0
      BY <2>4 DEF Answered
    <3>2. left + elapsed >= Duration /\ answer' = "none"
      BY <2>4 DEF Answered
    <3> QED BY <3>1, <3>2
  <2>5. CASE CallFails
    BY <2>5 DEF CallFails, Expired
  <2>6. CASE Reconnected
    BY <2>6 DEF Reconnected
  <2>9. CASE Ends \/ Reclaim
    BY <2>9 DEF Ends, Reclaim
  <2>7. CASE Pass
    BY <2>7 DEF Pass, Timed
  <2>8. CASE UNCHANGED tickVars
    BY <2>8 DEF tickVars
  <2> QED BY <2>1, <2>2, <2>3, <2>4, <2>5, <2>6, <2>7, <2>8, <2>9 DEF TickNext
<1>3. OverlapInv => OverlapBounded
  BY DEF OverlapInv, TickTypeOK, Granted, Aged, OverlapBounded, Overlap
<1> QED BY <1>1, <1>2, <1>3, PTL DEF TickSpec
=============================================================================
