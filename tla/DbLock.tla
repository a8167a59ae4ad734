------------------------------- MODULE DbLock -------------------------------
(***************************************************************************)
(* One named lock of the table gbrain_cycle_locks (src/core/db-lock.ts):   *)
(* acquisition by upsert, takeover of a dead holder, refresh, release, the *)
(* cleanup of a terminated process, the reaper, and --break-lock.          *)
(*                                                                         *)
(* A call is one use of the lock by a process: it acquires, works and      *)
(* releases, or it inspects the row to break or reap it.  Every await of   *)
(* the code ends a step.  Time is relative: the row carries the time since *)
(* it was acquired and since it was last refreshed, each capped where      *)
(* nothing compares it any more.  ttl_expires_at is always the last        *)
(* refresh plus the time to live, so it is not a field of its own.         *)
(***************************************************************************)
EXTENDS Naturals, FiniteSets

CONSTANTS
  Calls,          \* uses of the lock
  Procs,          \* processes
  Pids, Hosts,
  ProcOf,         \* the process of each call
  PidOf, HostOf,  \* of each process; a restarted process has its pid again
  Ttl,            \* time to live of a row
  StealGrace,     \* a row refreshed within it is not stolen
  TakeoverGrace,  \* HOLDER_TAKEOVER_GRACE_MS
  MaxAge,         \* --max-age of --break-lock
  Purposes,       \* what the row is inspected for, besides acquiring it
  Inspectors,     \* the calls that inspect it so
  Signalled,      \* processes that may be told to end
  Crashing,       \* processes that may be gone at any step
  NoRow

ASSUME DbLockAssumption ==
  /\ IsFiniteSet(Calls)
  /\ ProcOf \in [Calls -> Procs]
  /\ PidOf \in [Procs -> Pids] /\ HostOf \in [Procs -> Hosts]
  /\ Ttl \in Nat /\ StealGrace \in Nat /\ TakeoverGrace \in Nat /\ MaxAge \in Nat
  /\ Purposes \subseteq {"break", "force", "stale", "reap"}
  /\ Inspectors \subseteq Calls /\ Signalled \subseteq Procs /\ Crashing \subseteq Procs

Larger(m, n) == IF m < n THEN n ELSE m
IdleCap == Larger(Larger(Ttl, StealGrace), MaxAge) + 1
Stamps  == 0..(Cardinality(Calls) + 1)
Rows    == [pid : Pids, host : Hosts, stamp : Stamps, age : 0..TakeoverGrace,
            idle : 0..IdleCap, by : Calls]
Alive(p, state) == state[p] # "down"

ASSUME NoRowAssumption == NoRow \notin Rows

VARIABLES
  row,      \* holder_pid, holder_host, acquired_at (stamp), the two ages, and who wrote it
  proc,     \* "up", "ending" (its cleanup pass has run) or "down"
  pc,       \* where each call is
  purpose,  \* what its inspection is for
  snap,     \* the row it inspected
  gap,      \* time since its own last refresh; above Ttl it stays there
  reused    \* a process has started with a pid that a row or snapshot named

vars == <<row, proc, pc, purpose, snap, gap, reused>>

Pid(c)     == PidOf[ProcOf[c]]
Host(c)    == HostOf[ProcOf[c]]
Running(c) == Alive(ProcOf[c], proc)
Expired(r) == r.idle > Ttl

\* WHERE id = .. AND holder_pid = ..
RowHas(pid) == row # NoRow /\ row.pid = pid

\* acquired_at = NOW(): different from every acquired_at that is still remembered.
Fresh == CHOOSE s \in Stamps :
           /\ row # NoRow => s # row.stamp
           /\ \A c \in Calls : snap[c] # NoRow => s # snap[c].stamp

CappedLate(n, m) == IF n <= m THEN n + 1 ELSE m                     \* mutant
Capped(n, m) == IF n < m THEN n + 1 ELSE m

Idle(c) == /\ pc' = [pc EXCEPT ![c] = "idle"]
           /\ snap' = [snap EXCEPT ![c] = NoRow]
           /\ purpose' = [purpose EXCEPT ![c] = "acquire"]

----------------------------------------------------------------------------
(* Acquiring. *)

\* The row the upsert writes over: none, or one whose holder let its time to live
\* pass and has not refreshed within the steal grace.
Free == row # NoRow => Expired(row) /\ row.idle > StealGrace

Acquire(c) ==
  /\ Running(c) /\ pc[c] \in {"idle", "retry"}
  /\ Free
  /\ row' = [pid |-> Pid(c), host |-> Host(c), stamp |-> Fresh, age |-> 0,
             idle |-> 0, by |-> c]
  /\ pc' = [pc EXCEPT ![c] = "working"]
  /\ snap' = [snap EXCEPT ![c] = NoRow]
  /\ gap' = [gap EXCEPT ![c] = 0]
  /\ UNCHANGED <<proc, purpose, reused>>

\* The first refusal goes on to inspect the holder; the second returns null.
Refused(c) ==
  /\ Running(c) /\ pc[c] \in {"idle", "retry"}
  /\ ~ Free
  /\ IF pc[c] = "idle"
     THEN pc' = [pc EXCEPT ![c] = "blocked"] /\ UNCHANGED <<snap, purpose>>
     ELSE Idle(c)
  /\ UNCHANGED <<row, proc, gap, reused>>

\* inspectLock, for a refused acquisition, --break-lock or the reaper.
Inspect(c, why) ==
  /\ Running(c)
  /\ IF why = "acquire" THEN pc[c] = "blocked" ELSE pc[c] = "idle"
  /\ IF row = NoRow
     THEN pc[c] = "blocked" /\ Idle(c)
     ELSE /\ snap' = [snap EXCEPT ![c] = row]
          /\ pc' = [pc EXCEPT ![c] = "judge"]
          /\ purpose' = [purpose EXCEPT ![c] = why]
  /\ UNCHANGED <<row, proc, gap, reused>>

\* isHolderDeadLocally: on this host, no process with that pid, and old enough.
DeadAnywhere(c) ==                                                  \* mutant
  /\ \A p \in Procs : PidOf[p] = snap[c].pid /\ HostOf[p] = Host(c) => ~ Alive(p, proc)
  /\ snap[c].age >= TakeoverGrace
DeadHere(c) ==
  /\ snap[c].host = Host(c)
  /\ \A p \in Procs :
       PidOf[p] = snap[c].pid /\ HostOf[p] = snap[c].host => ~ Alive(p, proc)
  /\ snap[c].age >= TakeoverGrace

Condemned(c) ==
  CASE purpose[c] = "acquire" -> ~ Expired(snap[c]) /\ DeadHere(c)
    [] purpose[c] = "reap"    -> DeadHere(c)
    [] purpose[c] = "break"   -> /\ snap[c].host = Host(c)
                                 /\ (Expired(snap[c]) \/ DeadHere(c))
    [] purpose[c] = "stale"   -> snap[c].host = Host(c)
    [] purpose[c] = "force"   -> TRUE

Judge(c) ==
  /\ Running(c) /\ pc[c] = "judge"
  /\ IF Condemned(c)
     THEN /\ pc' = [pc EXCEPT ![c] = "delete"]
          /\ snap' = [snap EXCEPT ![c].age = 0, ![c].idle = 0]    \* not looked at again
          /\ UNCHANGED purpose
     ELSE Idle(c)
  /\ UNCHANGED <<row, proc, gap, reused>>

\* deleteLockRow, deleteLockRowIfStale and deleteLockRowExact.
DeletesByPid(c) ==                                                  \* mutant
  /\ RowHas(snap[c].pid)
  /\ purpose[c] = "stale" => row.idle > MaxAge
Deletes(c) ==
  /\ RowHas(snap[c].pid)
  /\ purpose[c] = "stale" => row.idle > MaxAge
  /\ purpose[c] = "reap" => row.stamp = snap[c].stamp

DeleteRow(c) ==
  /\ Running(c) /\ pc[c] = "delete"
  /\ row' = IF Deletes(c) THEN NoRow ELSE row
  /\ IF Deletes(c) /\ purpose[c] = "acquire"
     THEN /\ pc' = [pc EXCEPT ![c] = "retry"]
          /\ snap' = [snap EXCEPT ![c] = NoRow]
          /\ UNCHANGED purpose
     ELSE Idle(c)
  /\ UNCHANGED <<proc, gap, reused>>

\* A failed query of the takeover is swallowed: the lock is reported busy.
GiveUp(c) ==
  /\ Running(c) /\ pc[c] \in {"blocked", "delete", "retry"}
  /\ Idle(c)
  /\ UNCHANGED <<row, proc, gap, reused>>

----------------------------------------------------------------------------
(* Holding. *)

\* A refresh does not look at the number of rows it changed: a call whose row is
\* gone goes on working.
RefreshUnfenced(c) ==                                               \* mutant
  /\ Running(c) /\ pc[c] = "working"
  /\ row' = IF row # NoRow THEN [row EXCEPT !.idle = 0] ELSE row
  /\ gap' = [gap EXCEPT ![c] = IF @ > Ttl THEN @ ELSE 0]
  /\ UNCHANGED <<proc, pc, purpose, snap, reused>>
Refresh(c) ==
  /\ Running(c) /\ pc[c] = "working"
  /\ row' = IF RowHas(Pid(c)) THEN [row EXCEPT !.idle = 0] ELSE row
  /\ gap' = [gap EXCEPT ![c] = IF @ > Ttl THEN @ ELSE 0]
  /\ UNCHANGED <<proc, pc, purpose, snap, reused>>

\* The DELETE may fail; withRefreshingLock swallows the error.
Release(c) ==
  /\ Running(c) /\ pc[c] = "working"
  /\ row' \in {row, IF RowHas(Pid(c)) THEN NoRow ELSE row}
  /\ pc' = [pc EXCEPT ![c] = "idle"]
  /\ gap' = [gap EXCEPT ![c] = 0]
  /\ UNCHANGED <<proc, purpose, snap, reused>>

----------------------------------------------------------------------------
(* Processes and time. *)

CallsOf(p) == {c \in Calls : ProcOf[c] = p}

\* SIGTERM, SIGHUP, SIGPIPE or an uncaught exception: the registered callbacks
\* release the locks of the process, or fail to in three seconds, while its work
\* goes on until it exits.
Cleanup(p) ==
  /\ proc[p] = "up"
  /\ proc' = [proc EXCEPT ![p] = "ending"]
  /\ row' \in {row, IF RowHas(PidOf[p]) /\ (\E c \in CallsOf(p) : pc[c] = "working")
                   THEN NoRow ELSE row}
  /\ UNCHANGED <<pc, purpose, snap, gap, reused>>

Exit(p) ==
  /\ proc[p] = "ending" \/ (proc[p] = "up" /\ p \in Crashing)
  /\ proc' = [proc EXCEPT ![p] = "down"]
  /\ pc' = [c \in Calls |-> IF ProcOf[c] = p THEN "idle" ELSE pc[c]]
  /\ snap' = [c \in Calls |-> IF ProcOf[c] = p THEN NoRow ELSE snap[c]]
  /\ gap' = [c \in Calls |-> IF ProcOf[c] = p THEN 0 ELSE gap[c]]
  /\ purpose' = [c \in Calls |-> IF ProcOf[c] = p THEN "acquire" ELSE purpose[c]]
  /\ UNCHANGED <<row, reused>>

\* A row, or a snapshot somebody acts on, has the pid of the process.
Remembered(p) ==
  \/ RowHas(PidOf[p])
  \/ \E c \in Calls : snap[c] # NoRow /\ snap[c].pid = PidOf[p]

\* The system may give a pid again at once, also one that is still named.
Start(p) ==
  /\ proc[p] = "down"
  /\ \A q \in Procs : HostOf[q] = HostOf[p] /\ PidOf[q] = PidOf[p] => proc[q] = "down"
  /\ proc' = [proc EXCEPT ![p] = "up"]
  /\ reused' = (reused \/ Remembered(p))
  /\ UNCHANGED <<row, pc, purpose, snap, gap>>

\* The ages in a snapshot are computed when its answer arrives, at the judgement.
Aged(r) == IF r = NoRow THEN r
           ELSE [r EXCEPT !.age = Capped(@, TakeoverGrace), !.idle = Capped(@, IdleCap)]

Tick ==
  /\ row' = Aged(row)
  /\ snap' = [c \in Calls |-> IF pc[c] = "judge" THEN Aged(snap[c]) ELSE snap[c]]
  /\ gap' = [c \in Calls |-> IF pc[c] = "working" THEN Capped(gap[c], Ttl + 1) ELSE 0]
  /\ UNCHANGED <<proc, pc, purpose, reused>>

----------------------------------------------------------------------------

Init ==
  /\ row = NoRow
  /\ proc = [p \in Procs |-> "up"]
  /\ pc = [c \in Calls |-> "idle"]
  /\ purpose = [c \in Calls |-> "acquire"]
  /\ snap = [c \in Calls |-> NoRow]
  /\ gap = [c \in Calls |-> 0]
  /\ reused = FALSE

CallStep(c) ==
  \/ Acquire(c)
  \/ Refused(c)
  \/ Inspect(c, "acquire")
  \/ c \in Inspectors /\ \E why \in Purposes : Inspect(c, why)
  \/ Judge(c)
  \/ DeleteRow(c)
  \/ GiveUp(c)
  \/ Refresh(c)
  \/ Release(c)

ProcStep(p) ==
  \/ p \in Signalled /\ Cleanup(p)
  \/ Exit(p)
  \/ Start(p)

Next == \/ \E c \in Calls : CallStep(c)
        \/ \E p \in Procs : ProcStep(p)
        \/ Tick

Spec == Init /\ [][Next]_vars

----------------------------------------------------------------------------
(* Properties. *)

TypeOK ==
  /\ row \in Rows \cup {NoRow}
  /\ proc \in [Procs -> {"up", "ending", "down"}]
  /\ pc \in [Calls -> {"idle", "blocked", "judge", "delete", "retry", "working"}]
  /\ purpose \in [Calls -> {"acquire"} \cup Purposes]
  /\ snap \in [Calls -> Rows \cup {NoRow}]
  /\ \A c \in Calls : snap[c] # NoRow <=> pc[c] \in {"judge", "delete"}
  /\ gap \in [Calls -> 0..(Ttl + 1)]
  /\ reused \in BOOLEAN

\* Holding, in a process that is not being terminated, and never a whole time to
\* live without a refresh.
Punctual(c) == proc[ProcOf[c]] = "up" /\ pc[c] = "working" /\ gap[c] <= Ttl

\* Two calls that both refresh in time never work at once, whatever takeovers,
\* reapers, late holders and crashes do around them, until a process starts with a
\* pid that a row or a snapshot still names.  It is about calls of processes with
\* different pids, one call each, and not about --break-lock without --max-age.
MutualExclusion ==
  ~ reused => \A c, d \in Calls : Punctual(c) /\ Punctual(d) => c = d

\* The call that wrote the row still works under it.
InUse(r) == pc[r.by] = "working"

\* When a call of one of these purposes deletes the row, it has expired or nobody
\* works under it at the moment of the DELETE, not only at the inspection.
SparesTheLiving(c, whys) ==
  pc[c] = "delete" /\ purpose[c] \in whys /\ pc'[c] # "delete" /\ row # NoRow /\ row' = NoRow
    => Expired(row) \/ ~ InUse(row)

\* The reaper takes no lock from a living holder, although the pid of the dead one
\* it saw may be in use again when it deletes.
ReaperSparesTheLiving == [][\A c \in Calls : SparesTheLiving(c, {"reap"})]_vars

Abandoned    == row # NoRow /\ ~ InUse(row)
SomebodyAsks == \E c \in Calls : Running(c) /\ pc[c] # "working"

\* What goes on by itself: the clock, the steps of an acquisition that began, and
\* new attempts (cron, autopilot, the next command), which come again after every
\* inspection that a caller does for another purpose.
Fairness ==
  /\ WF_vars(Tick)
  /\ \A c \in Calls : /\ SF_vars(Acquire(c) \/ Refused(c))
                      /\ WF_vars(Inspect(c, "acquire") \/ Judge(c) \/ DeleteRow(c))

FairSpec == Spec /\ Fairness

\* A row whose holder crashed or failed to release it does not keep the lock: while
\* somebody asks, it goes, also when a call that lost the lock still refreshes.
AbandonedLockYields == Abandoned ~> ~ Abandoned \/ ~ SomebodyAsks
=============================================================================
