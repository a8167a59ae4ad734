---------------------------- MODULE DbLockProofs ----------------------------
(***************************************************************************)
(* Theorems about DbLock, for every number of calls, processes and hosts,  *)
(* and every time to live, grace and age.                                  *)
(***************************************************************************)
EXTENDS DbLock, FiniteSetTheorems, TLAPS

----------------------------------------------------------------------------
(* What the shared operators return. *)

\* Time to live, graces and ages are natural numbers, and so is their cap.
LEMMA IdleCapType == IdleCap \in Nat
BY DbLockAssumption DEF IdleCap, Larger

\* Counting up to a cap stays below it.
LEMMA CappedType ==
  ASSUME NEW m \in Nat, NEW n \in 0..m
  PROVE  Capped(n, m) \in 0..m
BY DEF Capped

\* A row stays a row while time passes.
LEMMA AgedType ==
  ASSUME NEW r \in Rows \cup {NoRow}
  PROVE  /\ Aged(r) \in Rows \cup {NoRow}
         /\ Aged(r) = NoRow <=> r = NoRow
<1>1. ASSUME r \in Rows
      PROVE  [r EXCEPT !.age = Capped(@, TakeoverGrace), !.idle = Capped(@, IdleCap)] \in Rows
  <2>1. TakeoverGrace \in Nat /\ IdleCap \in Nat
    BY DbLockAssumption, IdleCapType
  <2>2. Capped(r.age, TakeoverGrace) \in 0..TakeoverGrace /\ Capped(r.idle, IdleCap) \in 0..IdleCap
    BY <1>1, <2>1, CappedType DEF Rows
  <2> QED BY <1>1, <2>2 DEF Rows
<1> QED BY <1>1, NoRowAssumption DEF Aged

\* There are more stamps than rows that are remembered: the one in the table and
\* one per call.
LEMMA FreshIsNew ==
  ASSUME TypeOK
  PROVE  /\ Fresh \in Stamps
         /\ row # NoRow => Fresh # row.stamp
         /\ \A c \in Calls : snap[c] # NoRow => Fresh # snap[c].stamp
<1> DEFINE f == [c \in Calls |-> snap[c].stamp]
           T == {f[c] : c \in Calls}
           U == T \cup {row.stamp}
<1>1. IsFiniteSet(T) /\ Cardinality(T) <= Cardinality(Calls)
  <2>1. f \in Surjection(Calls, T)
    BY DEF Surjection
  <2> HIDE DEF f, T
  <2> QED BY <2>1, DbLockAssumption, FS_Surjection
<1>2. Cardinality(Calls) \in Nat /\ Cardinality(T) \in Nat
  BY <1>1, DbLockAssumption, FS_CardinalityType
<1>3. IsFiniteSet(U) /\ Cardinality(U) <= Cardinality(Calls) + 1
  <2>1. /\ IsFiniteSet(U)
        /\ Cardinality(U) = IF row.stamp \in T THEN Cardinality(T) ELSE Cardinality(T) + 1
    <3> HIDE DEF T
    <3> QED BY <1>1, FS_AddElement
  <2> HIDE DEF U, T
  <2> QED BY <1>1, <1>2, <2>1
<1>4. Cardinality(Stamps) = Cardinality(Calls) + 2
  BY <1>2, FS_Interval DEF Stamps
<1>5. ~ (Stamps \subseteq U)
  <2> SUFFICES ASSUME Stamps \subseteq U PROVE FALSE
    OBVIOUS
  <2>1. Cardinality(Stamps) <= Cardinality(U)
    BY <1>3, FS_Subset
  <2>2. Cardinality(U) \in Nat
    BY <1>3, FS_CardinalityType
  <2> HIDE DEF U
  <2> QED BY <1>2, <1>3, <1>4, <2>1, <2>2
<1>6. PICK s \in Stamps : s \notin U
  BY <1>5
<1>7. /\ row # NoRow => s # row.stamp
      /\ \A c \in Calls : snap[c] # NoRow => s # snap[c].stamp
  BY <1>6
<1> HIDE DEF U, T, f
<1> QED BY <1>7 DEF Fresh

----------------------------------------------------------------------------
(* Type correctness. *)

\* The first state has the types.
LEMMA InitType == Init => TypeOK
<1> SUFFICES ASSUME Init PROVE TypeOK
  OBVIOUS
<1>1. reused \in BOOLEAN
  BY DEF Init
<1> QED BY <1>1, DbLockAssumption DEF Init, TypeOK

\* A call that goes idle keeps the types.
LEMMA IdleType ==
  ASSUME TypeOK, NEW c \in Calls, Idle(c)
  PROVE  /\ pc' \in [Calls -> {"idle", "blocked", "judge", "delete", "retry", "working"}]
         /\ snap' \in [Calls -> Rows \cup {NoRow}]
         /\ purpose' \in [Calls -> {"acquire"} \cup Purposes]
         /\ \A d \in Calls : snap'[d] # NoRow <=> pc'[d] \in {"judge", "delete"}
BY DEF TypeOK, Idle

\* Every step keeps the types.
LEMMA TypeStep == TypeOK /\ [Next]_vars => TypeOK'
<1> SUFFICES ASSUME TypeOK, [Next]_vars PROVE TypeOK'
  OBVIOUS
<1> USE DEF TypeOK
<1>1. ASSUME NEW c \in Calls, Acquire(c) PROVE TypeOK'
  <2>1. Fresh \in Stamps
    BY FreshIsNew
  <2>2. Pid(c) \in Pids /\ Host(c) \in Hosts
    BY DbLockAssumption DEF Pid, Host
  <2>3. 0 \in 0..TakeoverGrace /\ 0 \in 0..IdleCap /\ 0 \in 0..(Ttl + 1)
    BY IdleCapType, DbLockAssumption
  <2>4. row' \in Rows
    BY <1>1, <2>1, <2>2, <2>3 DEF Acquire, Rows
  <2>5. pc' \in [Calls -> {"idle", "blocked", "judge", "delete", "retry", "working"}]
    BY <1>1 DEF Acquire
  <2> QED BY <1>1, <2>3, <2>4, <2>5 DEF Acquire
<1>2. ASSUME NEW c \in Calls, Refused(c) PROVE TypeOK'
  BY <1>2, IdleType DEF Refused
<1>3. ASSUME NEW c \in Calls, NEW why \in {"acquire"} \cup Purposes, Inspect(c, why)
      PROVE  TypeOK'
  BY <1>3, IdleType DEF Inspect
<1>4. ASSUME NEW c \in Calls, Judge(c) PROVE TypeOK'
  <2>1. CASE Condemned(c)
    <3>1. snap[c] \in Rows
      BY <1>4 DEF Judge
    <3>2. 0 \in 0..TakeoverGrace /\ 0 \in 0..IdleCap
      BY IdleCapType, DbLockAssumption
    <3>3. [[snap[c] EXCEPT !.age = 0] EXCEPT !.idle = 0] \in Rows
      BY <3>1, <3>2 DEF Rows
    <3>4. snap' = [snap EXCEPT ![c] = [[snap[c] EXCEPT !.age = 0] EXCEPT !.idle = 0]]
      BY <1>4, <2>1, <3>1 DEF Judge, Rows
    <3> QED BY <1>4, <2>1, <3>3, <3>4, NoRowAssumption DEF Judge
  <2>2. CASE ~ Condemned(c)
    BY <1>4, <2>2, IdleType DEF Judge
  <2> QED BY <2>1, <2>2
<1>5. ASSUME NEW c \in Calls, DeleteRow(c) PROVE TypeOK'
  BY <1>5, IdleType DEF DeleteRow
<1>6. ASSUME NEW c \in Calls, GiveUp(c) PROVE TypeOK'
  BY <1>6, IdleType DEF GiveUp
<1>7. ASSUME NEW c \in Calls, Refresh(c) PROVE TypeOK'
  <2>1. 0 \in 0..(Ttl + 1) /\ 0 \in 0..IdleCap
    BY IdleCapType, DbLockAssumption
  <2>2. row # NoRow => [row EXCEPT !.idle = 0] \in Rows
    BY <2>1 DEF Rows
  <2> QED BY <1>7, <2>1, <2>2 DEF Refresh, RowHas
<1>8. ASSUME NEW c \in Calls, Release(c) PROVE TypeOK'
  BY <1>8, DbLockAssumption DEF Release
<1>9. ASSUME NEW p \in Procs, Cleanup(p) PROVE TypeOK'
  BY <1>9 DEF Cleanup
<1>10. ASSUME NEW p \in Procs, Exit(p) PROVE TypeOK'
  BY <1>10, DbLockAssumption DEF Exit
<1>11. ASSUME NEW p \in Procs, Start(p) PROVE TypeOK'
  BY <1>11 DEF Start
<1>12. CASE Tick
  <2>1. row' \in Rows \cup {NoRow} /\ snap' \in [Calls -> Rows \cup {NoRow}]
    BY <1>12, AgedType DEF Tick
  <2>2. \A c \in Calls : Capped(gap[c], Ttl + 1) \in 0..(Ttl + 1) /\ 0 \in 0..(Ttl + 1)
    BY CappedType, DbLockAssumption
  <2>3. gap' \in [Calls -> 0..(Ttl + 1)]
    BY <1>12, <2>2 DEF Tick
  <2>4. \A r \in Rows \cup {NoRow} : Aged(r) # NoRow <=> r # NoRow
    BY AgedType
  <2>5. \A c \in Calls : snap'[c] # NoRow <=> pc'[c] \in {"judge", "delete"}
    BY <1>12, <2>4 DEF Tick
  <2> QED BY <1>12, <2>1, <2>3, <2>5 DEF Tick
<1>13. CASE UNCHANGED vars
  BY <1>13 DEF vars
<1> QED BY <1>1, <1>2, <1>3, <1>4, <1>5, <1>6, <1>7, <1>8, <1>9, <1>10, <1>11, <1>12, <1>13
        DEF Next, CallStep, ProcStep

\* Rows, snapshots and calls have their types, and exactly the calls that inspected a
\* row hold a snapshot of one.
THEOREM TypeCorrect == Spec => []TypeOK
<1>1. Init => TypeOK
  BY InitType
<1>2. TypeOK /\ [Next]_vars => TypeOK'
  BY TypeStep
<1> QED BY <1>1, <1>2, PTL DEF Spec

----------------------------------------------------------------------------
(* What rows and snapshots say about calls. *)

\* A row names the process of the call that wrote it.
Known(r) == r.pid = Pid(r.by) /\ r.host = Host(r.by)

KnownRows == /\ row # NoRow => Known(row)
             /\ \A c \in Calls : snap[c] # NoRow => Known(snap[c])

\* Equal acquired_at, equal acquisition.
StampsIdentify ==
  \A c \in Calls : snap[c] # NoRow /\ row # NoRow /\ snap[c].stamp = row.stamp
                    => row.by = snap[c].by

\* A process that is down runs no call.
DownIsIdle == \A c \in Calls : proc[ProcOf[c]] = "down" => pc[c] = "idle"

\* The acquisition that a reaper is about to delete is over.
ReapsTheEnded ==
  \A c \in Calls :
    /\ pc[c] = "delete" /\ purpose[c] = "reap"
    /\ row # NoRow /\ row.stamp = snap[c].stamp
    => ~ InUse(row)

RowInv == TypeOK /\ KnownRows /\ StampsIdentify /\ DownIsIdle /\ ReapsTheEnded

\* Time changes the ages of a row and nothing else of it.
LEMMA AgedKeeps ==
  ASSUME NEW r \in Rows
  PROVE  /\ Aged(r).pid = r.pid /\ Aged(r).host = r.host
         /\ Aged(r).stamp = r.stamp /\ Aged(r).by = r.by
         /\ Aged(r).idle = Capped(r.idle, IdleCap)
BY NoRowAssumption DEF Aged, Rows

\* So does a judgement, in its snapshot.
LEMMA JudgeKeeps ==
  ASSUME TypeOK, NEW c \in Calls, Judge(c), Condemned(c)
  PROVE  /\ snap[c] \in Rows
         /\ snap'[c].pid = snap[c].pid /\ snap'[c].host = snap[c].host
         /\ snap'[c].stamp = snap[c].stamp /\ snap'[c].by = snap[c].by
         /\ \A d \in Calls \ {c} : snap'[d] = snap[d]
<1>1. snap[c] \in Rows
  BY DEF Judge, TypeOK
<1>2. snap' = [snap EXCEPT ![c] = [[snap[c] EXCEPT !.age = 0] EXCEPT !.idle = 0]]
  BY <1>1 DEF Judge, TypeOK, Rows
<1> QED BY <1>1, <1>2 DEF Rows, TypeOK

\* A refresh keeps who has the row, and since when.
LEMMA RefreshKeeps ==
  ASSUME TypeOK, NEW c \in Calls, Refresh(c), row # NoRow
  PROVE  /\ row' \in Rows
         /\ row'.pid = row.pid /\ row'.host = row.host
         /\ row'.stamp = row.stamp /\ row'.by = row.by
         /\ row'.idle = IF RowHas(Pid(c)) THEN 0 ELSE row.idle
<1>1. row \in Rows /\ 0 \in 0..IdleCap
  BY IdleCapType DEF TypeOK
<1>2. CASE RowHas(Pid(c))
  BY <1>1, <1>2 DEF Refresh, Rows
<1>3. CASE ~ RowHas(Pid(c))
  BY <1>1, <1>3 DEF Refresh
<1> QED BY <1>2, <1>3

\* What a call that leaves its inspection, or its work, does to the rest.
Leaves(c) ==
  /\ row' \in {row, NoRow} /\ proc' = proc
  /\ proc[ProcOf[c]] # "down"
  /\ pc'[c] \in {"idle", "blocked", "retry"} /\ snap'[c] = NoRow
  /\ \A d \in Calls \ {c} :
       pc'[d] = pc[d] /\ snap'[d] = snap[d] /\ purpose'[d] = purpose[d]

LEMMA LeavesStep ==
  ASSUME RowInv, TypeOK', NEW c \in Calls, Leaves(c)
  PROVE  RowInv'
<1>1. KnownRows'
  BY DEF Leaves, RowInv, KnownRows, Known, Pid, Host
<1>2. StampsIdentify'
  BY DEF Leaves, RowInv, StampsIdentify
<1>3. DownIsIdle'
  BY DEF Leaves, RowInv, DownIsIdle
<1>4. ReapsTheEnded'
  <2> SUFFICES ASSUME NEW d \in Calls, pc'[d] = "delete", purpose'[d] = "reap",
                      row' # NoRow, row'.stamp = snap'[d].stamp
               PROVE  pc'[row'.by] # "working"
    BY DEF ReapsTheEnded, InUse
  <2>1. d # c /\ row' = row /\ row \in Rows
    BY DEF Leaves, RowInv, TypeOK
  <2>2. pc[row.by] # "working" /\ row.by \in Calls
    BY <2>1 DEF Leaves, RowInv, ReapsTheEnded, InUse, Rows
  <2> QED BY <2>1, <2>2 DEF Leaves
<1> QED BY <1>1, <1>2, <1>3, <1>4 DEF RowInv

\* Every step keeps rows and snapshots tied to the calls they are about.
LEMMA RowStep == RowInv /\ [Next]_vars => RowInv'
<1> SUFFICES ASSUME RowInv, [Next]_vars PROVE RowInv'
  OBVIOUS
<1>0. TypeOK /\ TypeOK'
  BY TypeStep DEF RowInv
<1>1. ASSUME NEW c \in Calls, Acquire(c) PROVE RowInv'
  <2>1. /\ row'.by = c /\ row'.stamp = Fresh /\ Known(row')
        /\ snap'[c] = NoRow /\ \A d \in Calls \ {c} : snap'[d] = snap[d] /\ pc'[d] = pc[d]
        /\ pc'[c] = "working" /\ proc' = proc /\ proc[ProcOf[c]] # "down"
    BY <1>0, <1>1 DEF Acquire, Known, TypeOK, Running, Alive
  <2>2. \A d \in Calls : snap'[d] # NoRow => snap'[d].stamp # row'.stamp
    BY <1>0, <2>1, FreshIsNew
  <2>3. KnownRows'
    BY <2>1 DEF RowInv, KnownRows, Known, Pid, Host
  <2>4. StampsIdentify' /\ ReapsTheEnded'
    BY <1>0, <2>1, <2>2 DEF StampsIdentify, ReapsTheEnded, TypeOK
  <2>5. DownIsIdle'
    BY <2>1 DEF RowInv, DownIsIdle
  <2> QED BY <1>0, <2>3, <2>4, <2>5 DEF RowInv
<1>2. ASSUME NEW c \in Calls, Refused(c) PROVE RowInv'
  <2>1. Leaves(c)
    BY <1>0, <1>2 DEF Leaves, Refused, Idle, TypeOK, Running, Alive
  <2> QED BY <1>0, <2>1, LeavesStep
<1>3. ASSUME NEW c \in Calls, NEW why \in {"acquire"} \cup Purposes, Inspect(c, why)
      PROVE  RowInv'
  <2>1. CASE row = NoRow
    <3>1. Leaves(c)
      BY <1>0, <1>3, <2>1 DEF Leaves, Inspect, Idle, TypeOK, Running, Alive
    <3> QED BY <1>0, <3>1, LeavesStep
  <2>2. CASE row # NoRow
    <3>1. /\ row' = row /\ proc' = proc /\ proc[ProcOf[c]] # "down"
          /\ pc[c] # "working" /\ pc'[c] = "judge" /\ snap'[c] = row
          /\ \A d \in Calls \ {c} :
               pc'[d] = pc[d] /\ snap'[d] = snap[d] /\ purpose'[d] = purpose[d]
      BY <1>0, <1>3, <2>2 DEF Inspect, TypeOK, Running, Alive
    <3>2. KnownRows' /\ StampsIdentify' /\ DownIsIdle'
      BY <3>1 DEF RowInv, KnownRows, Known, StampsIdentify, DownIsIdle, Pid, Host
    <3>3. ReapsTheEnded'
      BY <1>0, <2>2, <3>1 DEF RowInv, ReapsTheEnded, InUse, TypeOK, Rows
    <3> QED BY <1>0, <3>2, <3>3 DEF RowInv
  <2> QED BY <2>1, <2>2
<1>4. ASSUME NEW c \in Calls, Judge(c) PROVE RowInv'
  <2>1. CASE Condemned(c)
    <3>1. /\ row' = row /\ proc' = proc /\ purpose' = purpose
          /\ proc[ProcOf[c]] # "down" /\ pc[c] = "judge" /\ pc'[c] = "delete"
          /\ \A d \in Calls \ {c} : pc'[d] = pc[d]
      BY <1>0, <1>4, <2>1 DEF Judge, TypeOK, Running, Alive
    <3>2. /\ snap[c] \in Rows
          /\ snap'[c].pid = snap[c].pid /\ snap'[c].host = snap[c].host
          /\ snap'[c].stamp = snap[c].stamp /\ snap'[c].by = snap[c].by
          /\ \A d \in Calls \ {c} : snap'[d] = snap[d]
      BY <1>0, <1>4, <2>1, JudgeKeeps
    <3>3. snap[c] # NoRow /\ snap[c].by \in Calls /\ Known(snap[c])
      BY <3>2, NoRowAssumption DEF RowInv, KnownRows, Rows
    <3>4. KnownRows' /\ StampsIdentify' /\ DownIsIdle'
      BY <3>1, <3>2, <3>3 DEF RowInv, KnownRows, Known, StampsIdentify, DownIsIdle, Pid, Host
    <3>5. ASSUME purpose[c] = "reap" PROVE pc[snap[c].by] = "idle"
      <4>1. proc[ProcOf[snap[c].by]] = "down"
        BY <2>1, <3>3, <3>5, DbLockAssumption DEF Condemned, DeadHere, Alive, Known, Pid, Host
      <4> QED BY <3>3, <4>1 DEF RowInv, DownIsIdle
    <3>6. ReapsTheEnded'
      <4> SUFFICES ASSUME NEW d \in Calls, pc'[d] = "delete", purpose'[d] = "reap",
                          row' # NoRow, row'.stamp = snap'[d].stamp
                   PROVE  pc'[row'.by] # "working"
        BY DEF ReapsTheEnded, InUse
      <4>1. pc[row.by] # "working"
        BY <3>1, <3>2, <3>3, <3>5 DEF RowInv, StampsIdentify, ReapsTheEnded, InUse
      <4> QED BY <3>1, <4>1, <1>0 DEF TypeOK, Rows
    <3> QED BY <1>0, <3>4, <3>6 DEF RowInv
  <2>2. CASE ~ Condemned(c)
    <3>1. Leaves(c)
      BY <1>0, <1>4, <2>2 DEF Leaves, Judge, Idle, TypeOK, Running, Alive
    <3> QED BY <1>0, <3>1, LeavesStep
  <2> QED BY <2>1, <2>2
<1>5. ASSUME NEW c \in Calls, DeleteRow(c) PROVE RowInv'
  <2>1. Leaves(c)
    BY <1>0, <1>5 DEF Leaves, DeleteRow, Idle, TypeOK, Running, Alive
  <2> QED BY <1>0, <2>1, LeavesStep
<1>6. ASSUME NEW c \in Calls, GiveUp(c) PROVE RowInv'
  <2>1. Leaves(c)
    BY <1>0, <1>6 DEF Leaves, GiveUp, Idle, TypeOK, Running, Alive
  <2> QED BY <1>0, <2>1, LeavesStep
<1>7. ASSUME NEW c \in Calls, Refresh(c) PROVE RowInv'
  <2>1. UNCHANGED <<proc, pc, purpose, snap>> /\ (row' = NoRow <=> row = NoRow)
    BY <1>0, <1>7, RefreshKeeps, NoRowAssumption DEF Refresh, RowHas
  <2>2. row # NoRow => /\ row'.pid = row.pid /\ row'.host = row.host
                       /\ row'.stamp = row.stamp /\ row'.by = row.by
    BY <1>0, <1>7, RefreshKeeps
  <2> QED BY <1>0, <2>1, <2>2 DEF RowInv, KnownRows, Known, StampsIdentify, DownIsIdle,
             ReapsTheEnded, InUse, Pid, Host
<1>8. ASSUME NEW c \in Calls, Release(c) PROVE RowInv'
  <2>1. Leaves(c)
    BY <1>0, <1>8 DEF Leaves, Release, TypeOK, Running, Alive
  <2> QED BY <1>0, <2>1, LeavesStep
<1>9. ASSUME NEW p \in Procs, Cleanup(p) PROVE RowInv'
  BY <1>0, <1>9, DbLockAssumption DEF Cleanup, RowInv, TypeOK, KnownRows, Known,
     StampsIdentify, DownIsIdle, ReapsTheEnded, InUse, Pid, Host
<1>10. ASSUME NEW p \in Procs, Exit(p) PROVE RowInv'
  <2>1. row' = row /\ \A c \in Calls : /\ pc'[c] \in {pc[c], "idle"}
                                      /\ snap'[c] \in {snap[c], NoRow}
                                      /\ purpose'[c] \in {purpose[c], "acquire"}
    BY <1>10 DEF Exit
  <2>2. KnownRows' /\ StampsIdentify'
    BY <2>1 DEF RowInv, KnownRows, Known, StampsIdentify, Pid, Host
  <2>3. DownIsIdle'
    BY <1>0, <1>10, DbLockAssumption DEF Exit, RowInv, DownIsIdle, TypeOK
  <2>4. ReapsTheEnded'
    BY <1>0, <2>1, NoRowAssumption DEF RowInv, ReapsTheEnded, InUse, TypeOK, Rows
  <2> QED BY <1>0, <2>2, <2>3, <2>4 DEF RowInv
<1>11. ASSUME NEW p \in Procs, Start(p) PROVE RowInv'
  BY <1>0, <1>11, DbLockAssumption DEF Start, RowInv, TypeOK, KnownRows, Known,
     StampsIdentify, DownIsIdle, ReapsTheEnded, InUse, Pid, Host
<1>12. CASE Tick
  <2>1. UNCHANGED <<proc, pc, purpose>> /\ (row' = NoRow <=> row = NoRow)
    BY <1>0, <1>12, AgedType DEF Tick, TypeOK
  <2>2. row # NoRow => /\ row'.pid = row.pid /\ row'.host = row.host
                       /\ row'.stamp = row.stamp /\ row'.by = row.by
    BY <1>0, <1>12, AgedKeeps DEF Tick, TypeOK
  <2>3. \A c \in Calls : /\ snap'[c] = NoRow <=> snap[c] = NoRow
                         /\ snap[c] # NoRow =>
                              /\ snap'[c].pid = snap[c].pid /\ snap'[c].host = snap[c].host
                              /\ snap'[c].stamp = snap[c].stamp /\ snap'[c].by = snap[c].by
    BY <1>0, <1>12, AgedType, AgedKeeps DEF Tick, TypeOK
  <2> QED BY <1>0, <2>1, <2>2, <2>3 DEF RowInv, TypeOK, KnownRows, Known, StampsIdentify,
             DownIsIdle, ReapsTheEnded, InUse, Pid, Host
<1>13. CASE UNCHANGED vars
  BY <1>13 DEF vars, RowInv, TypeOK, KnownRows, Known, StampsIdentify, DownIsIdle,
     ReapsTheEnded, InUse, Pid, Host
<1> QED BY <1>1, <1>2, <1>3, <1>4, <1>5, <1>6, <1>7, <1>8, <1>9, <1>10, <1>11, <1>12, <1>13
        DEF Next, CallStep, ProcStep

LEMMA RowInit == Init => RowInv
<1>1. Init => TypeOK
  BY InitType
<1> QED BY <1>1 DEF Init, RowInv, KnownRows, StampsIdentify, DownIsIdle, ReapsTheEnded

\* A call about to delete that moves on while the row changes does delete it.
LEMMA DeletionIsDeleteRow ==
  ASSUME TypeOK, Next, NEW c \in Calls, pc[c] = "delete", pc'[c] # "delete", row' # row
  PROVE  DeleteRow(c)
<1>1. ASSUME NEW d \in Calls, CallStep(d), d # c PROVE FALSE
  BY <1>1 DEF TypeOK, CallStep, Idle, Acquire, Refused, Inspect, Judge, DeleteRow, GiveUp,
     Refresh, Release
<1>2. ASSUME NEW p \in Procs, ProcStep(p) PROVE FALSE
  BY <1>2 DEF ProcStep, Cleanup, Exit, Start
<1>3. ASSUME Tick PROVE FALSE
  BY <1>3 DEF Tick
<1>4. CallStep(c)
  BY <1>1, <1>2, <1>3 DEF Next
<1> QED BY <1>4 DEF CallStep, Idle, Acquire, Refused, Inspect, Judge, GiveUp, Refresh, Release

\* Whatever the pids, crashes, restarts and other deletions, the reaper takes no lock
\* from a call that works under it: ReapsTheEnded is what the comparison of
\* acquired_at in deleteLockRowExact keeps true.
THEOREM ReaperIsSafe == Spec => ReaperSparesTheLiving
<1>1. Init => RowInv
  BY RowInit
<1>2. RowInv /\ [Next]_vars => RowInv'
  BY RowStep
<1>3. RowInv /\ [Next]_vars => [\A c \in Calls : SparesTheLiving(c, {"reap"})]_vars
  <2> SUFFICES ASSUME RowInv, Next, NEW c \in Calls,
                      pc[c] = "delete", purpose[c] = "reap", pc'[c] # "delete",
                      row # NoRow, row' = NoRow
               PROVE  ~ InUse(row)
    BY DEF SparesTheLiving
  <2>1. DeleteRow(c)
    BY DeletionIsDeleteRow DEF RowInv
  <2>2. row.stamp = snap[c].stamp
    BY <2>1 DEF DeleteRow, Deletes
  <2> QED BY <2>2 DEF RowInv, ReapsTheEnded
<1> QED BY <1>1, <1>2, <1>3, PTL DEF Spec, ReaperSparesTheLiving

----------------------------------------------------------------------------
(* Mutual exclusion. *)

\* What exclusion needs of the deployment: a pid stands for one call, nobody breaks
\* locks but by age, and not within a time to live.
OnePidPerCall == \A c, d \in Calls : Pid(c) = Pid(d) => c = d
ExclusiveSetting == /\ OnePidPerCall
                    /\ Purposes \subseteq {"stale", "reap"}
                    /\ Ttl <= MaxAge

\* The row is the punctual holder's, and no staler than the holder's own last refresh.
Owned == \A c \in Calls : Punctual(c) => row # NoRow /\ row.by = c /\ row.idle <= gap[c]

\* What was judged dead is down.
CondemnedIsDown ==
  \A c \in Calls : pc[c] = "delete" /\ purpose[c] \in {"acquire", "reap"}
                     => proc[ProcOf[snap[c].by]] = "down"

\* Until a process starts with a pid that is still named.
ExclusionInv == RowInv /\ (~ reused => Owned /\ CondemnedIsDown)

LEMMA ReuseStays == TypeOK /\ [Next]_vars => (reused => reused')
BY DEF TypeOK, Next, CallStep, ProcStep, vars, Acquire, Refused, Inspect, Judge, DeleteRow, GiveUp,
       Refresh, Release, Cleanup, Exit, Start, Tick

\* A call is about to delete because it was, or because it judges so now.
LEMMA AboutToDelete ==
  ASSUME TypeOK, [Next]_vars, NEW c \in Calls, pc'[c] = "delete"
  PROVE  \/ pc[c] = "delete" /\ snap'[c] = snap[c] /\ purpose'[c] = purpose[c]
         \/ Judge(c) /\ Condemned(c)
<1>1. ASSUME NEW d \in Calls, CallStep(d), d # c
      PROVE  pc'[c] = pc[c] /\ snap'[c] = snap[c] /\ purpose'[c] = purpose[c]
  BY <1>1 DEF TypeOK, CallStep, Idle, Acquire, Refused, Inspect, Judge, DeleteRow, GiveUp,
     Refresh, Release
<1>2. CASE CallStep(c)
  BY <1>2 DEF TypeOK, CallStep, Idle, Acquire, Refused, Inspect, Judge, DeleteRow, GiveUp,
     Refresh, Release
<1>3. ASSUME NEW p \in Procs, ProcStep(p)
      PROVE  pc'[c] = pc[c] /\ snap'[c] = snap[c] /\ purpose'[c] = purpose[c]
  BY <1>3 DEF ProcStep, Cleanup, Exit, Start
<1>4. CASE Tick
  BY <1>4 DEF Tick
<1>5. CASE UNCHANGED vars
  BY <1>5 DEF vars
<1> QED BY <1>1, <1>2, <1>3, <1>4, <1>5 DEF Next

\* Judged dead stays dead: while the snapshot names it, no process has its pid again.
LEMMA CondemnedStep ==
  ASSUME ExclusiveSetting, RowInv, CondemnedIsDown, [Next]_vars, ~ reused'
  PROVE  CondemnedIsDown'
<1>0. TypeOK /\ TypeOK'
  BY TypeStep DEF RowInv
<1> SUFFICES ASSUME NEW c \in Calls, pc'[c] = "delete", purpose'[c] \in {"acquire", "reap"}
             PROVE  proc'[ProcOf[snap'[c].by]] = "down"
  BY DEF CondemnedIsDown
<1>1. snap'[c] \in Rows /\ snap'[c].by \in Calls
  BY <1>0 DEF TypeOK, Rows
<1>2. \A p \in Procs : proc[p] = "down" /\ Remembered(p) => proc'[p] = "down"
  BY ZenonT(60), <1>0 DEF Next, CallStep, ProcStep, vars, TypeOK, ExclusiveSetting, Acquire, Refused,
     Inspect, Judge, DeleteRow, GiveUp, Refresh, Release, Cleanup, Exit, Start, Tick
<1>3. CASE pc[c] = "delete" /\ snap'[c] = snap[c] /\ purpose'[c] = purpose[c]
  <2>1. snap[c] \in Rows /\ snap[c] # NoRow /\ Known(snap[c])
    BY <1>0, <1>1, <1>3 DEF TypeOK, RowInv, KnownRows
  <2>2. Remembered(ProcOf[snap[c].by])
    BY <2>1 DEF Remembered, Known, Pid
  <2>3. proc[ProcOf[snap[c].by]] = "down"
    BY <1>3 DEF CondemnedIsDown
  <2> QED BY <1>1, <1>2, <1>3, <2>2, <2>3, DbLockAssumption
<1>4. CASE Judge(c) /\ Condemned(c)
  <2>1. pc[c] = "judge" /\ purpose'[c] \in {"acquire", "reap"} /\ purpose' = purpose
    BY <1>4 DEF Judge
  <2>2. snap[c] \in Rows /\ snap[c] # NoRow /\ snap'[c].by = snap[c].by /\ Known(snap[c])
    BY <1>0, <1>4, JudgeKeeps, NoRowAssumption DEF RowInv, KnownRows
  <2>3. DeadHere(c)
    BY <1>4, <2>1 DEF Condemned
  <2>4. proc[ProcOf[snap[c].by]] = "down"
    BY <1>1, <2>2, <2>3, DbLockAssumption DEF DeadHere, Alive, Known, Pid, Host
  <2>5. Remembered(ProcOf[snap[c].by])
    BY <2>2 DEF Remembered, Known, Pid
  <2> QED BY <1>1, <1>2, <2>2, <2>4, <2>5, DbLockAssumption
<1> QED BY <1>0, <1>3, <1>4, AboutToDelete

\* An acquisition leaves a row.
LEMMA AcquireMakesRow ==
  ASSUME TypeOK, NEW c \in Calls, Acquire(c)
  PROVE  row' \in Rows /\ row' # NoRow
<1>1. Pid(c) \in Pids /\ Host(c) \in Hosts
  BY DbLockAssumption DEF Pid, Host
<1>2. 0 \in 0..TakeoverGrace /\ 0 \in 0..IdleCap
  BY IdleCapType, DbLockAssumption
<1> QED BY <1>1, <1>2, FreshIsNew, NoRowAssumption DEF Acquire, Rows

\* A punctual holder keeps its row through every step, its own and the others'.
LEMMA OwnedStep ==
  ASSUME ExclusiveSetting, RowInv, Owned, CondemnedIsDown, [Next]_vars
  PROVE  Owned'
<1>0. TypeOK /\ TypeOK'
  BY TypeStep DEF RowInv
<1> SUFFICES ASSUME NEW h \in Calls, Punctual(h)'
             PROVE  (row # NoRow /\ row.by = h /\ row.idle <= gap[h])'
  BY DEF Owned
<1>a. Punctual(h) => /\ row \in Rows /\ row # NoRow /\ row.by = h /\ row.pid = Pid(h)
                     /\ row.idle <= gap[h] /\ row.idle <= Ttl /\ row.idle \in Nat
                     /\ gap[h] \in Nat
  BY <1>0, DbLockAssumption, IdleCapType
     DEF RowInv, Owned, KnownRows, Known, Punctual, TypeOK, Rows
<1>b. \A c \in Calls : Pid(c) = Pid(h) => c = h
  BY DEF ExclusiveSetting, OnePidPerCall
<1>1. ASSUME NEW c \in Calls, Acquire(c)
      PROVE  (row # NoRow /\ row.by = h /\ row.idle <= gap[h])'
  <2>1. CASE c = h
    <3>1. row'.by = h /\ row'.idle = 0 /\ gap'[h] = 0
      BY <1>0, <1>1, <2>1 DEF Acquire, TypeOK
    <3>2. row' # NoRow
      BY <1>0, <1>1, AcquireMakesRow
    <3> QED BY <3>1, <3>2
  <2>2. CASE c # h
    <3>1. Punctual(h)
      BY <1>0, <1>1, <2>2 DEF Acquire, Punctual, TypeOK
    <3> QED BY <1>1, <1>a, <3>1, DbLockAssumption DEF Acquire, Free, Expired
  <2> QED BY <2>1, <2>2
<1>2. ASSUME NEW c \in Calls, DeleteRow(c)
      PROVE  (row # NoRow /\ row.by = h /\ row.idle <= gap[h])'
  <2>1. Punctual(h) /\ gap' = gap
    BY <1>0, <1>2 DEF DeleteRow, Idle, Punctual, TypeOK
  <2>2. CASE purpose[c] = "stale"
    BY <1>2, <1>a, <2>1, <2>2, DbLockAssumption DEF DeleteRow, Deletes, ExclusiveSetting
  <2>3. CASE purpose[c] \in {"acquire", "reap"}
    <3>1. snap[c] # NoRow /\ snap[c] \in Rows /\ Known(snap[c])
      BY <1>0, <1>2 DEF DeleteRow, TypeOK, RowInv, KnownRows
    <3>2. proc[ProcOf[snap[c].by]] = "down"
      BY <1>2, <2>3 DEF DeleteRow, CondemnedIsDown
    <3>3. snap[c].pid # Pid(h)
      BY <1>b, <2>1, <3>1, <3>2 DEF Known, Punctual, Rows
    <3> QED BY <1>2, <1>a, <2>1, <3>3 DEF DeleteRow, Deletes, RowHas
  <2> QED BY <1>0, <2>2, <2>3 DEF TypeOK, ExclusiveSetting
<1>3. ASSUME NEW c \in Calls, Refresh(c)
      PROVE  (row # NoRow /\ row.by = h /\ row.idle <= gap[h])'
  <2>1. Punctual(h)
    BY <1>0, <1>3, DbLockAssumption DEF Refresh, Punctual, TypeOK
  <2>2. row' # NoRow /\ row'.by = h /\ row'.idle = IF RowHas(Pid(c)) THEN 0 ELSE row.idle
    BY <1>0, <1>3, <1>a, <2>1, RefreshKeeps, NoRowAssumption
  <2>3. CASE c = h
    <3>1. row'.idle = 0
      BY <1>a, <2>1, <2>2, <2>3 DEF RowHas
    <3>2. gap'[h] \in Nat
      BY <1>0 DEF TypeOK
    <3> QED BY <2>2, <3>1, <3>2
  <2>4. CASE c # h
    BY <1>0, <1>3, <1>a, <1>b, <2>1, <2>2, <2>4 DEF Refresh, RowHas, TypeOK
  <2> QED BY <2>3, <2>4
<1>4. ASSUME NEW c \in Calls, Release(c)
      PROVE  (row # NoRow /\ row.by = h /\ row.idle <= gap[h])'
  <2>1. c # h /\ Punctual(h) /\ gap'[h] = gap[h]
    BY <1>0, <1>4 DEF Release, Punctual, TypeOK
  <2> QED BY <1>4, <1>a, <1>b, <2>1 DEF Release, RowHas
<1>5. ASSUME NEW p \in Procs, Cleanup(p)
      PROVE  (row # NoRow /\ row.by = h /\ row.idle <= gap[h])'
  <2>1. p # ProcOf[h] /\ Punctual(h) /\ gap' = gap
    BY <1>0, <1>5, DbLockAssumption DEF Cleanup, Punctual, TypeOK
  <2>2. ~ (RowHas(PidOf[p]) /\ \E c \in CallsOf(p) : pc[c] = "working")
    BY <1>a, <1>b, <2>1 DEF RowHas, CallsOf, Pid
  <2> QED BY <1>5, <1>a, <2>1, <2>2 DEF Cleanup
<1>6. ASSUME NEW p \in Procs, Exit(p)
      PROVE  (row # NoRow /\ row.by = h /\ row.idle <= gap[h])'
  <2>1. Punctual(h) /\ gap'[h] = gap[h]
    BY <1>0, <1>6, DbLockAssumption DEF Exit, Punctual, TypeOK
  <2> QED BY <1>6, <1>a, <2>1 DEF Exit
<1>7. CASE Tick
  <2>1. Punctual(h) /\ gap[h] <= Ttl /\ gap'[h] = gap[h] + 1
    BY <1>0, <1>7, DbLockAssumption DEF Tick, Punctual, TypeOK, Capped
  <2>2. row' # NoRow /\ row'.by = h /\ row'.idle = Capped(row.idle, IdleCap)
    BY <1>0, <1>7, <1>a, <2>1, AgedType, AgedKeeps DEF Tick
  <2>3. Capped(row.idle, IdleCap) <= row.idle + 1
    BY <1>0, <1>a, <2>1, IdleCapType DEF Capped, Rows
  <2> QED BY <1>a, <2>1, <2>2, <2>3, IdleCapType DEF Capped
<1>9. ASSUME NEW c \in Calls,
             \/ Refused(c)
             \/ \E why \in {"acquire"} \cup Purposes : Inspect(c, why)
             \/ Judge(c)
             \/ GiveUp(c)
      PROVE  UNCHANGED <<row, proc, gap>> /\ Punctual(h)
  BY <1>0, <1>9 DEF Refused, Inspect, Judge, GiveUp, Idle, Punctual, TypeOK
<1>10. CASE UNCHANGED vars
  BY <1>10, <1>a DEF vars, Punctual
<1>11. ASSUME NEW p \in Procs, Start(p)
       PROVE  UNCHANGED <<row, gap>> /\ Punctual(h)
  BY <1>0, <1>11, DbLockAssumption DEF Start, Punctual, TypeOK, RowInv, DownIsIdle
<1>12. ASSUME UNCHANGED <<row, gap>>, Punctual(h)
       PROVE  (row # NoRow /\ row.by = h /\ row.idle <= gap[h])'
  BY <1>a, <1>12
<1> QED BY <1>1, <1>2, <1>3, <1>4, <1>5, <1>6, <1>7, <1>9, <1>10, <1>11, <1>12
        DEF Next, CallStep, ProcStep, ExclusiveSetting

\* Calls that refresh in time exclude each other until a pid that is still named is
\* given again: an upsert or a deletion by age needs a row older than the holder's
\* last refresh, one by pid needs a dead process.
THEOREM Exclusion == ExclusiveSetting => (Spec => []MutualExclusion)
<1> SUFFICES ASSUME ExclusiveSetting PROVE Spec => []MutualExclusion
  OBVIOUS
<1>1. Init => ExclusionInv
  BY RowInit DEF Init, ExclusionInv, Owned, CondemnedIsDown, Punctual
<1>2. ExclusionInv /\ [Next]_vars => ExclusionInv'
  BY RowStep, OwnedStep, CondemnedStep, ReuseStays DEF ExclusionInv, RowInv
<1>3. ExclusionInv => MutualExclusion
  BY DEF ExclusionInv, Owned, MutualExclusion
<1> QED BY <1>1, <1>2, <1>3, PTL DEF Spec
=============================================================================
