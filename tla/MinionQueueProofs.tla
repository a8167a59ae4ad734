------------------------- MODULE MinionQueueProofs -------------------------
(***************************************************************************)
(* Theorems about MinionQueue, for every value of its constants.           *)
(***************************************************************************)
EXTENDS MinionQueue, FiniteSetTheorems, TLAPS

----------------------------------------------------------------------------
(* What the shared operators return. *)

\* Overwriting a function on a set keeps its type.
LEMMA SetType ==
  ASSUME NEW D, NEW R, NEW f \in [D -> R], NEW S, NEW v \in R
  PROVE  Set(f, S, v) \in [D -> R]
BY DEF Set

\* Counting up on a set keeps a function a function to Nat.
LEMMA BumpType ==
  ASSUME NEW D, NEW f \in [D -> Nat], NEW S
  PROVE  Bump(f, S) \in [D -> Nat]
BY DEF Bump

\* Counting up one row does too.
LEMMA IncrementType ==
  ASSUME NEW D, NEW f \in [D -> Nat], NEW d \in D
  PROVE  [f EXCEPT ![d] = f[d] + 1] \in [D -> Nat]
OBVIOUS

\* Posting child_done messages of rows keeps the inboxes well typed.
LEMMA PostedType ==
  ASSUME TypeOK, NEW S \in SUBSET Jobs, NEW st, NEW outcome \in Outcomes
  PROVE  Posted(S, st, outcome) \in [Jobs -> [Messages -> Nat]]
<1>1. ASSUME NEW p \in Jobs, NEW m \in Messages
      PROVE  inbox[p][m] + 1 \in Nat /\ inbox[p][m] \in Nat
  BY DEF TypeOK
<1> QED BY <1>1 DEF Posted

\* Deleting rows empties their inboxes.
LEMMA NoMailType == NoMail \in [Messages -> Nat]
BY DEF NoMail

\* Resolving parents moves rows between statuses.
LEMMA ResolvedType ==
  ASSUME NEW P, NEW st \in [Jobs -> Statuses], NEW par
  PROVE  Resolved(P, st, par) \in [Jobs -> Statuses]
BY DEF Resolved, Statuses, Live

\* Deleting rows leaves parents that are rows or none.
LEMMA OrphanedType ==
  ASSUME NEW gone, NEW par \in [Jobs -> Jobs \cup {NoJob}]
  PROVE  Orphaned(gone, par) \in [Jobs -> Jobs \cup {NoJob}]
BY DEF Orphaned

\* The parent's side of a failure moves rows between statuses.
LEMMA FailPolicyType ==
  ASSUME NEW j, NEW st \in [Jobs -> Statuses], NEW par
  PROVE  FailPolicy(j, st, par) \in [Jobs -> Statuses]
BY ResolvedType DEF FailPolicy, Statuses, Terminal

----------------------------------------------------------------------------
(* Type correctness. *)

\* Every statement of the queue leaves a well-typed table.
LEMMA TypeStep == TypeOK /\ [Next]_vars => TypeOK'
<1> SUFFICES ASSUME TypeOK, [Next]_vars PROVE TypeOK'
  OBVIOUS
<1> USE DEF TypeOK, ids, locks, tally
<1>1. CASE UNCHANGED vars
  BY <1>1 DEF vars
<1>2. ASSUME NEW j \in Jobs, NEW p \in Jobs \cup {NoJob}, NEW o \in Opts, Add(j, p, o)
      PROVE  TypeOK'
  <2>1. o \in Options
    BY ConstantsAssumption
  <2>2. status' \in [Jobs -> Statuses]
    BY <1>2 DEF Add, Statuses, Live
  <2>3. depth' \in [Jobs -> Nat]
    BY <1>2 DEF Add
  <2>4. key' \in [Jobs -> Keys \cup {NoKey}]
    BY <1>2, <2>1, SetType DEF Add, Options
  <2> QED BY <1>2, <2>2, <2>3, <2>4 DEF Add
<1>3. ASSUME NEW o \in Opts, AddCoalesced(o)
      PROVE  TypeOK'
  BY <1>3, SetType DEF AddCoalesced
<1>4. ASSUME NEW r \in Runs, NEW j \in Jobs, Claim(r, j)
      PROVE  TypeOK'
  BY <1>4 DEF Claim, Statuses, Live
<1>5. ASSUME NEW r \in Runs, RenewLock(r)
      PROVE  TypeOK'
  BY <1>5 DEF RenewLock, Holds
<1>6. ASSUME NEW r \in Runs, CompleteJob(r)
      PROVE  TypeOK'
  <2> DEFINE j == run[r]
             st == [status EXCEPT ![j] = "completed"]
             gone == IF opt[j].removeOnComplete THEN {j} ELSE {}
  <2>1. j \in Jobs /\ st \in [Jobs -> Statuses]
    BY <1>6 DEF CompleteJob, Holds, Statuses, Terminal
  <2>2. status' \in [Jobs -> Statuses]
    BY <1>6, <2>1, ResolvedType, SetType DEF CompleteJob, Statuses, NoRow
  <2>3. inbox' \in [Jobs -> [Messages -> Nat]]
    <3>1. Posted({j}, st, "complete") \in [Jobs -> [Messages -> Nat]]
      BY <2>1, PostedType DEF Outcomes
    <3> QED BY <1>6, <3>1, SetType, NoMailType DEF CompleteJob
  <2>4. parent' \in [Jobs -> Jobs \cup {NoJob}]
    BY <1>6, OrphanedType DEF CompleteJob
  <2> QED BY <1>6, <2>1, <2>2, <2>3, <2>4 DEF CompleteJob
<1>7. ASSUME NEW r \in Runs, NEW u \in BOOLEAN,
             NEW why \in {"handler", "aborted: timeout"}, FailJob(r, u, why)
      PROVE  TypeOK'
  <2> DEFINE j == run[r]
             new == IF u \/ Exhausted(j) THEN "dead" ELSE "delayed"
             st == [status EXCEPT ![j] = new]
             par == IF opt[j].onChildFail = "remove_dep" /\ new = "dead"
                    THEN [parent EXCEPT ![j] = NoJob] ELSE parent
             st2 == IF new = "dead" THEN FailPolicy(j, st, par) ELSE st
             gone == IF opt[j].removeOnFail /\ new = "dead" THEN {j} ELSE {}
  <2>1. j \in Jobs /\ st \in [Jobs -> Statuses] /\ par \in [Jobs -> Jobs \cup {NoJob}]
    BY <1>7 DEF FailJob, Holds, Statuses, Terminal, Live
  <2>2. status' \in [Jobs -> Statuses]
    <3>1. st2 \in [Jobs -> Statuses]
      BY <2>1, FailPolicyType
    <3>2. status' = Set(st2, gone, "deleted")
      BY <1>7 DEF FailJob
    <3> QED BY <3>1, <3>2, SetType DEF Statuses, NoRow
  <2>3. inbox' \in [Jobs -> [Messages -> Nat]]
    <3>0. {j} \in SUBSET Jobs /\ "dead" \in Outcomes
      BY <2>1 DEF Outcomes
    <3>1. Posted({j}, st, "dead") \in [Jobs -> [Messages -> Nat]]
      <4> HIDE DEF j, st
      <4> QED BY <3>0, PostedType
    <3>2. inbox' = Set(IF new = "dead" THEN Posted({j}, st, "dead") ELSE inbox, gone, NoMail)
      BY <1>7 DEF FailJob
    <3> QED BY <3>1, <3>2, SetType, NoMailType
  <2>4. parent' \in [Jobs -> Jobs \cup {NoJob}]
    BY <1>7, <2>1, OrphanedType DEF FailJob
  <2>5. error' \in [Jobs -> Errors]
    BY <1>7 DEF FailJob, Errors
  <2>6. made' \in [Jobs -> Nat]
    <3>1. made' = [made EXCEPT ![j] = made[j] + 1]
      BY <1>7 DEF FailJob
    <3> QED BY <2>1, <3>1, IncrementType
  <2>7. token' \in [Jobs -> Runs \cup {NoRun}] /\ lock' \in [Jobs -> {"none", "live", "expired"}]
    BY <1>7 DEF FailJob
  <2>8. run' \in [Runs -> Jobs \cup {NoJob}]
    BY <1>7 DEF FailJob
  <2>9. UNCHANGED <<opt, depth, key, started, stalled, snap>>
    BY <1>7 DEF FailJob
  <2> QED BY <2>2, <2>3, <2>4, <2>5, <2>6, <2>7, <2>8, <2>9
<1>8. ASSUME NEW r \in Runs, ReleaseLeaseFullJob(r)
      PROVE  TypeOK'
  BY <1>8 DEF ReleaseLeaseFullJob, Holds, Statuses, Live, Errors
<1>9. ASSUME NEW r \in Runs, Abandon(r)
      PROVE  TypeOK'
  BY <1>9 DEF Abandon
<1>10. ASSUME NEW j \in Jobs, LockExpires(j)
       PROVE  TypeOK'
  BY <1>10 DEF LockExpires
<1>11. ASSUME NEW due \in SUBSET Jobs, PromoteDelayed(due)
       PROVE  TypeOK'
  BY <1>11, SetType DEF PromoteDelayed, Statuses, Live
<1>12. ASSUME NEW due \in SUBSET Jobs, HandleStalled(due)
       PROVE  TypeOK'
  <2>1. status' \in [Jobs -> Statuses]
    BY <1>12, SetType DEF HandleStalled, Statuses, Live, Terminal
  <2>2. made' \in [Jobs -> Nat] /\ stalled' \in [Jobs -> Nat]
    BY <1>12, BumpType DEF HandleStalled
  <2> QED BY <1>12, <2>1, <2>2, SetType DEF HandleStalled, Errors
<1>13. ASSUME NEW due \in SUBSET Jobs, NEW why \in {"timeout", "wall-clock"},
              DeadLetter(due, why)
       PROVE  TypeOK'
  <2>1. status' \in [Jobs -> Statuses]
    BY <1>13, SetType, ResolvedType DEF DeadLetter, Statuses, Terminal
  <2>2. inbox' \in [Jobs -> [Messages -> Nat]]
    BY <1>13, PostedType DEF DeadLetter, Outcomes
  <2>3. made' \in [Jobs -> Nat]
    BY <1>13, BumpType DEF DeadLetter
  <2> QED BY <1>13, <2>1, <2>2, <2>3, SetType DEF DeadLetter, Errors
<1>14. ASSUME NEW j \in Jobs, CancelJob(j)
       PROVE  TypeOK'
  <2> DEFINE hit == {k \in snap[j].found : IsLive(k)}
             st == Set(status, hit, "cancelled")
  <2>1. status' \in [Jobs -> Statuses]
    BY <1>14, SetType, ResolvedType DEF CancelJob, Statuses, Terminal
  <2>2. inbox' \in [Jobs -> [Messages -> Nat]]
    <3>1. hit \in SUBSET Jobs /\ "cancelled" \in Outcomes
      BY DEF Outcomes
    <3>2. Posted(hit, st, "cancelled") \in [Jobs -> [Messages -> Nat]]
      BY <3>1, PostedType
    <3> QED BY <1>14, <3>2 DEF CancelJob
  <2>3. snap' \in [Jobs -> [found : SUBSET Jobs, kin : SUBSET Jobs]]
    BY <1>14 DEF CancelJob, NoSnap
  <2>4. token' \in [Jobs -> Runs \cup {NoRun}] /\ lock' \in [Jobs -> {"none", "live", "expired"}]
    BY <1>14, SetType DEF CancelJob
  <2> QED BY <1>14, <2>1, <2>2, <2>3, <2>4 DEF CancelJob
<1>15. ASSUME NEW j \in Jobs, PauseJob(j) \/ ResumeJob(j) \/ RetryJob(j)
       PROVE  TypeOK'
  <2>1. CASE PauseJob(j)
    BY <2>1 DEF PauseJob, Statuses, Live
  <2>2. CASE ResumeJob(j)
    BY <2>2 DEF ResumeJob, Statuses, Live
  <2>3. CASE RetryJob(j)
    BY <2>3 DEF RetryJob, ResetTally, Statuses, Live, Errors
  <2> QED BY <1>15, <2>1, <2>2, <2>3
<1>16. ASSUME NEW gone \in SUBSET Jobs, RemoveJobs(gone)
       PROVE  TypeOK'
  BY <1>16, SetType, OrphanedType, NoMailType DEF RemoveJobs, Statuses, NoRow
<1>17. ASSUME NEW j \in Jobs, BeginCancel(j)
       PROVE  TypeOK'
  BY <1>17 DEF BeginCancel
<1> QED
  BY <1>1, <1>2, <1>3, <1>4, <1>5, <1>6, <1>7, <1>8, <1>9, <1>10, <1>11, <1>12,
     <1>13, <1>14, <1>15, <1>16, <1>17
  DEF Next, Submit, RunStep, Sweep, Operator, RemoveJob, HandleTimeouts, HandleWallClockTimeouts

\* Every reachable table is well typed.
THEOREM TypeCorrect == Spec => []TypeOK
<1>1. Init => TypeOK
  BY ConstantsAssumption DEF Init, TypeOK, Statuses, NoRow, Errors, NoMail, NoSnap
<1>2. QED
  BY <1>1, TypeStep, PTL DEF Spec

----------------------------------------------------------------------------
(* How a step moves one row. *)

Same(i)     == made'[i] = made[i] /\ started'[i] = started[i] /\ stalled'[i] = stalled[i]
Attempt(i)  == made'[i] = made[i] + 1 /\ started'[i] = started[i] /\ stalled'[i] = stalled[i]

\* The moves that leave the tallies alone.
Quiet(i) ==
  /\ Same(i)
  /\ \/ status'[i] = status[i] /\ error'[i] = error[i]
     \/ status[i] \in Terminal \cup {"active"} /\ status'[i] = "deleted"
     \/ status[i] = "absent" /\ status'[i] \in {"waiting", "delayed"}
     \/ status[i] = "active" /\ status'[i] = "completed"
     \/ status[i] \in Live /\ status'[i] \in (Live \ {"active"}) \cup {"cancelled"}
     \/ status[i] = "waiting-children" /\ status'[i] = "failed"

Claimed(i) ==
  /\ status[i] = "waiting" /\ status'[i] = "active"
  /\ made'[i] = made[i] /\ started'[i] = started[i] + 1 /\ stalled'[i] = stalled[i]

\* A failed attempt, or a deadline: one more attempt on the books.
Ended(i) ==
  /\ status[i] = "active" /\ Attempt(i) /\ error'[i] # "stalled"
  /\ \/ status'[i] \in {"dead", "deleted"}
     \/ status'[i] = "delayed" /\ ~ (made[i] + 1 >= MaxAttempts)

Stalls(i) ==
  /\ status[i] = "active"
  /\ started'[i] = started[i] /\ stalled'[i] = stalled[i] + 1
  /\ \/ status'[i] = "waiting" /\ made'[i] = made[i] /\ ~ (stalled[i] + 1 >= MaxStalled)
     \/ /\ status'[i] = "dead" /\ error'[i] = "stalled" /\ made'[i] = made[i] + 1
        /\ stalled[i] + 1 >= MaxStalled

Retried(i) ==
  /\ status[i] \in {"failed", "dead"} /\ status'[i] = "waiting"
  /\ made'[i] = 0 /\ started'[i] = 0 /\ stalled'[i] = 0

Moves(i) == Quiet(i) \/ Claimed(i) \/ Ended(i) \/ Stalls(i) \/ Retried(i)

\* Resolving a parent neither starts it nor kills it.
LEMMA ResolvedKeeps ==
  ASSUME NEW P, NEW st \in [Jobs -> Statuses], NEW par, NEW j \in Jobs
  PROVE  \/ Resolved(P, st, par)[j] = st[j]
         \/ st[j] = "waiting-children" /\ Resolved(P, st, par)[j] = "waiting"
BY DEF Resolved

\* The parent's side of a failure wakes or fails a waiting parent, and nothing else.
LEMMA FailPolicyKeeps ==
  ASSUME NEW c, NEW st \in [Jobs -> Statuses], NEW par, NEW j \in Jobs
  PROVE  \/ FailPolicy(c, st, par)[j] = st[j]
         \/ /\ st[j] = "waiting-children"
            /\ FailPolicy(c, st, par)[j] \in {"waiting", "failed"}
BY ResolvedKeeps DEF FailPolicy

\* Every statement of the queue moves every row in one of these five ways.
LEMMA StepMoves ==
  ASSUME TypeOK, [Next]_vars, NEW i \in Jobs
  PROVE  Moves(i)
<1>n. made[i] \in Nat /\ started[i] \in Nat /\ stalled[i] \in Nat
  BY DEF TypeOK
<1>s. /\ status \in [Jobs -> Statuses] /\ DOMAIN error = Jobs
      /\ made \in [Jobs -> Nat] /\ started \in [Jobs -> Nat] /\ stalled \in [Jobs -> Nat]
  BY DEF TypeOK
<1>1. CASE UNCHANGED vars
  BY <1>1 DEF vars, Moves, Quiet, Same
<1>2. ASSUME NEW j \in Jobs, NEW p \in Jobs \cup {NoJob}, NEW o \in Opts, Add(j, p, o)
      PROVE  Moves(i)
  <2>1. Same(i) /\ error'[i] = error[i]
    BY <1>2 DEF Add, tally, Same
  <2>2. CASE i = j
    <3>1. status[i] = "absent" /\ status'[i] \in {"waiting", "delayed"}
      BY <1>2, <1>s, <2>2 DEF Add
    <3> QED BY <2>1, <3>1 DEF Moves, Quiet
  <2>3. CASE i # j
    <3>1. \/ status'[i] = status[i]
          \/ status[i] \in {"waiting", "active", "delayed"} /\ status'[i] = "waiting-children"
      BY <1>2, <1>s, <2>3 DEF Add
    <3> QED BY <2>1, <3>1 DEF Moves, Quiet, Live
  <2> QED BY <2>2, <2>3
<1>3. ASSUME NEW o \in Opts, AddCoalesced(o)
      PROVE  Moves(i)
  BY <1>3 DEF AddCoalesced, tally, Moves, Quiet, Same
<1>4. ASSUME NEW r \in Runs, NEW j \in Jobs, Claim(r, j)
      PROVE  Moves(i)
  <2>1. CASE i = j
    <3>1. /\ status[i] = "waiting" /\ status'[i] = "active"
          /\ started'[i] = started[i] + 1 /\ made'[i] = made[i] /\ stalled'[i] = stalled[i]
      BY <1>4, <1>s, <2>1 DEF Claim
    <3> QED BY <3>1 DEF Moves, Claimed
  <2>2. CASE i # j
    BY <1>4, <1>s, <2>2 DEF Claim, Moves, Quiet, Same
  <2> QED BY <2>1, <2>2
<1>5. ASSUME NEW r \in Runs, RenewLock(r) \/ Abandon(r)
      PROVE  Moves(i)
  BY <1>5 DEF RenewLock, Abandon, tally, locks, Moves, Quiet, Same
<1>6. ASSUME NEW r \in Runs, CompleteJob(r)
      PROVE  Moves(i)
  <2> DEFINE j == run[r]
             st == [status EXCEPT ![j] = "completed"]
             gone == IF opt[j].removeOnComplete THEN {j} ELSE {}
  <2>1. st \in [Jobs -> Statuses]
    BY <1>s DEF Statuses, Terminal
  <2>2. \/ status'[i] = Resolved({parent[j]}, st, parent)[i]
        \/ i = j /\ status'[i] = "deleted"
    <3>1. Resolved({parent[j]}, st, parent) \in [Jobs -> Statuses]
      BY <2>1, ResolvedType
    <3>2. status' = Set(Resolved({parent[j]}, st, parent), gone, "deleted")
      BY <1>6 DEF CompleteJob
    <3> QED BY <3>1, <3>2 DEF Set
  <2>3. st[i] = status[i] \/ (status[i] = "active" /\ st[i] = "completed")
    BY <1>6, <1>s DEF CompleteJob, Holds
  <2>4. Same(i) /\ error'[i] = error[i] /\ (i = j => status[i] = "active")
    BY <1>6 DEF CompleteJob, tally, Same, Holds
  <2> HIDE DEF st, j, gone
  <2>5. \/ status'[i] = st[i]
        \/ status[i] = "active" /\ status'[i] = "deleted"
        \/ st[i] = "waiting-children" /\ status'[i] = "waiting"
    BY <2>1, <2>2, <2>4, ResolvedKeeps
  <2>6. \/ status'[i] = status[i]
        \/ status[i] = "active" /\ status'[i] \in {"completed", "deleted"}
        \/ status[i] = "waiting-children" /\ status'[i] = "waiting"
    BY <2>3, <2>5
  <2> QED BY <2>4, <2>6 DEF Moves, Quiet, Live
<1>7. ASSUME NEW r \in Runs, NEW u \in BOOLEAN,
             NEW why \in {"handler", "aborted: timeout"}, FailJob(r, u, why)
      PROVE  Moves(i)
  <2> DEFINE j == run[r]
             new == IF u \/ Exhausted(j) THEN "dead" ELSE "delayed"
             st == [status EXCEPT ![j] = new]
             par == IF opt[j].onChildFail = "remove_dep" /\ new = "dead"
                    THEN [parent EXCEPT ![j] = NoJob] ELSE parent
             st2 == IF new = "dead" THEN FailPolicy(j, st, par) ELSE st
             gone == IF opt[j].removeOnFail /\ new = "dead" THEN {j} ELSE {}
  <2>a. j \in Jobs /\ status[j] = "active"
    <3>1. run[r] # NoJob /\ status[run[r]] = "active"
      BY <1>7 DEF FailJob, Holds
    <3>2. run \in [Runs -> Jobs \cup {NoJob}]
      BY DEF TypeOK
    <3> QED BY <3>1, <3>2
  <2>1. st \in [Jobs -> Statuses] /\ j \in Jobs /\ status[j] = "active"
    BY <1>s, <2>a DEF Statuses, Terminal, Live
  <2>2. status'[i] = st2[i] \/ (i = j /\ status'[i] = "deleted")
    <3>1. st2 \in [Jobs -> Statuses]
      BY <2>1, FailPolicyType
    <3>2. status' = Set(st2, gone, "deleted")
      BY <1>7 DEF FailJob
    <3> QED BY <3>1, <3>2 DEF Set
  <2>4. /\ made' = [made EXCEPT ![j] = @ + 1]
        /\ started' = started /\ stalled' = stalled
        /\ error' = [k \in Jobs |-> IF k = j THEN why
                                    ELSE IF st2[k] # st[k] /\ st2[k] = "failed"
                                    THEN "child failed" ELSE error[k]]
    BY <1>7 DEF FailJob
  <2>n. /\ new = "dead" \/ (new = "delayed" /\ ~ (made[j] + 1 >= MaxAttempts))
        /\ st = [status EXCEPT ![j] = new]
    BY DEF Exhausted
  <2> HIDE DEF st, par, new, j, gone
  <2>3. st2[i] = st[i] \/ (st[i] = "waiting-children" /\ st2[i] \in {"waiting", "failed"})
    <3>1. CASE new = "dead"
      <4>1. st2 = FailPolicy(j, st, par)
        BY <3>1
      <4>2. \/ FailPolicy(j, st, par)[i] = st[i]
            \/ /\ st[i] = "waiting-children"
               /\ FailPolicy(j, st, par)[i] \in {"waiting", "failed"}
        BY <2>1, FailPolicyKeeps
      <4> HIDE DEF st2
      <4> QED BY <4>1, <4>2
    <3>2. CASE new # "dead"
      BY <3>2
    <3> QED BY <3>1, <3>2
  <2> HIDE DEF st2
  <2>5. CASE i = j
    <3>1. st[i] = new
      BY <1>s, <2>1, <2>5, <2>n
    <3>2. made'[i] = made[i] + 1
      BY <1>s, <2>1, <2>4, <2>5
    <3>e. error'[i] # "stalled"
      BY <2>4, <2>5
    <3>3. status'[i] \in {"dead", "deleted"} \/ (status'[i] = "delayed" /\ new = "delayed")
      BY <2>2, <2>3, <2>n, <3>1
    <3>4. status[i] = "active" /\ started'[i] = started[i] /\ stalled'[i] = stalled[i]
      BY <2>1, <2>4, <2>5
    <3>5. new = "delayed" => ~ (made[i] + 1 >= MaxAttempts)
      BY <2>5, <2>n
    <3> QED BY <3>2, <3>e, <3>3, <3>4, <3>5 DEF Moves, Ended, Attempt
  <2>6. CASE i # j
    <3>1. st[i] = status[i] /\ Same(i)
      BY <1>s, <2>1, <2>4, <2>6, <2>n DEF Same
    <3>2. error'[i] = error[i] \/ (st2[i] = "failed" /\ st2[i] # st[i])
      BY <2>4, <2>6
    <3>3. \/ status'[i] = status[i] /\ error'[i] = error[i]
          \/ status[i] = "waiting-children" /\ status'[i] \in {"waiting", "failed"}
      BY <2>2, <2>3, <2>6, <3>1, <3>2
    <3> QED BY <3>1, <3>3 DEF Moves, Quiet, Live
  <2> QED BY <2>5, <2>6
<1>8. ASSUME NEW r \in Runs, ReleaseLeaseFullJob(r)
      PROVE  Moves(i)
  <2>1. Same(i)
    BY <1>8 DEF ReleaseLeaseFullJob, tally, Same
  <2>2. \/ status[i] = "active" /\ status'[i] = "delayed"
        \/ status'[i] = status[i] /\ error'[i] = error[i]
    BY <1>8, <1>s DEF ReleaseLeaseFullJob, Holds
  <2> QED BY <2>1, <2>2 DEF Moves, Quiet, Live
<1>9. ASSUME NEW j \in Jobs, LockExpires(j)
      PROVE  Moves(i)
  BY <1>9 DEF LockExpires, tally, Moves, Quiet, Same
<1>10. ASSUME NEW due \in SUBSET Jobs, PromoteDelayed(due)
       PROVE  Moves(i)
  <2>1. Same(i) /\ error'[i] = error[i]
    BY <1>10 DEF PromoteDelayed, tally, Same
  <2>2. \/ status[i] = "delayed" /\ status'[i] = "waiting"
        \/ status'[i] = status[i]
    BY <1>10, <1>s DEF PromoteDelayed, Set
  <2> QED BY <2>1, <2>2 DEF Moves, Quiet, Live
<1>11. ASSUME NEW due \in SUBSET Jobs, HandleStalled(due)
       PROVE  Moves(i)
  <2>1. CASE i \in due
    <3>1. /\ status[i] = "active" /\ stalled'[i] = stalled[i] + 1 /\ started'[i] = started[i]
          /\ \/ /\ status'[i] = "waiting" /\ made'[i] = made[i]
                /\ ~ (stalled[i] + 1 >= MaxStalled)
             \/ /\ status'[i] = "dead" /\ error'[i] = "stalled" /\ made'[i] = made[i] + 1
                /\ stalled[i] + 1 >= MaxStalled
      BY <1>11, <1>s, <2>1 DEF HandleStalled, Set, Bump
    <3> QED BY <3>1 DEF Moves, Stalls
  <2>2. CASE i \notin due
    BY <1>11, <1>s, <2>2 DEF HandleStalled, Set, Bump, Moves, Quiet, Same
  <2> QED BY <2>1, <2>2
<1>12. ASSUME NEW due \in SUBSET Jobs, NEW why \in {"timeout", "wall-clock"},
              \A j \in due : status[j] = "active", DeadLetter(due, why)
       PROVE  Moves(i)
  <2> DEFINE st == Set(status, due, "dead")
  <2>1. st \in [Jobs -> Statuses]
    BY <1>s, SetType DEF Statuses, Terminal
  <2>2. \/ status'[i] = st[i]
        \/ st[i] = "waiting-children" /\ status'[i] = "waiting"
    BY <1>12, <2>1, ResolvedKeeps DEF DeadLetter
  <2>e. /\ error' = Set(error, due, why) /\ made' = Bump(made, due)
        /\ started' = started /\ stalled' = stalled
    BY <1>12 DEF DeadLetter
  <2>3. CASE i \in due
    <3>1. status'[i] = "dead" /\ status[i] = "active"
      BY <1>12, <1>s, <2>2, <2>3 DEF Set
    <3>2. error'[i] # "stalled" /\ made'[i] = made[i] + 1
      BY <1>s, <2>e, <2>3 DEF Set, Bump
    <3> QED BY <2>e, <3>1, <3>2 DEF Moves, Ended, Attempt
  <2>4. CASE i \notin due
    <3>1. st[i] = status[i]
      BY <1>s, <2>4 DEF Set
    <3>2. Same(i) /\ error'[i] = error[i]
      BY <1>s, <2>e, <2>4 DEF Set, Bump, Same
    <3> QED BY <2>2, <3>1, <3>2 DEF Moves, Quiet, Live
  <2> QED BY <2>3, <2>4
<1>13. ASSUME NEW j \in Jobs, CancelJob(j)
       PROVE  Moves(i)
  <2> DEFINE hit == {k \in snap[j].found : IsLive(k)}
             st == Set(status, hit, "cancelled")
  <2>1. st \in [Jobs -> Statuses]
    BY <1>s, SetType DEF Statuses, Terminal
  <2>2. \/ status'[i] = st[i]
        \/ st[i] = "waiting-children" /\ status'[i] = "waiting"
    BY <1>13, <2>1, ResolvedKeeps DEF CancelJob
  <2>3. st[i] = status[i] \/ (status[i] \in Live /\ st[i] = "cancelled")
    BY <1>s DEF Set, IsLive
  <2>4. Same(i) /\ error'[i] = error[i]
    BY <1>13 DEF CancelJob, tally, Same
  <2> HIDE DEF st
  <2>5. \/ status'[i] = status[i]
        \/ status[i] \in Live /\ status'[i] \in {"cancelled", "waiting"}
    BY <2>2, <2>3 DEF Live
  <2> QED BY <2>4, <2>5 DEF Moves, Quiet, Live
<1>14. ASSUME NEW j \in Jobs, PauseJob(j) \/ ResumeJob(j)
       PROVE  Moves(i)
  <2>1. Same(i) /\ error'[i] = error[i]
    BY <1>14 DEF PauseJob, ResumeJob, tally, Same
  <2>2. \/ status'[i] = status[i]
        \/ status[i] \in Live /\ status'[i] \in {"paused", "waiting"}
    BY <1>14, <1>s DEF PauseJob, ResumeJob, Live
  <2> QED BY <2>1, <2>2 DEF Moves, Quiet, Live
<1>15. ASSUME NEW j \in Jobs, RetryJob(j)
       PROVE  Moves(i)
  <2>1. CASE i = j
    <3>1. /\ status[i] \in {"failed", "dead"} /\ status'[i] = "waiting"
          /\ made'[i] = 0 /\ started'[i] = 0 /\ stalled'[i] = 0
      BY <1>15, <1>s, <2>1 DEF RetryJob, ResetTally
    <3> QED BY <3>1 DEF Moves, Retried
  <2>2. CASE i # j
    BY <1>15, <1>s, <2>2 DEF RetryJob, ResetTally, Moves, Quiet, Same
  <2> QED BY <2>1, <2>2
<1>16. ASSUME NEW gone \in SUBSET Jobs, RemoveJobs(gone)
       PROVE  Moves(i)
  <2>1. \/ status'[i] = status[i]
        \/ status[i] \in Terminal /\ status'[i] = "deleted"
    BY <1>16, <1>s DEF RemoveJobs, Set
  <2>2. Same(i) /\ error'[i] = error[i]
    BY <1>16 DEF RemoveJobs, tally, Same
  <2> QED BY <2>1, <2>2 DEF Moves, Quiet
<1>17. ASSUME NEW j \in Jobs, BeginCancel(j)
       PROVE  Moves(i)
  BY <1>17 DEF BeginCancel, tally, Moves, Quiet, Same
<1> QED
  BY <1>1, <1>2, <1>3, <1>4, <1>5, <1>6, <1>7, <1>8, <1>9, <1>10, <1>11, <1>12,
     <1>13, <1>14, <1>15, <1>16, <1>17
  DEF Next, Submit, RunStep, Sweep, Operator, RemoveJob, HandleTimeouts, HandleWallClockTimeouts

----------------------------------------------------------------------------
(* The claim accounts, the budgets and the ends. *)

\* What the accounts say of one row.  ClaimsAccounted alone is not inductive: a
\* submission relies on the zeroes of a row that is still absent, and
\* made <= started needs a dead-letter by stalls to show at least that stall.
Settled(st, er, mk, sd, sl) ==
  st # "deleted" =>
  /\ mk + sl + (IF st = "active" THEN 1 ELSE 0)
       <= sd + (IF st = "dead" /\ er = "stalled" THEN 1 ELSE 0)
  /\ st = "dead" /\ er = "stalled" => sl >= 1

Budgeted(st, er, mk, sl) ==
  /\ mk <= MaxAttempts /\ sl <= MaxStalled
  /\ st \in Live \cup {"absent"} => mk < MaxAttempts /\ sl < MaxStalled
  /\ st = "dead" /\ er = "stalled" => sl = MaxStalled

AccountInv ==
  /\ TypeOK
  /\ \A j \in Jobs : Settled(status[j], error[j], made[j], started[j], stalled[j])
  /\ \A j \in Jobs : Budgeted(status[j], error[j], made[j], stalled[j])

\* No move leaves a row with an execution unaccounted.
LEMMA MoveSettles ==
  ASSUME TypeOK, NEW i \in Jobs, Moves(i),
         Settled(status[i], error[i], made[i], started[i], stalled[i])
  PROVE  Settled(status'[i], error'[i], made'[i], started'[i], stalled'[i])
<1>n. made[i] \in Nat /\ started[i] \in Nat /\ stalled[i] \in Nat
  BY DEF TypeOK
<1>1. CASE Quiet(i)
  BY <1>n, <1>1 DEF Quiet, Same, Settled, Live, Terminal
<1>2. CASE Claimed(i)
  BY <1>n, <1>2 DEF Claimed, Settled
<1>3. CASE Ended(i)
  BY <1>n, <1>3 DEF Ended, Attempt, Settled
<1>4. CASE Stalls(i)
  BY <1>n, <1>4 DEF Stalls, Settled
<1>5. CASE Retried(i)
  BY <1>n, <1>5 DEF Retried, Settled
<1> QED BY <1>1, <1>2, <1>3, <1>4, <1>5 DEF Moves

\* No move takes a row over its budget, and a move that spends the rest of it ends
\* the row.
LEMMA MoveBudgets ==
  ASSUME TypeOK, NEW i \in Jobs, Moves(i),
         Budgeted(status[i], error[i], made[i], stalled[i])
  PROVE  Budgeted(status'[i], error'[i], made'[i], stalled'[i])
<1>n. /\ made[i] \in Nat /\ started[i] \in Nat /\ stalled[i] \in Nat
      /\ MaxAttempts \in Nat \ {0} /\ MaxStalled \in Nat \ {0}
  BY ConstantsAssumption DEF TypeOK
<1>1. CASE Quiet(i)
  BY <1>n, <1>1 DEF Quiet, Same, Budgeted, Live, Terminal
<1>2. CASE Claimed(i)
  BY <1>n, <1>2 DEF Claimed, Budgeted, Live
<1>3. CASE Ended(i)
  BY <1>n, <1>3 DEF Ended, Attempt, Budgeted, Live
<1>4. CASE Stalls(i)
  BY <1>n, <1>4 DEF Stalls, Budgeted, Live
<1>5. CASE Retried(i)
  BY <1>n, <1>5 DEF Retried, Budgeted, Live
<1> QED BY <1>1, <1>2, <1>3, <1>4, <1>5 DEF Moves

\* The accounts are inductive.
LEMMA AccountStep == AccountInv /\ [Next]_vars => AccountInv'
<1> SUFFICES ASSUME AccountInv, [Next]_vars PROVE AccountInv'
  OBVIOUS
<1>1. TypeOK /\ TypeOK'
  BY TypeStep DEF AccountInv
<1>2. ASSUME NEW i \in Jobs
      PROVE  /\ Settled(status'[i], error'[i], made'[i], started'[i], stalled'[i])
             /\ Budgeted(status'[i], error'[i], made'[i], stalled'[i])
  <2>1. Moves(i)
    BY <1>1, StepMoves
  <2> QED BY <1>1, <2>1, MoveSettles, MoveBudgets DEF AccountInv
<1> QED BY <1>1, <1>2 DEF AccountInv

\* Every reachable table is accounted for.
LEMMA AccountHolds == Spec => []AccountInv
<1>1. Init => AccountInv
  <2>1. Init => TypeOK
    BY ConstantsAssumption DEF Init, TypeOK, Statuses, NoRow, Errors, NoMail, NoSnap
  <2> QED BY <2>1, ConstantsAssumption DEF Init, AccountInv, Settled, Budgeted
<1> QED BY <1>1, AccountStep, PTL DEF Spec

\* Every claim is paid for by one recorded end, whatever the interleaving of
\* runs, sweeps and operator commands.
THEOREM ClaimsAreAccounted == Spec => []ClaimsAccounted
<1>1. AccountInv => ClaimsAccounted
  BY DEF AccountInv, Settled, ClaimsAccounted, StalledOut, Exists, NoRow
<1> QED BY <1>1, AccountHolds, PTL

\* The CHECK constraint chk_attempts_order never rejects a statement.
THEOREM AttemptsStayOrdered == Spec => []AttemptsOrdered
<1>1. AccountInv => AttemptsOrdered
  <2> HAVE AccountInv
  <2>1. \A j \in Jobs : made[j] \in Nat /\ started[j] \in Nat /\ stalled[j] \in Nat
    BY DEF AccountInv, TypeOK
  <2> QED BY <2>1 DEF AccountInv, Settled, Exists, NoRow, AttemptsOrdered
<1> QED BY <1>1, AccountHolds, PTL

\* No interleaving of failures, sweeps and claims gives a job an execution beyond
\* its budget of attempts and stalls.
THEOREM BudgetsAreKept == Spec => []BudgetLeft
<1>1. AccountInv => BudgetLeft
  BY DEF AccountInv, Budgeted, BudgetLeft, IsLive, StalledOut
<1> QED BY <1>1, AccountHolds, PTL

\* An end is final: only a retry of a failed or dead job revives it, and with a new
\* budget.
THEOREM EndsStayFinal == Spec => EndsAreFinal
<1>1. ASSUME TypeOK, [Next]_vars, NEW j \in Jobs
      PROVE  /\ status[j] \in {"completed", "cancelled"} => status'[j] \in {status[j], "deleted"}
             /\ status[j] \in {"failed", "dead"} /\ status'[j] \in Live =>
                  made'[j] = 0 /\ started'[j] = 0 /\ stalled'[j] = 0
  <2>1. Moves(j)
    BY <1>1, StepMoves
  <2> QED BY <2>1 DEF Moves, Quiet, Claimed, Ended, Stalls, Retried, Live
<1>2. TypeOK /\ [Next]_vars =>
        [\A j \in Jobs :
           /\ status[j] \in {"completed", "cancelled"} => status'[j] \in {status[j], "deleted"}
           /\ status[j] \in {"failed", "dead"} /\ status'[j] \in Live =>
                made'[j] = 0 /\ started'[j] = 0 /\ stalled'[j] = 0]_vars
  BY <1>1
<1> QED BY <1>2, TypeCorrect, PTL DEF Spec, EndsAreFinal

----------------------------------------------------------------------------
(* The queue implements JobLifecycle. *)

\* A row that is active after a step was active under the same token, or was
\* claimed in this step with a token that no row had.
HolderKept(i) ==
  status'[i] = "active" =>
    \/ status[i] = "active" /\ token'[i] = token[i]
    \/ /\ status[i] = "waiting"
       /\ token'[i] \in Runs
       /\ \A k \in Jobs : token[k] # token'[i] /\ (k # i => token'[k] # token'[i])

LEMMA StepKeepsHolders ==
  ASSUME TypeOK, [Next]_vars, NEW i \in Jobs
  PROVE  HolderKept(i)
<1>m. Moves(i)
  BY StepMoves
<1>n. made[i] \in Nat /\ started[i] \in Nat /\ stalled[i] \in Nat
  BY DEF TypeOK
<1>s. /\ status \in [Jobs -> Statuses] /\ DOMAIN token = Jobs /\ DOMAIN started = Jobs
      /\ made \in [Jobs -> Nat] /\ stalled \in [Jobs -> Nat]
  BY DEF TypeOK
<1>k. ASSUME token'[i] = token[i], ~ Claimed(i)
      PROVE  HolderKept(i)
  BY <1>k, <1>m DEF Moves, Quiet, Ended, Stalls, Retried, HolderKept
<1>b. ASSUME made'[i] = made[i] + 1 \/ stalled'[i] = stalled[i] + 1
      PROVE  HolderKept(i)
  BY <1>b, <1>m, <1>n DEF Moves, Quiet, Same, Claimed, Ended, Stalls, Retried, HolderKept
<1>c. ASSUME started' = started
      PROVE  ~ Claimed(i)
  BY <1>c, <1>n DEF Claimed
<1>1. CASE UNCHANGED <<token, started>>
  BY <1>1, <1>k, <1>c
<1>2. ASSUME NEW r \in Runs, NEW j \in Jobs, Claim(r, j)
      PROVE  HolderKept(i)
  <2>1. CASE i = j
    <3>1. /\ status[i] = "waiting" /\ token'[i] = r
          /\ \A k \in Jobs : token[k] # r /\ (k # i => token'[k] = token[k])
      BY <1>2, <1>s, <2>1 DEF Claim
    <3> QED BY <3>1 DEF HolderKept
  <2>2. CASE i # j
    BY <1>2, <1>s, <2>2 DEF Claim, HolderKept
  <2> QED BY <2>1, <2>2
<1>3. ASSUME NEW r \in Runs, CompleteJob(r)
      PROVE  HolderKept(i)
  <2> DEFINE j == run[r]
             st == [status EXCEPT ![j] = "completed"]
             gone == IF opt[j].removeOnComplete THEN {j} ELSE {}
  <2>1. started' = started /\ token' = [token EXCEPT ![j] = NoRun]
    BY <1>3 DEF CompleteJob, tally
  <2>2. CASE i # j
    <3>1. token'[i] = token[i]
      BY <1>s, <2>1, <2>2
    <3> QED BY <1>c, <1>k, <2>1, <3>1
  <2>3. CASE i = j
    <3>1. st \in [Jobs -> Statuses] /\ st[i] = "completed"
      BY <1>s, <2>3 DEF Statuses, Terminal
    <3> HIDE DEF st
    <3>2. Resolved({parent[j]}, st, parent)[i] = "completed"
      BY <3>1, ResolvedKeeps
    <3>3. Resolved({parent[j]}, st, parent) \in [Jobs -> Statuses]
      BY <3>1, ResolvedType
    <3>4. status' = Set(Resolved({parent[j]}, st, parent), gone, "deleted")
      BY <1>3 DEF CompleteJob, st
    <3>5. status'[i] \in {"completed", "deleted"}
      BY <3>2, <3>3, <3>4 DEF Set
    <3> QED BY <3>5 DEF HolderKept
  <2> QED BY <2>2, <2>3
<1>4. ASSUME NEW r \in Runs, NEW u \in BOOLEAN,
             NEW why \in {"handler", "aborted: timeout"}, FailJob(r, u, why)
      PROVE  HolderKept(i)
  <2>1. /\ started' = started /\ made' = [made EXCEPT ![run[r]] = @ + 1]
        /\ token' = [token EXCEPT ![run[r]] = NoRun]
    BY <1>4 DEF FailJob
  <2>2. CASE i = run[r]
    <3>1. made' = [made EXCEPT ![i] = made[i] + 1]
      BY <2>1, <2>2
    <3>2. made'[i] = made[i] + 1
      BY <1>s, <3>1
    <3> QED BY <1>b, <3>2
  <2>3. CASE i # run[r]
    <3>1. token'[i] = token[i]
      BY <1>s, <2>1, <2>3
    <3> QED BY <1>c, <1>k, <2>1, <3>1
  <2> QED BY <2>2, <2>3
<1>5. ASSUME NEW r \in Runs, ReleaseLeaseFullJob(r)
      PROVE  HolderKept(i)
  <2>1. CASE i = run[r]
    BY <1>5, <1>s, <2>1 DEF ReleaseLeaseFullJob, HolderKept
  <2>2. CASE i # run[r]
    <3>1. token'[i] = token[i] /\ started' = started
      BY <1>5, <1>s, <2>2 DEF ReleaseLeaseFullJob, tally
    <3> QED BY <1>c, <1>k, <3>1
  <2> QED BY <2>1, <2>2
<1>6. ASSUME NEW due \in SUBSET Jobs, PromoteDelayed(due)
      PROVE  HolderKept(i)
  <2>1. CASE i \in due
    BY <1>6, <1>s, <2>1 DEF PromoteDelayed, Set, HolderKept
  <2>2. CASE i \notin due
    <3>1. started' = started /\ token'[i] = token[i]
      BY <1>6, <1>s, <2>2 DEF PromoteDelayed, Set, tally
    <3> QED BY <1>c, <1>k, <3>1
  <2> QED BY <2>1, <2>2
<1>7. ASSUME NEW due \in SUBSET Jobs,
             started' = started /\ token' = Set(token, due, NoRun),
             stalled' = Bump(stalled, due) \/ made' = Bump(made, due)
      PROVE  HolderKept(i)
  <2>1. CASE i \in due
    <3>1. made'[i] = made[i] + 1 \/ stalled'[i] = stalled[i] + 1
      BY <1>7, <1>s, <2>1 DEF Bump
    <3> QED BY <1>b, <3>1
  <2>2. CASE i \notin due
    <3>1. token'[i] = token[i]
      BY <1>7, <1>s, <2>2 DEF Set
    <3> QED BY <1>7, <1>c, <1>k, <3>1
  <2> QED BY <2>1, <2>2
<1>8. ASSUME NEW j \in Jobs, CancelJob(j)
      PROVE  HolderKept(i)
  <2> DEFINE hit == {k \in snap[j].found : IsLive(k)}
             st == Set(status, hit, "cancelled")
  <2>1. CASE i \in hit
    <3>1. st \in [Jobs -> Statuses] /\ st[i] = "cancelled"
      BY <1>s, <2>1, SetType DEF Statuses, Terminal, Set
    <3>2. status' = Resolved({parent[k] : k \in hit}, st, parent)
      BY <1>8 DEF CancelJob
    <3> HIDE DEF st, hit
    <3>3. status'[i] = "cancelled"
      BY <3>1, <3>2, ResolvedKeeps
    <3> QED BY <3>3 DEF HolderKept
  <2>2. CASE i \notin hit
    <3>1. started' = started /\ token'[i] = token[i]
      BY <1>8, <1>s, <2>2 DEF CancelJob, Set, tally
    <3> QED BY <1>c, <1>k, <3>1
  <2> QED BY <2>1, <2>2
<1>9. ASSUME NEW j \in Jobs, PauseJob(j) \/ ResumeJob(j) \/ RetryJob(j)
      PROVE  HolderKept(i)
  <2>1. CASE i = j
    BY <1>9, <1>s, <2>1 DEF PauseJob, ResumeJob, RetryJob, HolderKept
  <2>2. CASE i # j
    <3>1. token'[i] = token[i] /\ started'[i] = started[i]
      BY <1>9, <1>s, <2>2 DEF PauseJob, ResumeJob, RetryJob, ResetTally, tally
    <3>2. ~ Claimed(i)
      BY <1>n, <3>1 DEF Claimed
    <3> QED BY <1>k, <3>1, <3>2
  <2> QED BY <2>1, <2>2
<1> QED
  <2>1. \/ UNCHANGED <<token, started>>
        \/ \E r \in Runs, j \in Jobs : Claim(r, j)
        \/ \E r \in Runs : CompleteJob(r) \/ ReleaseLeaseFullJob(r)
        \/ \E r \in Runs, u \in BOOLEAN, why \in {"handler", "aborted: timeout"} :
              FailJob(r, u, why)
        \/ Sweep
        \/ Operator
    BY DEF Next, vars, Submit, RunStep, Add, AddCoalesced, RenewLock, Abandon,
           LockExpires, locks, tally
  <2>2. ASSUME Sweep
        PROVE  HolderKept(i)
    BY <2>2, <1>6, <1>7 DEF Sweep, HandleStalled, HandleTimeouts,
       HandleWallClockTimeouts, DeadLetter
  <2>3. ASSUME Operator
        PROVE  HolderKept(i)
    BY <2>3, <1>1, <1>8, <1>9 DEF Operator, BeginCancel, RemoveJob, RemoveJobs, locks, tally
  <2> QED BY <2>1, <2>2, <2>3, <1>1, <1>2, <1>3, <1>4, <1>5

\* The phase of a row, status by status.
LEMMA Phases ==
  /\ PhaseOf("absent") = "unborn" /\ PhaseOf("active") = "running"
  /\ \A st \in Live \ {"active"} : PhaseOf(st) = "queued"
  /\ PhaseOf("completed") = "won" /\ PhaseOf("cancelled") = "dropped"
  /\ PhaseOf("failed") = "lost" /\ PhaseOf("dead") = "lost"
  /\ PhaseOf("deleted") = "removed"
BY DEF PhaseOf, Live

\* Every step of the queue is a step of the abstract job, for each job.
LEMMA StepImplements ==
  ASSUME TypeOK, [Next]_vars, NEW i \in Jobs
  PROVE  Lifecycle!Step(i)
<1> DEFINE Phase == [j \in Jobs |-> PhaseOf(status[j])]
           Holder == [j \in Jobs |-> IF status[j] = "active" THEN token[j] ELSE NoRun]
<1>m. Moves(i) /\ HolderKept(i)
  BY StepMoves, StepKeepsHolders
<1>n. made[i] \in Nat /\ stalled[i] \in Nat /\ MaxAttempts \in Nat /\ MaxStalled \in Nat
  BY ConstantsAssumption DEF TypeOK
<1>p. /\ Phase[i] = PhaseOf(status[i]) /\ Phase'[i] = PhaseOf(status'[i])
      /\ status[i] # "active" => Holder[i] = NoRun
      /\ status[i] = "active" => Holder[i] = token[i]
      /\ status'[i] # "active" => Holder'[i] = NoRun
      /\ status'[i] = "active" => Holder'[i] = token'[i]
      /\ \A k \in Jobs : Holder[k] \in {token[k], NoRun} /\ Holder'[k] \in {token'[k], NoRun}
  OBVIOUS
<1>g. \A from, to : Lifecycle!Goes(i, from, to) <=>
        Phase[i] \in from /\ Phase'[i] \in to /\ Holder'[i] = NoRun
  BY DEF Lifecycle!Goes
<1>c. \A a, b : Lifecycle!Charge(i, a, b) <=>
        made'[i] = made[i] + a /\ stalled'[i] = stalled[i] + b
  BY DEF Lifecycle!Charge
<1>t. Lifecycle!Stays(i) <=>
        Phase'[i] = Phase[i] /\ Holder'[i] = Holder[i] /\ Lifecycle!Charge(i, 0, 0)
  BY DEF Lifecycle!Stays
<1>a. Lifecycle!Start(i) <=>
        /\ Phase[i] = "queued" /\ Phase'[i] = "running"
        /\ Holder'[i] \in Runs
        /\ \A k \in Jobs : Holder[k] # Holder'[i] /\ (k # i => Holder'[k] # Holder'[i])
        /\ Lifecycle!Charge(i, 0, 0)
  BY DEF Lifecycle!Start
<1> HIDE DEF Phase, Holder
<1>1. CASE Quiet(i)
  <2>1. Lifecycle!Charge(i, 0, 0)
    BY <1>1, <1>n, <1>c DEF Quiet, Same
  <2>2. CASE status'[i] = status[i]
    <3>1. Holder'[i] = Holder[i] /\ Phase'[i] = Phase[i]
      BY <1>m, <1>p, <2>2 DEF HolderKept
    <3> QED BY <1>t, <2>1, <3>1 DEF Lifecycle!Step
  <2>3. CASE status[i] \in Terminal \cup {"active"} /\ status'[i] = "deleted"
    <3>1. Holder'[i] = NoRun /\ Phase'[i] = "removed"
          /\ Phase[i] \in {"won", "lost", "dropped", "running"}
      BY <1>p, <2>3, Phases DEF Terminal
    <3>2. Lifecycle!Remove(i) \/ Lifecycle!Win(i)
      BY <1>g, <2>1, <3>1 DEF Lifecycle!Remove, Lifecycle!Win
    <3> QED BY <3>2 DEF Lifecycle!Step
  <2>4. CASE status[i] = "absent" /\ status'[i] \in {"waiting", "delayed"}
    <3>1. Phase[i] = "unborn" /\ Phase'[i] = "queued" /\ Holder'[i] = NoRun
      BY <1>p, <2>4, Phases DEF Live
    <3>2. Lifecycle!Enter(i)
      BY <1>g, <2>1, <3>1 DEF Lifecycle!Enter
    <3> QED BY <3>2 DEF Lifecycle!Step
  <2>5. CASE status[i] = "active" /\ status'[i] = "completed"
    <3>1. Phase[i] = "running" /\ Phase'[i] = "won" /\ Holder'[i] = NoRun
      BY <1>p, <2>5, Phases
    <3>2. Lifecycle!Win(i)
      BY <1>g, <2>1, <3>1 DEF Lifecycle!Win
    <3> QED BY <3>2 DEF Lifecycle!Step
  <2>6. CASE status[i] \in Live /\ status'[i] \in (Live \ {"active"}) \cup {"cancelled"}
    <3>1. /\ status[i] = "active" => Phase[i] = "running"
          /\ status[i] # "active" => Phase[i] = "queued" /\ Holder[i] = NoRun
          /\ Phase'[i] \in {"queued", "dropped"} /\ Holder'[i] = NoRun
      BY <1>p, <2>6, Phases DEF Live
    <3>2. Lifecycle!Stays(i) \/ Lifecycle!Release(i) \/ Lifecycle!Drop(i)
      BY <1>g, <1>t, <2>1, <3>1 DEF Lifecycle!Release, Lifecycle!Drop
    <3> QED BY <3>2 DEF Lifecycle!Step
  <2>7. CASE status[i] = "waiting-children" /\ status'[i] = "failed"
    <3>1. Phase[i] = "queued" /\ Phase'[i] = "lost" /\ Holder'[i] = NoRun
      BY <1>p, <2>7, Phases DEF Live
    <3>2. Lifecycle!Sink(i)
      BY <1>g, <2>1, <3>1 DEF Lifecycle!Sink
    <3> QED BY <3>2 DEF Lifecycle!Step
  <2> QED BY <1>1, <2>2, <2>3, <2>4, <2>5, <2>6, <2>7 DEF Quiet
<1>2. CASE Claimed(i)
  <2>1. Phase[i] = "queued" /\ Phase'[i] = "running" /\ Holder'[i] = token'[i]
    BY <1>2, <1>p, Phases DEF Claimed, Live
  <2>2. /\ token'[i] \in Runs
        /\ \A k \in Jobs : Holder[k] # token'[i] /\ (k # i => Holder'[k] # token'[i])
    BY <1>2, <1>m, <1>p, ConstantsAssumption DEF Claimed, HolderKept
  <2>3. Lifecycle!Charge(i, 0, 0)
    BY <1>2, <1>n, <1>c DEF Claimed
  <2>4. Lifecycle!Start(i)
    BY <1>a, <2>1, <2>2, <2>3
  <2> QED BY <2>4 DEF Lifecycle!Step
<1>3. CASE Ended(i)
  <2>1. /\ Phase[i] = "running" /\ Holder'[i] = NoRun
        /\ \/ Phase'[i] \in {"lost", "removed"}
           \/ Phase'[i] = "queued" /\ made'[i] < MaxAttempts
    BY <1>3, <1>n, <1>p, Phases DEF Ended, Attempt, Live
  <2>2. Lifecycle!Charge(i, 1, 0)
    BY <1>3, <1>n, <1>c DEF Ended, Attempt
  <2>3. Lifecycle!Lose(i) \/ Lifecycle!Retry(i)
    BY <1>g, <2>1, <2>2 DEF Lifecycle!Lose, Lifecycle!Retry
  <2> QED BY <2>3 DEF Lifecycle!Step
<1>4. CASE Stalls(i)
  <2>1. Phase[i] = "running" /\ Holder'[i] = NoRun
    BY <1>4, <1>p, Phases DEF Stalls
  <2>2. CASE /\ status'[i] = "waiting" /\ made'[i] = made[i]
             /\ ~ (stalled[i] + 1 >= MaxStalled)
    <3>1. Phase'[i] = "queued" /\ stalled'[i] < MaxStalled /\ Lifecycle!Charge(i, 0, 1)
      BY <1>4, <1>n, <1>p, <1>c, <2>2, Phases DEF Stalls, Live
    <3>2. Lifecycle!Requeue(i)
      BY <1>g, <2>1, <3>1 DEF Lifecycle!Requeue
    <3> QED BY <3>2 DEF Lifecycle!Step
  <2>3. CASE status'[i] = "dead" /\ made'[i] = made[i] + 1
    <3>1. Phase'[i] = "lost" /\ Lifecycle!Charge(i, 1, 1)
      BY <1>4, <1>n, <1>p, <1>c, <2>3, Phases DEF Stalls
    <3>2. Lifecycle!Strike(i)
      BY <1>g, <2>1, <3>1 DEF Lifecycle!Strike
    <3> QED BY <3>2 DEF Lifecycle!Step
  <2> QED BY <1>4, <2>2, <2>3 DEF Stalls
<1>5. CASE Retried(i)
  <2>1. Phase[i] = "lost" /\ Phase'[i] = "queued" /\ Holder'[i] = NoRun
    BY <1>5, <1>p, Phases DEF Retried, Live
  <2>2. Lifecycle!Revive(i)
    BY <1>5, <1>g, <2>1 DEF Retried, Lifecycle!Revive
  <2> QED BY <2>2 DEF Lifecycle!Step
<1> QED BY <1>m, <1>1, <1>2, <1>3, <1>4, <1>5 DEF Moves

\* The queue implements the abstract job: every behaviour of its statements, of its
\* sweeps and of its operators is one of JobLifecycle.
THEOREM QueueImplementsLifecycle == Spec => KeepsLifecycle
<1>1. Init => Lifecycle!Init
  BY Phases DEF Init, Lifecycle!Init
<1>2. TypeOK /\ [Next]_vars => [Lifecycle!Next]_(Lifecycle!vars)
  BY StepImplements DEF Lifecycle!Next
<1> QED BY <1>1, <1>2, TypeCorrect, PTL DEF Spec, KeepsLifecycle, Lifecycle!Spec

\* Every step of the abstract job keeps its promise.
LEMMA PromiseStep ==
  ASSUME Lifecycle!Promise, Lifecycle!Next
  PROVE  Lifecycle!Promise'
<1> DEFINE Phase == [j \in Jobs |-> PhaseOf(status[j])]
           Holder == [j \in Jobs |-> IF status[j] = "active" THEN token[j] ELSE NoRun]
           Fine(ph, ho, at, st) ==
             /\ ph = "running" => ho \in Runs
             /\ ph # "running" => ho = NoRun
             /\ at \in 0..MaxAttempts /\ st \in 0..MaxStalled
             /\ ph \in {"unborn", "queued", "running"} => at < MaxAttempts /\ st < MaxStalled
<1>c. MaxAttempts \in Nat \ {0} /\ MaxStalled \in Nat \ {0} /\ NoRun \notin Runs
  BY ConstantsAssumption
<1>p. ASSUME NEW j \in Jobs
      PROVE  /\ Lifecycle!Sound(j) <=> Fine(Phase[j], Holder[j], made[j], stalled[j])
             /\ Lifecycle!Sound(j)' <=> Fine(Phase'[j], Holder'[j], made'[j], stalled'[j])
  BY DEF Lifecycle!Sound
<1>q. ASSUME NEW j \in Jobs
      PROVE  /\ Lifecycle!Sound(j)
             /\ Holder[j] # NoRun => \A k \in Jobs \ {j} : Holder[k] # Holder[j]
  BY DEF Lifecycle!Promise
<1>m. ASSUME NEW j \in Jobs
      PROVE  /\ Lifecycle!Sound(j)'
             /\ \/ Holder'[j] \in {Holder[j], NoRun}
                \/ \A k \in Jobs \ {j} : Holder'[k] # Holder'[j]
  <2>s. Lifecycle!Step(j)
    BY DEF Lifecycle!Next
  <2>g. \A from, to : Lifecycle!Goes(j, from, to) <=>
          Phase[j] \in from /\ Phase'[j] \in to /\ Holder'[j] = NoRun
    BY DEF Lifecycle!Goes
  <2>c. \A a, b : Lifecycle!Charge(j, a, b) <=>
          made'[j] = made[j] + a /\ stalled'[j] = stalled[j] + b
    BY DEF Lifecycle!Charge
  <2>t. Lifecycle!Stays(j) <=>
          Phase'[j] = Phase[j] /\ Holder'[j] = Holder[j] /\ Lifecycle!Charge(j, 0, 0)
    BY DEF Lifecycle!Stays
  <2>a. Lifecycle!Start(j) <=>
          /\ Phase[j] = "queued" /\ Phase'[j] = "running"
          /\ Holder'[j] \in Runs
          /\ \A k \in Jobs : Holder[k] # Holder'[j] /\ (k # j => Holder'[k] # Holder'[j])
          /\ Lifecycle!Charge(j, 0, 0)
    BY DEF Lifecycle!Start
  <2> HIDE DEF Phase, Holder
  <2>1. Fine(Phase[j], Holder[j], made[j], stalled[j])
    BY <1>p, <1>q
  <2>p. Lifecycle!Sound(j)' <=> Fine(Phase'[j], Holder'[j], made'[j], stalled'[j])
    BY <1>p
  <2>2. Lifecycle!Charge(j, 0, 0) => made'[j] = made[j] /\ stalled'[j] = stalled[j]
    BY <1>c, <2>1, <2>c
  <2>3. CASE Lifecycle!Stays(j)
    BY <2>1, <2>2, <2>3, <2>p, <2>t
  <2>4. CASE Lifecycle!Start(j)
    BY <1>c, <2>1, <2>2, <2>4, <2>a, <2>p
  <2>5. CASE \/ Lifecycle!Enter(j) \/ Lifecycle!Release(j) \/ Lifecycle!Drop(j)
             \/ Lifecycle!Win(j) \/ Lifecycle!Remove(j) \/ Lifecycle!Sink(j)
    BY <2>1, <2>2, <2>5, <2>g, <2>p DEF Lifecycle!Enter, Lifecycle!Release, Lifecycle!Drop,
       Lifecycle!Win, Lifecycle!Remove, Lifecycle!Sink
  <2>6. CASE Lifecycle!Retry(j) \/ Lifecycle!Lose(j) \/ Lifecycle!Requeue(j) \/ Lifecycle!Strike(j)
    <3>1. /\ Phase[j] = "running" /\ Phase'[j] # "running" /\ Holder'[j] = NoRun
          /\ Phase'[j] = "queued" => made'[j] < MaxAttempts /\ stalled'[j] < MaxStalled
          /\ Phase'[j] # "unborn"
          /\ made'[j] \in {made[j], made[j] + 1} /\ stalled'[j] \in {stalled[j], stalled[j] + 1}
      BY <1>c, <2>1, <2>6, <2>c, <2>g DEF Lifecycle!Retry, Lifecycle!Lose,
         Lifecycle!Requeue, Lifecycle!Strike
    <3> QED BY <1>c, <2>1, <2>p, <3>1
  <2>7. CASE Lifecycle!Revive(j)
    BY <1>c, <2>7, <2>g, <2>p DEF Lifecycle!Revive
  <2> QED BY <2>s, <2>3, <2>4, <2>5, <2>6, <2>7 DEF Lifecycle!Step
<1> HIDE DEF Phase, Holder, Fine
<1>1. ASSUME NEW j \in Jobs, NEW k \in Jobs, j # k, Holder'[j] # NoRun
      PROVE  Holder'[k] # Holder'[j]
  BY <1>m, <1>q, <1>1
<1>2. (\A j \in Jobs : Holder'[j] # NoRun => \A k \in Jobs \ {j} : Holder'[k] # Holder'[j])
        /\ (\A j \in Jobs : Lifecycle!Sound(j)') => Lifecycle!Promise'
  BY DEF Lifecycle!Promise, Holder
<1> QED BY <1>1, <1>2, <1>m

\* A job is held exactly while it runs, by a run that holds no other, and no execution
\* is booked beyond its budget: JobLifecycle promises it, and so the queue keeps it.
THEOREM QueueKeepsPromise == Spec => []Lifecycle!Promise
<1>1. Lifecycle!Init => Lifecycle!Promise
  BY ConstantsAssumption DEF Lifecycle!Init, Lifecycle!Promise, Lifecycle!Sound
<1>2. Lifecycle!Promise /\ [Lifecycle!Next]_(Lifecycle!vars) => Lifecycle!Promise'
  <2>1. CASE UNCHANGED Lifecycle!vars
    BY <2>1 DEF Lifecycle!vars, Lifecycle!Promise, Lifecycle!Sound
  <2> QED BY <2>1, PromiseStep
<1>3. Lifecycle!Spec => []Lifecycle!Promise
  BY <1>1, <1>2, PTL DEF Lifecycle!Spec
<1> QED BY <1>3, QueueImplementsLifecycle DEF KeepsLifecycle

----------------------------------------------------------------------------
(* The token fence. *)

\* A run that lost its row, however it lost it, changes nothing when it ends.
THEOREM LostRunsAreFenced == Spec => LostRunsChangeNothing
<1>1. ASSUME TypeOK, [Next]_vars, NEW r \in Runs, run[r] # NoJob, run'[r] = NoJob, ~ Holds(r)
      PROVE  UNCHANGED <<status, parent, made, error, inbox>>
  <2>1. PICK q \in Runs : RunStep(q)
    BY <1>1 DEF Next, Submit, Sweep, Operator, vars, Add, AddCoalesced, LockExpires,
       PromoteDelayed, HandleStalled, HandleTimeouts, HandleWallClockTimeouts, DeadLetter,
       BeginCancel, CancelJob, PauseJob, ResumeJob, RetryJob, RemoveJob, RemoveJobs
  <2>2. CASE q = r
    BY <1>1, <2>1, <2>2 DEF RunStep, Claim, RenewLock, CompleteJob, FailJob,
       ReleaseLeaseFullJob, Abandon, tally
  <2>3. CASE q # r
    <3>1. run' = run \/ \E x \in Jobs \cup {NoJob} : run' = [run EXCEPT ![q] = x]
      <4>1. CASE \E j \in Jobs : Claim(q, j)
        BY <4>1 DEF Claim
      <4>2. CASE RenewLock(q)
        BY <4>2 DEF RenewLock
      <4>3. CASE CompleteJob(q)
        BY <4>3 DEF CompleteJob
      <4>4. CASE \E u \in BOOLEAN, why \in {"handler", "aborted: timeout"} : FailJob(q, u, why)
        BY <4>4 DEF FailJob
      <4>5. CASE ReleaseLeaseFullJob(q) \/ Abandon(q)
        BY <4>5 DEF ReleaseLeaseFullJob, Abandon
      <4> QED BY <2>1, <4>1, <4>2, <4>3, <4>4, <4>5 DEF RunStep
    <3>2. run \in [Runs -> Jobs \cup {NoJob}]
      BY <1>1 DEF TypeOK
    <3>3. run'[r] = run[r]
      BY <2>3, <3>1, <3>2
    <3> QED BY <1>1, <3>3
  <2> QED BY <2>2, <2>3
<1>2. TypeOK /\ [Next]_vars =>
        [\A r \in Runs :
           /\ run[r] # NoJob /\ run'[r] = NoJob
           /\ ~ (status[run[r]] = "active" /\ token[run[r]] = r)
           => UNCHANGED <<status, parent, made, error, inbox>>]_vars
  BY <1>1 DEF Holds
<1> QED BY <1>2, TypeCorrect, PTL DEF Spec, LostRunsChangeNothing

----------------------------------------------------------------------------
(* The join: a parent waits for its children. *)

\* The commands that move a row whatever its children do.
JoinSetting == Events \cap {"pause", "retry"} = {}

Runnable == {"waiting", "active", "delayed"}

\* Foreign keys: a parent is a row.
ParentsExist == \A c, p \in Jobs : parent[c] = p => status[p] # "absent"

JoinInv == TypeOK /\ ParentsExist /\ ParentWaits

\* What a step may do to the join of p, unless it adds a child.
JoinKept(p) ==
  /\ \A c \in Jobs : parent'[c] = p /\ status'[c] \in Live => parent[c] = p /\ status[c] \in Live
  /\ \/ status'[p] \in Runnable => status[p] \in Runnable
     \/ \A c \in Jobs : ~ (parent'[c] = p /\ status'[c] \in Live)

\* Resolving wakes a parent only when no child is live, and ends or starts no row.
LEMMA ResolvedJoins ==
  ASSUME NEW P, NEW st \in [Jobs -> Statuses], NEW par, NEW p \in Jobs
  PROVE  /\ Resolved(P, st, par)[p] \in Live <=> st[p] \in Live
         /\ \/ Resolved(P, st, par)[p] = st[p]
            \/ \A c \in Jobs : ~ (par[c] = p /\ st[c] \in Live)
BY DEF Resolved, Live

\* The parent's side of a failure wakes a parent only when no child is live.
LEMMA FailPolicyJoins ==
  ASSUME NEW j, NEW st \in [Jobs -> Statuses], NEW par, NEW p \in Jobs
  PROVE  /\ FailPolicy(j, st, par)[p] \in Live => st[p] \in Live
         /\ \/ FailPolicy(j, st, par)[p] = st[p]
            \/ FailPolicy(j, st, par)[p] = "failed"
            \/ \A c \in Jobs : ~ (par[c] = p /\ st[c] \in Live)
<1>1. CASE opt[j].onChildFail = "fail_parent"
  <2>1. FailPolicy(j, st, par)[p] \in {st[p], "failed"}
    BY <1>1 DEF FailPolicy
  <2> QED BY <2>1 DEF Live
<1>2. CASE opt[j].onChildFail # "fail_parent"
  <2>1. FailPolicy(j, st, par) = Resolved({parent[j]}, st, par)
    BY <1>2 DEF FailPolicy
  <2> QED BY <2>1, ResolvedJoins
<1> QED BY <1>1, <1>2

\* A statement that first ends or requeues rows (st) and then resolves parents keeps
\* the join.
LEMMA ResolvingKeepsJoin ==
  ASSUME NEW p \in Jobs, NEW st, NEW par,
         \A i \in Jobs : st[i] \in Live => status[i] \in Live,
         st[p] \in Runnable => status[p] \in Runnable,
         \A c \in Jobs : parent'[c] = p => par[c] = p /\ parent[c] = p,
         \A i \in Jobs : status'[i] \in Live => st[i] \in Live,
         \/ status'[p] \in {st[p], "failed", "deleted"}
         \/ \A c \in Jobs : ~ (par[c] = p /\ st[c] \in Live)
  PROVE  JoinKept(p)
BY DEF JoinKept, Runnable

\* Every step but a submission keeps every join.
LEMMA StepKeepsJoins ==
  ASSUME JoinSetting, TypeOK, [Next]_vars, ~ Submit, NEW p \in Jobs
  PROVE  JoinKept(p)
<1>s. status \in [Jobs -> Statuses] /\ parent \in [Jobs -> Jobs \cup {NoJob}] /\ p # NoJob
  BY ConstantsAssumption DEF TypeOK
<1>1. CASE UNCHANGED vars
  BY <1>1 DEF vars, JoinKept
<1>2. ASSUME NEW r \in Runs, NEW j \in Jobs, Claim(r, j)
      PROVE  JoinKept(p)
  BY <1>2, <1>s DEF Claim, JoinKept, Runnable, Live
<1>3. ASSUME NEW r \in Runs, RenewLock(r) \/ Abandon(r)
      PROVE  JoinKept(p)
  BY <1>3 DEF RenewLock, Abandon, JoinKept
<1>4. ASSUME NEW r \in Runs, CompleteJob(r)
      PROVE  JoinKept(p)
  <2> DEFINE j == run[r]
             st == [status EXCEPT ![j] = "completed"]
             gone == IF opt[j].removeOnComplete THEN {j} ELSE {}
             res == Resolved({parent[j]}, st, parent)
  <2>1. st \in [Jobs -> Statuses]
    BY <1>s DEF Statuses, Terminal
  <2>2. res \in [Jobs -> Statuses]
    BY <2>1, ResolvedType
  <2>3. \A i \in Jobs : status'[i] \in {res[i], "deleted"}
    <3>1. status' = Set(res, gone, "deleted")
      BY <1>4 DEF CompleteJob
    <3> QED BY <2>2, <3>1 DEF Set
  <2>4. \A i \in Jobs : st[i] \in {status[i], "completed"}
    BY <1>s
  <2>5. \A c \in Jobs : parent'[c] = p => parent[c] = p
    BY <1>4, <1>s DEF CompleteJob, Orphaned
  <2>6. /\ \A i \in Jobs : res[i] \in Live <=> st[i] \in Live
        /\ res[p] = st[p] \/ \A c \in Jobs : ~ (parent[c] = p /\ st[c] \in Live)
    <3> HIDE DEF st, j
    <3> QED BY <2>1, ResolvedJoins
  <2> HIDE DEF j, st, gone, res
  <2>7. \A i \in Jobs : st[i] \in Live => status[i] \in Live
    BY <2>4 DEF Live
  <2>8. st[p] \in Runnable => status[p] \in Runnable
    BY <2>4 DEF Runnable
  <2>9. \A i \in Jobs : status'[i] \in Live => st[i] \in Live
    BY <2>3, <2>6 DEF Live
  <2>10. \/ status'[p] \in {st[p], "failed", "deleted"}
         \/ \A c \in Jobs : ~ (parent[c] = p /\ st[c] \in Live)
    BY <2>3, <2>6
  <2> QED BY <2>5, <2>7, <2>8, <2>9, <2>10, ResolvingKeepsJoin
<1>5. ASSUME NEW r \in Runs, NEW u \in BOOLEAN,
             NEW why \in {"handler", "aborted: timeout"}, FailJob(r, u, why)
      PROVE  JoinKept(p)
  <2> DEFINE j == run[r]
             new == IF u \/ Exhausted(j) THEN "dead" ELSE "delayed"
             st == [status EXCEPT ![j] = new]
             par == IF opt[j].onChildFail = "remove_dep" /\ new = "dead"
                    THEN [parent EXCEPT ![j] = NoJob] ELSE parent
             st2 == IF new = "dead" THEN FailPolicy(j, st, par) ELSE st
             gone == IF opt[j].removeOnFail /\ new = "dead" THEN {j} ELSE {}
  <2>1. j \in Jobs /\ status[j] = "active"
    <3>1. run[r] # NoJob /\ status[run[r]] = "active"
      BY <1>5 DEF FailJob, Holds
    <3>2. run \in [Runs -> Jobs \cup {NoJob}]
      BY DEF TypeOK
    <3> QED BY <3>1, <3>2
  <2>2. st \in [Jobs -> Statuses]
    BY <1>s DEF Statuses, Terminal, Live
  <2>3. st2 \in [Jobs -> Statuses]
    BY <2>2, FailPolicyType
  <2>4. \A i \in Jobs : status'[i] \in {st2[i], "deleted"}
    <3>1. status' = Set(st2, gone, "deleted")
      BY <1>5 DEF FailJob
    <3> QED BY <2>3, <3>1 DEF Set
  <2>5. \A i \in Jobs : \/ st[i] = status[i]
                        \/ status[i] = "active" /\ st[i] \in {"dead", "delayed"}
    BY <1>s, <2>1
  <2>6. \A c \in Jobs : parent'[c] = p => par[c] = p /\ parent[c] = p
    <3>1. parent' = Orphaned(gone, par)
      BY <1>5 DEF FailJob
    <3>2. \A c \in Jobs : parent'[c] \in {par[c], NoJob}
      BY <3>1 DEF Orphaned
    <3>3. \A c \in Jobs : par[c] \in {parent[c], NoJob}
      BY <1>s
    <3> HIDE DEF par
    <3> QED BY <1>s, <3>2, <3>3
  <2>7. /\ \A i \in Jobs : st2[i] \in Live => st[i] \in Live
        /\ \/ st2[p] \in {st[p], "failed"}
           \/ \A c \in Jobs : ~ (par[c] = p /\ st[c] \in Live)
    <3> HIDE DEF st, par, j
    <3>1. CASE new = "dead"
      BY <2>2, <3>1, FailPolicyJoins
    <3>2. CASE new # "dead"
      BY <3>2
    <3> QED BY <3>1, <3>2
  <2> HIDE DEF j, new, st, par, st2, gone
  <2>8. \A i \in Jobs : st[i] \in Live => status[i] \in Live
    BY <2>5 DEF Live
  <2>9. st[p] \in Runnable => status[p] \in Runnable
    BY <2>5 DEF Runnable
  <2>10. \A i \in Jobs : status'[i] \in Live => st[i] \in Live
    BY <2>4, <2>7 DEF Live
  <2>11. \/ status'[p] \in {st[p], "failed", "deleted"}
         \/ \A c \in Jobs : ~ (par[c] = p /\ st[c] \in Live)
    BY <2>4, <2>7
  <2> QED BY <2>6, <2>8, <2>9, <2>10, <2>11, ResolvingKeepsJoin
<1>6. ASSUME NEW r \in Runs, ReleaseLeaseFullJob(r)
      PROVE  JoinKept(p)
  BY <1>6, <1>s DEF ReleaseLeaseFullJob, Holds, JoinKept, Runnable, Live
<1>7. ASSUME NEW j \in Jobs, LockExpires(j)
      PROVE  JoinKept(p)
  BY <1>7 DEF LockExpires, JoinKept
<1>8. ASSUME NEW due \in SUBSET Jobs, PromoteDelayed(due)
      PROVE  JoinKept(p)
  BY <1>8, <1>s DEF PromoteDelayed, Set, JoinKept, Runnable, Live
<1>9. ASSUME NEW due \in SUBSET Jobs, HandleStalled(due)
      PROVE  JoinKept(p)
  BY <1>9, <1>s DEF HandleStalled, Set, JoinKept, Runnable, Live
<1>10. ASSUME NEW due \in SUBSET Jobs, NEW why \in {"timeout", "wall-clock"},
              \A j \in due : status[j] = "active", DeadLetter(due, why)
       PROVE  JoinKept(p)
  <2> DEFINE st == Set(status, due, "dead")
             res == Resolved({parent[j] : j \in due}, st, parent)
  <2>1. st \in [Jobs -> Statuses]
    BY <1>s, SetType DEF Statuses, Terminal
  <2>2. status' = res /\ parent' = parent
    BY <1>10 DEF DeadLetter
  <2>3. \A i \in Jobs : st[i] \in {status[i], "dead"}
    BY <1>s DEF Set
  <2>4. /\ \A i \in Jobs : res[i] \in Live <=> st[i] \in Live
        /\ res[p] = st[p] \/ \A c \in Jobs : ~ (parent[c] = p /\ st[c] \in Live)
    <3> HIDE DEF st
    <3> QED BY <2>1, ResolvedJoins
  <2> HIDE DEF st, res
  <2>5. \A i \in Jobs : st[i] \in Live => status[i] \in Live
    BY <2>3 DEF Live
  <2>6. st[p] \in Runnable => status[p] \in Runnable
    BY <2>3 DEF Runnable
  <2> QED BY <2>2, <2>4, <2>5, <2>6, ResolvingKeepsJoin
<1>11. ASSUME NEW j \in Jobs, CancelJob(j)
       PROVE  JoinKept(p)
  <2> DEFINE hit == {k \in snap[j].found : IsLive(k)}
             st == Set(status, hit, "cancelled")
             res == Resolved({parent[k] : k \in hit}, st, parent)
  <2>1. st \in [Jobs -> Statuses]
    BY <1>s, SetType DEF Statuses, Terminal
  <2>2. status' = res /\ parent' = parent
    BY <1>11 DEF CancelJob
  <2>3. \A i \in Jobs : st[i] \in {status[i], "cancelled"}
    BY <1>s DEF Set
  <2>4. /\ \A i \in Jobs : res[i] \in Live <=> st[i] \in Live
        /\ res[p] = st[p] \/ \A c \in Jobs : ~ (parent[c] = p /\ st[c] \in Live)
    <3> HIDE DEF hit, st
    <3> QED BY <2>1, ResolvedJoins
  <2> HIDE DEF hit, st, res
  <2>5. \A i \in Jobs : st[i] \in Live => status[i] \in Live
    BY <2>3 DEF Live
  <2>6. st[p] \in Runnable => status[p] \in Runnable
    BY <2>3 DEF Runnable
  <2> QED BY <2>2, <2>4, <2>5, <2>6, ResolvingKeepsJoin
<1>12. ASSUME NEW gone \in SUBSET Jobs, RemoveJobs(gone)
       PROVE  JoinKept(p)
  <2>1. \A i \in Jobs : status'[i] \in {status[i], "deleted"}
    BY <1>12, <1>s DEF RemoveJobs, Set
  <2>2. \A c \in Jobs : parent'[c] \in {parent[c], NoJob}
    BY <1>12 DEF RemoveJobs, Orphaned
  <2>3. \A i \in Jobs : status'[i] \in Live => status[i] \in Live
    BY <2>1 DEF Live
  <2> QED BY <1>s, <2>1, <2>2, <2>3, ResolvingKeepsJoin
<1>13. ASSUME NEW j \in Jobs, BeginCancel(j)
       PROVE  JoinKept(p)
  BY <1>13 DEF BeginCancel, JoinKept
<1> QED
  BY <1>1, <1>2, <1>3, <1>4, <1>5, <1>6, <1>7, <1>8, <1>9, <1>10, <1>11, <1>12, <1>13
  DEF Next, RunStep, Sweep, Operator, RemoveJob, HandleTimeouts, HandleWallClockTimeouts, JoinSetting

\* A submission makes its parent wait, and its own row has no child yet.
LEMMA AddKeepsJoins ==
  ASSUME JoinInv, NEW j \in Jobs, NEW q \in Jobs \cup {NoJob}, NEW o \in Opts, Add(j, q, o)
  PROVE  ParentsExist' /\ ParentWaits'
<1>s. status \in [Jobs -> Statuses] /\ parent \in [Jobs -> Jobs \cup {NoJob}] /\ NoJob \notin Jobs
  BY ConstantsAssumption DEF JoinInv, TypeOK
<1>1. status[j] = "absent" /\ status'[j] \in {"delayed", "waiting"}
  BY <1>s DEF Add
<1>2. parent'[j] = q /\ \A c \in Jobs \ {j} : parent'[c] = parent[c]
  BY <1>s DEF Add
<1>3. q # NoJob => status[q] \notin NoRow
  BY DEF Add, MayInsert, Exists
<1>4. \A i \in Jobs \ {j} : IF i = q /\ status[i] \in Runnable
                            THEN status'[i] = "waiting-children" ELSE status'[i] = status[i]
  BY <1>s DEF Add, Runnable
<1>5. \A c \in Jobs : parent[c] # j
  BY <1>1 DEF JoinInv, ParentsExist
<1>6. q # j
  BY <1>s, <1>1, <1>3 DEF NoRow
<1>7. ASSUME NEW c \in Jobs, NEW p \in Jobs, parent'[c] = p
      PROVE  /\ status'[p] # "absent"
             /\ status'[c] \in Live => status'[p] \notin Runnable
  <2>1. p # j
    BY <1>2, <1>5, <1>6, <1>7
  <2>2. CASE c = j
    BY <1>s, <1>2, <1>3, <1>4, <1>7, <2>1, <2>2 DEF NoRow, Runnable
  <2>3. CASE c # j
    <3>1. parent[c] = p
      BY <1>2, <1>7, <2>3
    <3>2. status[p] # "absent" /\ (status[c] \in Live => status[p] \notin Runnable)
      BY <3>1 DEF JoinInv, ParentsExist, ParentWaits, IsLive, Runnable
    <3>3. status'[c] \in Live => status[c] \in Live
      BY <1>4, <2>3 DEF Live, Runnable
    <3> QED BY <1>4, <2>1, <3>2, <3>3 DEF Runnable
  <2> QED BY <2>2, <2>3
<1> QED BY <1>7 DEF ParentsExist, ParentWaits, IsLive, Runnable

\* Only a submission gives a row a parent.
LEMMA StepKeepsParents ==
  ASSUME TypeOK, [Next]_vars, ~ Submit, NEW c \in Jobs, NEW p \in Jobs, parent'[c] = p
  PROVE  parent[c] = p
<1>s. parent \in [Jobs -> Jobs \cup {NoJob}] /\ p # NoJob
  BY ConstantsAssumption DEF TypeOK
<1>1. CASE UNCHANGED parent
  BY <1>1
<1>2. ASSUME NEW gone, parent' = Orphaned(gone, parent)
      PROVE  parent[c] = p
  BY <1>2, <1>s DEF Orphaned
<1>3. ASSUME NEW r \in Runs, NEW u \in BOOLEAN,
             NEW why \in {"handler", "aborted: timeout"}, FailJob(r, u, why)
      PROVE  parent[c] = p
  <2>1. PICK gone, par : /\ parent' = Orphaned(gone, par)
                         /\ par = parent \/ par = [parent EXCEPT ![run[r]] = NoJob]
    BY <1>3 DEF FailJob
  <2> QED BY <1>s, <2>1 DEF Orphaned
<1>4. ASSUME NEW r \in Runs, RunStep(r)
      PROVE  parent[c] = p
  BY <1>1, <1>2, <1>3, <1>4
  DEF RunStep, Claim, RenewLock, CompleteJob, ReleaseLeaseFullJob, Abandon
<1>5. CASE Sweep
  BY <1>1, <1>5 DEF Sweep, PromoteDelayed, HandleStalled, HandleTimeouts,
     HandleWallClockTimeouts, DeadLetter
<1>6. CASE Operator
  BY <1>1, <1>2, <1>6 DEF Operator, BeginCancel, CancelJob, PauseJob, ResumeJob, RetryJob, RemoveJob, RemoveJobs
<1> QED BY <1>1, <1>4, <1>5, <1>6 DEF Next, LockExpires, vars

\* The join is inductive where no operator pauses or retries.
LEMMA JoinStep == JoinSetting /\ JoinInv /\ [Next]_vars => JoinInv'
<1> SUFFICES ASSUME JoinSetting, JoinInv, [Next]_vars PROVE JoinInv'
  OBVIOUS
<1>1. TypeOK /\ TypeOK'
  BY TypeStep DEF JoinInv
<1>2. CASE ~ Submit
  <2>1. ASSUME NEW c \in Jobs, NEW p \in Jobs, parent'[c] = p
        PROVE  status'[p] # "absent" /\ (IsLive(c)' => status'[p] \notin Runnable)
    <3>1. parent[c] = p
      BY <1>1, <1>2, <2>1, StepKeepsParents
    <3>2. status'[p] # "absent"
      BY <1>1, <3>1, StepMoves DEF JoinInv, ParentsExist, Moves, Quiet, Claimed, Ended, Stalls,
         Retried, Live
    <3>3. JoinKept(p)
      BY <1>1, <1>2, StepKeepsJoins
    <3> QED BY <2>1, <3>1, <3>2, <3>3 DEF JoinKept, JoinInv, ParentWaits, IsLive, Runnable
  <2> QED BY <1>1, <2>1 DEF JoinInv, ParentsExist, ParentWaits, IsLive, Runnable
<1>3. ASSUME NEW j \in Jobs, NEW q \in Jobs \cup {NoJob}, NEW o \in Opts, Add(j, q, o)
      PROVE  JoinInv'
  BY <1>1, <1>3, AddKeepsJoins DEF JoinInv
<1>4. ASSUME NEW o \in Opts, AddCoalesced(o)
      PROVE  JoinInv'
  BY <1>1, <1>4 DEF JoinInv, AddCoalesced, ParentsExist, ParentWaits, IsLive
<1> QED BY <1>2, <1>3, <1>4 DEF Submit

\* Where no operator pauses or retries, a parent with a live child is neither
\* queued nor running, whatever the interleaving of submissions, ends and sweeps.
THEOREM ParentsWait == JoinSetting => (Spec => []ParentWaits)
<1> SUFFICES ASSUME JoinSetting PROVE Spec => []ParentWaits
  OBVIOUS
<1>1. Init => JoinInv
  <2>1. Init => TypeOK
    BY ConstantsAssumption DEF Init, TypeOK, Statuses, NoRow, Errors, NoMail, NoSnap
  <2> QED BY <2>1, ConstantsAssumption
       DEF Init, JoinInv, ParentsExist, ParentWaits, IsLive, Live
<1>2. JoinInv => ParentWaits
  BY DEF JoinInv
<1>3. JoinInv /\ [Next]_vars => JoinInv'
  BY JoinStep
<1> QED BY <1>1, <1>2, <1>3, PTL DEF Spec

----------------------------------------------------------------------------
(* What a step does to the rows that have ended, and to those it ends. *)

\* A row that has ended, or does not exist, is touched only by a submission, a retry
\* or a removal.
LEMMA EndsStay ==
  ASSUME TypeOK, [Next]_vars, ~ Submit, NEW i \in Jobs, status[i] \notin Live
  PROVE  \/ status'[i] = status[i] /\ error'[i] = error[i]
         \/ /\ "retry" \in Events /\ status[i] \in {"failed", "dead"}
            /\ status'[i] = "waiting"
         \/ "remove" \in Events /\ status[i] \in Terminal /\ status'[i] = "deleted"
<1>s. status \in [Jobs -> Statuses]
  BY DEF TypeOK
<1>r. "retry" \in Events /\ Retried(i) => "retry" \in Events /\ status[i] \in {"failed", "dead"}
            /\ status'[i] = "waiting"
  BY DEF Retried
<1>e. ASSUME status'[i] = status[i]
      PROVE  status'[i] = status[i] /\ error'[i] = error[i]
  <2>1. Moves(i)
    BY StepMoves
  <2> QED BY <1>e, <2>1, <1>s DEF Moves, Quiet, Claimed, Ended, Stalls, Retried, Live, Terminal
<1>1. CASE UNCHANGED status
  BY <1>1, <1>e
<1>2. ASSUME NEW r \in Runs, NEW j \in Jobs, Claim(r, j)
      PROVE  status'[i] = status[i]
  BY <1>2, <1>s DEF Claim, Live
<1>3. ASSUME NEW st \in [Jobs -> Statuses], NEW P, NEW par, st[i] = status[i],
             status'[i] = Resolved(P, st, par)[i]
      PROVE  status'[i] = status[i]
  BY <1>3, ResolvedKeeps DEF Live
<1>4. ASSUME NEW r \in Runs, CompleteJob(r)
      PROVE  status'[i] = status[i]
  <2> DEFINE j == run[r]
             st == [status EXCEPT ![j] = "completed"]
             gone == IF opt[j].removeOnComplete THEN {j} ELSE {}
  <2>1. st \in [Jobs -> Statuses]
    BY <1>s DEF Statuses, Terminal
  <2>2. i # j
    BY <1>4 DEF CompleteJob, Holds, Live
  <2>3. st[i] = status[i]
    BY <1>s, <2>2
  <2>4. status'[i] = Resolved({parent[j]}, st, parent)[i]
    <3>1. Resolved({parent[j]}, st, parent) \in [Jobs -> Statuses]
      BY <2>1, ResolvedType
    <3>2. status' = Set(Resolved({parent[j]}, st, parent), gone, "deleted")
      BY <1>4 DEF CompleteJob
    <3> QED BY <2>2, <3>1, <3>2 DEF Set
  <2> QED BY <1>3, <2>1, <2>3, <2>4
<1>5. ASSUME NEW r \in Runs, NEW u \in BOOLEAN,
             NEW why \in {"handler", "aborted: timeout"}, FailJob(r, u, why)
      PROVE  status'[i] = status[i]
  <2> DEFINE j == run[r]
             new == IF u \/ Exhausted(j) THEN "dead" ELSE "delayed"
             st == [status EXCEPT ![j] = new]
             par == IF opt[j].onChildFail = "remove_dep" /\ new = "dead"
                    THEN [parent EXCEPT ![j] = NoJob] ELSE parent
             st2 == IF new = "dead" THEN FailPolicy(j, st, par) ELSE st
             gone == IF opt[j].removeOnFail /\ new = "dead" THEN {j} ELSE {}
  <2>1. st \in [Jobs -> Statuses]
    BY <1>s DEF Statuses, Terminal, Live
  <2>2. i # j
    BY <1>5 DEF FailJob, Holds, Live
  <2>3. st[i] = status[i]
    BY <1>s, <2>2
  <2>4. status'[i] = st2[i]
    <3>1. st2 \in [Jobs -> Statuses]
      BY <2>1, FailPolicyType
    <3>2. status' = Set(st2, gone, "deleted")
      BY <1>5 DEF FailJob
    <3> QED BY <2>2, <3>1, <3>2 DEF Set
  <2>5. st2[i] = st[i]
    <3> HIDE DEF st, par, new, j, gone
    <3>1. CASE new = "dead"
      <4>1. st2 = FailPolicy(j, st, par)
        BY <3>1
      <4>2. \/ FailPolicy(j, st, par)[i] = st[i]
            \/ /\ st[i] = "waiting-children"
               /\ FailPolicy(j, st, par)[i] \in {"waiting", "failed"}
        BY <2>1, FailPolicyKeeps
      <4> HIDE DEF st2
      <4> QED BY <2>3, <4>1, <4>2 DEF Live
    <3>2. CASE new # "dead"
      BY <3>2
    <3> QED BY <3>1, <3>2
  <2> QED BY <2>3, <2>4, <2>5
<1>6. ASSUME NEW r \in Runs, ReleaseLeaseFullJob(r)
      PROVE  status'[i] = status[i]
  BY <1>6, <1>s DEF ReleaseLeaseFullJob, Holds, Live
<1>7. ASSUME NEW due \in SUBSET Jobs, PromoteDelayed(due) \/ HandleStalled(due)
      PROVE  status'[i] = status[i]
  BY <1>7, <1>s DEF PromoteDelayed, HandleStalled, Set, Live
<1>8. ASSUME NEW due \in SUBSET Jobs, NEW end \in {"dead", "cancelled"}, NEW P,
             \A j \in due : status[j] \in Live,
             status' = Resolved(P, Set(status, due, end), parent)
      PROVE  status'[i] = status[i]
  <2> DEFINE st == Set(status, due, end)
  <2>1. st \in [Jobs -> Statuses]
    BY <1>s, SetType DEF Statuses, Terminal
  <2>2. st[i] = status[i]
    BY <1>8, <1>s DEF Set
  <2> HIDE DEF st
  <2> QED BY <1>3, <1>8, <2>1, <2>2 DEF st
<1>9. ASSUME NEW j \in Jobs, PauseJob(j) \/ ResumeJob(j)
      PROVE  status'[i] = status[i]
  BY <1>9, <1>s DEF PauseJob, ResumeJob, Live
<1>10. ASSUME NEW j \in Jobs, RetryJob(j)
       PROVE  \/ status'[i] = status[i]
              \/ status[i] \in {"failed", "dead"} /\ status'[i] = "waiting"
  BY <1>10, <1>s DEF RetryJob
<1>11. ASSUME NEW gone \in SUBSET Jobs, RemoveJobs(gone)
       PROVE  status'[i] = status[i] \/ (status[i] \in Terminal /\ status'[i] = "deleted")
  BY <1>11, <1>s DEF RemoveJobs, Set
<1>12. ASSUME NEW r \in Runs, RunStep(r)
       PROVE  status'[i] = status[i]
  BY <1>1, <1>2, <1>4, <1>5, <1>6, <1>12 DEF RunStep, RenewLock, Abandon
<1>13. CASE Sweep
  <2>1. ASSUME NEW due \in SUBSET Jobs, HandleTimeouts(due) \/ HandleWallClockTimeouts(due)
        PROVE  status'[i] = status[i]
    BY <2>1, <1>8 DEF HandleTimeouts, HandleWallClockTimeouts, DeadLetter, Live
  <2> QED BY <1>7, <1>13, <1>e, <2>1 DEF Sweep
<1>14. ASSUME NEW j \in Jobs, CancelJob(j)
       PROVE  status'[i] = status[i]
  <2>1. {k \in snap[j].found : IsLive(k)} \in SUBSET Jobs
    BY DEF TypeOK
  <2> QED BY <1>14, <1>8, <2>1 DEF CancelJob, IsLive
<1>15. CASE Operator
  BY <1>9, <1>10, <1>11, <1>14, <1>15, <1>e DEF Operator, BeginCancel, RemoveJob
<1> QED BY <1>1, <1>12, <1>13, <1>15, <1>e DEF Next, LockExpires, vars

----------------------------------------------------------------------------
(* How a step reports the rows it ends. *)

\* The errors of a failed attempt.
OwnErrors == {"handler", "aborted: timeout"}

\* The rows of due end with this outcome; every other row lives on, or ends in silence.
EndsShown(due, outcome) ==
  /\ \A c \in due :
       /\ status[c] \in Live /\ status'[c] \notin Live \cup {"absent", "failed"}
       /\ status'[c] \in Terminal => OutcomeOf(c)' = outcome /\ ~ StalledOut(c)'
  /\ \A c \in Jobs \ due :
       status[c] \in Live => status'[c] \in Live \cup {"failed"} \/ StalledOut(c)'

\* Their parents find one more message of each in the inbox, and no other.
Post(due, outcome, p, m) ==
  IF m.outcome = outcome /\ m.child \in due /\ parent[m.child] = p THEN 1 ELSE 0

Delivered(due, outcome) ==
  \A p \in Jobs : \A m \in Messages :
    /\ inbox'[p][m] <= inbox[p][m] + Post(due, outcome, p, m)
    /\ status'[p] \in Live => inbox'[p][m] = inbox[p][m] + Post(due, outcome, p, m)

\* A parent is left waiting only for a live child, and keeps the children that remain.
LeftWaiting(due) ==
  \A p \in Jobs : status'[p] = "waiting-children" =>
    /\ status[p] = "waiting-children"
    /\ \A c \in due : parent[c] = p => \E d \in Jobs : parent'[d] = p /\ status'[d] \in Live
    /\ \A c \in Jobs \ due : parent[c] = p => parent'[c] = p

\* A parent that waits for a child with fail_parent does not survive its failure.
FailsParent(due) ==
  \A c \in due :
    /\ status'[c] = "dead" /\ error'[c] \in OwnErrors /\ opt[c].onChildFail = "fail_parent"
    => \A p \in Jobs : parent[c] = p /\ status[p] = "waiting-children" => status'[p] \notin Live

\* Only the operator pauses a row.
PausedByOperator ==
  \A i \in Jobs : status'[i] = "paused" => status[i] = "paused" \/ "pause" \in Events

Reported(due, outcome) ==
  /\ EndsShown(due, outcome)
  /\ Delivered(due, outcome)
  /\ LeftWaiting(due)
  /\ FailsParent(due)
  /\ PausedByOperator

\* A statement that ends no row, or only in silence, reports nothing.
LEMMA SilentReports ==
  ASSUME TypeOK,
         \A i \in Jobs : status[i] \in Live => status'[i] \in Live \/ StalledOut(i)',
         \A p \in Jobs : inbox'[p] = inbox[p] \/ inbox'[p] = NoMail,
         \A p \in Jobs : status'[p] \in Live => inbox'[p] = inbox[p],
         \A p \in Jobs : status'[p] = "waiting-children" =>
           /\ status[p] = "waiting-children"
           /\ \A c \in Jobs : parent[c] = p => parent'[c] = p,
         PausedByOperator
  PROVE  Reported({}, "dead")
<1>1. ASSUME NEW p \in Jobs, NEW m \in Messages
      PROVE  /\ inbox[p][m] \in Nat /\ Post({}, "dead", p, m) = 0
             /\ inbox'[p][m] = inbox[p][m] \/ inbox'[p][m] = 0
  <2>1. inbox[p][m] \in Nat
    BY DEF TypeOK
  <2>2. NoMail[m] = 0 /\ Post({}, "dead", p, m) = 0
    BY DEF NoMail, Post
  <2> QED BY <2>1, <2>2
<1>2. Delivered({}, "dead")
  BY <1>1 DEF Delivered
<1> QED BY <1>2 DEF Reported, EndsShown, LeftWaiting, FailsParent

\* A statement that ends the rows of due (st), settles their parents (st2), detaches
\* them (par), deletes the rows that are not kept (gone), and posts to the inboxes.
Ending(due, outcome, st, st2, par, gone) ==
  /\ due \in SUBSET Jobs /\ outcome \in Outcomes /\ gone \in SUBSET due
  /\ st \in [Jobs -> Statuses] /\ st2 \in [Jobs -> Statuses]
  /\ par \in [Jobs -> Jobs \cup {NoJob}]
  /\ \A c \in due : status[c] \in Live /\ st[c] \in {"completed", "dead", "cancelled"}
  /\ \A i \in Jobs \ due : st[i] = status[i] /\ par[i] = parent[i]
  /\ \A c \in due : status'[c] = st[c] => OutcomeOf(c)' = outcome /\ ~ StalledOut(c)'
  /\ \A p \in Jobs : \/ st2[p] = st[p]
                     \/ st[p] = "waiting-children" /\ st2[p] \in {"waiting", "failed"}
  /\ \A p \in Jobs : st2[p] = "waiting-children" /\ (\E c \in due : parent[c] = p)
                       => \E d \in Jobs : par[d] = p /\ st2[d] \in Live
  /\ status' = Set(st2, gone, "deleted")
  /\ inbox' = Set(Posted(due, st, outcome), gone, NoMail)
  /\ parent' = Orphaned(gone, par)
  /\ FailsParent(due)

\* Such a statement reports every end.
LEMMA EndReports ==
  ASSUME TypeOK, NEW due, NEW outcome, NEW st, NEW st2, NEW par, NEW gone,
         Ending(due, outcome, st, st2, par, gone)
  PROVE  Reported(due, outcome)
<1> USE DEF Ending
<1>s. /\ status \in [Jobs -> Statuses] /\ parent \in [Jobs -> Jobs \cup {NoJob}]
      /\ inbox \in [Jobs -> [Messages -> Nat]]
      /\ NoJob \notin Jobs
  BY ConstantsAssumption DEF TypeOK
<1>1. \A i \in Jobs : status'[i] = IF i \in gone THEN "deleted" ELSE st2[i]
  BY DEF Set
<1>2. \A c \in due : st2[c] = st[c]
  OBVIOUS
<1>3. EndsShown(due, outcome)
  <2>1. ASSUME NEW c \in due
        PROVE  /\ status[c] \in Live /\ status'[c] \notin Live \cup {"absent", "failed"}
               /\ status'[c] \in Terminal => OutcomeOf(c)' = outcome /\ ~ StalledOut(c)'
    <3>1. status'[c] = st[c] \/ status'[c] = "deleted"
      BY <1>1, <1>2
    <3> QED BY <3>1 DEF Live, Terminal
  <2>2. ASSUME NEW c \in Jobs \ due, status[c] \in Live
        PROVE  status'[c] \in Live \cup {"failed"}
    BY <1>1, <2>2 DEF Live
  <2> QED BY <2>1, <2>2 DEF EndsShown
<1>4. Delivered(due, outcome)
  <2>1. ASSUME NEW p \in Jobs, NEW m \in Messages
        PROVE  /\ inbox'[p][m] <= inbox[p][m] + Post(due, outcome, p, m)
               /\ status'[p] \in Live => inbox'[p][m] = inbox[p][m] + Post(due, outcome, p, m)
    <3>1. inbox[p][m] \in Nat /\ Post(due, outcome, p, m) \in {0, 1}
      BY <1>s DEF Post
    <3>2. Posted(due, st, outcome)[p][m] =
            IF st[p] \in Live THEN inbox[p][m] + Post(due, outcome, p, m) ELSE inbox[p][m]
      BY <3>1 DEF Posted, Post
    <3>3. inbox'[p][m] = IF p \in gone THEN 0 ELSE Posted(due, st, outcome)[p][m]
      BY DEF Set, Posted, NoMail
    <3>4. status'[p] \in Live => st[p] \in Live /\ p \notin gone
      BY <1>1 DEF Live
    <3> QED BY <3>1, <3>2, <3>3, <3>4
  <2> QED BY <2>1 DEF Delivered
<1>5. LeftWaiting(due)
  <2>1. ASSUME NEW p \in Jobs, status'[p] = "waiting-children"
        PROVE  /\ status[p] = "waiting-children"
               /\ \A c \in due : parent[c] = p => \E d \in Jobs : parent'[d] = p /\ status'[d] \in Live
               /\ \A c \in Jobs \ due : parent[c] = p => parent'[c] = p
    <3>1. p \notin due /\ p \notin gone /\ st2[p] = "waiting-children"
      BY <1>1, <1>2, <2>1
    <3>2. \A i \in Jobs : par[i] = p => parent'[i] = p
      BY <1>s, <3>1 DEF Orphaned
    <3>3. \A i \in Jobs : st2[i] \in Live => status'[i] \in Live
      BY <1>1, <1>2 DEF Live
    <3> QED BY <3>1, <3>2, <3>3
  <2> QED BY <2>1 DEF LeftWaiting
<1>6. PausedByOperator
  <2>1. \A i \in Jobs : st2[i] = "paused" => status[i] = "paused"
    OBVIOUS
  <2> QED BY <1>1, <2>1 DEF PausedByOperator
<1> QED BY <1>3, <1>4, <1>5, <1>6 DEF Reported

\* Resolving leaves a parent waiting only for a live child.
LEMMA ResolvedWaits ==
  ASSUME NEW P, NEW st \in [Jobs -> Statuses], NEW par, NEW p \in P, p \in Jobs,
         Resolved(P, st, par)[p] = "waiting-children"
  PROVE  \E d \in Jobs : par[d] = p /\ Resolved(P, st, par)[d] \in Live
<1>1. PICK d \in Jobs : par[d] = p /\ st[d] \in Live
  BY DEF Resolved
<1> QED BY <1>1, ResolvedJoins

\* The sweeps and a cancellation end a set of rows, and report each of them.
LEMMA SweepReports ==
  ASSUME TypeOK, NEW due \in SUBSET Jobs, NEW outcome \in {"timeout", "cancelled"},
         NEW end \in {"dead", "cancelled"},
         \A c \in due : status[c] \in Live,
         status' = Resolved({parent[c] : c \in due}, Set(status, due, end), parent),
         inbox' = Posted(due, Set(status, due, end), outcome),
         parent' = parent,
         \/ end = "cancelled" /\ outcome = "cancelled"
         \/ /\ end = "dead" /\ outcome = "timeout"
            /\ \A c \in due : error'[c] \in {"timeout", "wall-clock"}
  PROVE  Reported(due, outcome)
<1> DEFINE st == Set(status, due, end)
           P == {parent[c] : c \in due}
           st2 == Resolved(P, st, parent)
           none == {}
<1>s. /\ status \in [Jobs -> Statuses] /\ parent \in [Jobs -> Jobs \cup {NoJob}]
      /\ NoJob \notin Jobs
  BY ConstantsAssumption DEF TypeOK
<1>1. st \in [Jobs -> Statuses]
  BY <1>s, SetType DEF Statuses, Terminal
<1>2. \A i \in Jobs : st[i] = IF i \in due THEN end ELSE status[i]
  BY <1>s DEF Set
<1>3. st2 \in [Jobs -> Statuses]
  BY <1>1, ResolvedType
<1>4. status' = st2 /\ inbox' = Posted(due, st, outcome)
  OBVIOUS
<1>5. status' = Set(st2, none, "deleted")
  BY <1>3, <1>4 DEF Set
<1>6. inbox' = Set(Posted(due, st, outcome), none, NoMail)
  BY <1>4 DEF Set, Posted
<1>7. parent' = Orphaned(none, parent)
  BY <1>s DEF Orphaned
<1>8. \A p \in Jobs : st2[p] = "waiting-children" /\ (\E c \in due : parent[c] = p)
         => \E d \in Jobs : parent[d] = p /\ st2[d] \in Live
  <2> HIDE DEF st
  <2>1. ASSUME NEW p \in Jobs, st2[p] = "waiting-children", NEW c \in due, parent[c] = p
        PROVE  \E d \in Jobs : parent[d] = p /\ st2[d] \in Live
    <3>1. p \in P
      BY <2>1
    <3> HIDE DEF P
    <3> QED BY <1>1, <2>1, <3>1, ResolvedWaits
  <2> QED BY <2>1
<1>9. \A p \in Jobs : \/ st2[p] = st[p]
                      \/ st[p] = "waiting-children" /\ st2[p] \in {"waiting", "failed"}
  <2> HIDE DEF st
  <2> QED BY <1>1, ResolvedKeeps
<1>10. \A c \in due : status'[c] = st[c] => OutcomeOf(c)' = outcome /\ ~ StalledOut(c)'
  <2>1. ASSUME NEW c \in due, status'[c] = end
        PROVE  OutcomeOf(c)' = outcome /\ ~ StalledOut(c)'
    BY <2>1 DEF OutcomeOf, StalledOut
  <2> QED BY <1>2, <2>1
<1>11. FailsParent(due)
  <2>1. \A c \in due : ~ (status'[c] = "dead" /\ error'[c] \in OwnErrors)
    <3>1. \A c \in due : status'[c] = end
      BY <1>2, <1>4, <1>9
    <3> QED BY <3>1 DEF OwnErrors
  <2> QED BY <2>1 DEF FailsParent
<1>12. outcome \in Outcomes /\ none \in SUBSET due
  BY DEF Outcomes
<1>13. \A c \in due : status[c] \in Live /\ st[c] \in {"completed", "dead", "cancelled"}
  BY <1>2
<1>14. \A i \in Jobs \ due : st[i] = status[i]
  BY SMTT(40), <1>2
<1> HIDE DEF st, st2, none, P
<1>15. Ending(due, outcome, st, st2, parent, none)
  BY <1>s, <1>1, <1>3, <1>5, <1>6, <1>7, <1>8, <1>9, <1>10, <1>11, <1>12, <1>13, <1>14 DEF Ending
<1> QED BY <1>15, EndReports

\* A completed job is reported to its parent.
LEMMA CompleteReports ==
  ASSUME TypeOK, NEW r \in Runs, CompleteJob(r)
  PROVE  Reported({run[r]}, "complete")
<1> DEFINE j == run[r]
           st == [status EXCEPT ![j] = "completed"]
           st2 == Resolved({parent[j]}, st, parent)
           gone == IF opt[j].removeOnComplete THEN {j} ELSE {}
           due == {j}
<1>s. /\ status \in [Jobs -> Statuses] /\ parent \in [Jobs -> Jobs \cup {NoJob}]
  BY DEF TypeOK
<1>j. j \in Jobs /\ status[j] = "active"
  <2>1. run[r] # NoJob /\ status[run[r]] = "active"
    BY DEF CompleteJob, Holds
  <2> QED BY <2>1 DEF TypeOK
<1>1. st \in [Jobs -> Statuses] /\ \A i \in Jobs : st[i] = IF i = j THEN "completed" ELSE status[i]
  BY <1>s DEF Statuses, Terminal
<1>2. st2 \in [Jobs -> Statuses]
  BY <1>1, ResolvedType
<1>3. /\ status' = Set(st2, gone, "deleted")
      /\ inbox' = Set(Posted(due, st, "complete"), gone, NoMail)
      /\ parent' = Orphaned(gone, parent)
  BY DEF CompleteJob
<1>4. \A p \in Jobs : \/ st2[p] = st[p]
                      \/ st[p] = "waiting-children" /\ st2[p] \in {"waiting", "failed"}
  <2> HIDE DEF st, j
  <2> QED BY <1>1, ResolvedKeeps
<1>5. \A p \in Jobs : st2[p] = "waiting-children" /\ (\E c \in due : parent[c] = p)
         => \E d \in Jobs : parent[d] = p /\ st2[d] \in Live
  <2>1. ASSUME NEW p \in Jobs, p = parent[j], st2[p] = "waiting-children"
        PROVE  \E d \in Jobs : parent[d] = p /\ st2[d] \in Live
    <3> HIDE DEF st, j
    <3> QED BY <1>1, <2>1, ResolvedWaits
  <2> QED BY <2>1
<1>6. \A c \in due : status'[c] = st[c] => OutcomeOf(c)' = "complete" /\ ~ StalledOut(c)'
  BY <1>1, <1>j DEF OutcomeOf, StalledOut
<1>7. FailsParent(due)
  <2>1. \A c \in due : status'[c] # "dead"
    <3>1. st[j] = "completed" /\ st2[j] \in {st[j], "failed", "waiting"}
      BY <1>1, <1>4, <1>j
    <3> HIDE DEF j, st, st2, gone
    <3>2. status'[j] \in {st2[j], "deleted"}
      BY <1>2, <1>3, <1>j DEF Set
    <3> QED BY <3>1, <3>2
  <2> QED BY <2>1 DEF FailsParent
<1>8. due \in SUBSET Jobs /\ gone \in SUBSET due /\ "complete" \in Outcomes
  BY <1>j DEF Outcomes
<1>9. \A c \in due : status[c] \in Live /\ st[c] \in {"completed", "dead", "cancelled"}
  BY <1>1, <1>j DEF Live
<1>10. \A i \in Jobs \ due : st[i] = status[i]
  BY <1>1
<1> HIDE DEF j, st, st2, gone, due
<1>11. Ending(due, "complete", st, st2, parent, gone)
  BY <1>s, <1>1, <1>2, <1>3, <1>4, <1>5, <1>6, <1>7, <1>8, <1>9, <1>10 DEF Ending
<1>12. Reported(due, "complete")
  BY <1>11, EndReports
<1> QED BY <1>12 DEF due, j

\* A job that dies is reported to its parent, which fails with it or is resolved; an
\* attempt that leaves retries is silent.
LEMMA FailReports ==
  ASSUME TypeOK, NEW r \in Runs, NEW u \in BOOLEAN, NEW why \in OwnErrors, FailJob(r, u, why)
  PROVE  Reported({run[r]}, "dead") \/ Reported({}, "dead")
<1> DEFINE j == run[r]
           new == IF u \/ Exhausted(j) THEN "dead" ELSE "delayed"
           st == [status EXCEPT ![j] = new]
           par == IF opt[j].onChildFail = "remove_dep" /\ new = "dead"
                  THEN [parent EXCEPT ![j] = NoJob] ELSE parent
           st2 == IF new = "dead" THEN FailPolicy(j, st, par) ELSE st
           gone == IF opt[j].removeOnFail /\ new = "dead" THEN {j} ELSE {}
           due == {j}
<1>s. /\ status \in [Jobs -> Statuses] /\ parent \in [Jobs -> Jobs \cup {NoJob}]
      /\ inbox \in [Jobs -> [Messages -> Nat]]
      /\ NoJob \notin Jobs /\ DOMAIN error = Jobs
  BY ConstantsAssumption DEF TypeOK
<1>j. j \in Jobs /\ status[j] = "active"
  <2>1. run[r] # NoJob /\ status[run[r]] = "active"
    BY DEF FailJob, Holds
  <2> QED BY <2>1 DEF TypeOK
<1>n. new \in {"dead", "delayed"}
  OBVIOUS
<1>1. st \in [Jobs -> Statuses] /\ \A i \in Jobs : st[i] = IF i = j THEN new ELSE status[i]
  <2> HIDE DEF new
  <2> QED BY <1>s, <1>n DEF Statuses, Terminal, Live
<1>2. /\ status' = Set(st2, gone, "deleted")
      /\ inbox' = Set(IF new = "dead" THEN Posted({j}, st, "dead") ELSE inbox, gone, NoMail)
      /\ parent' = Orphaned(gone, par)
      /\ error' = [k \in Jobs |-> IF k = j THEN why
                                  ELSE IF st2[k] # st[k] /\ st2[k] = "failed"
                                  THEN "child failed" ELSE error[k]]
  BY DEF FailJob
<1>3. CASE new = "delayed"
  <2>1. /\ status' = Set(st, {}, "deleted") /\ inbox' = Set(inbox, {}, NoMail)
        /\ parent' = Orphaned({}, parent)
    BY <1>2, <1>3
  <2> HIDE DEF st, new, j
  <2>2. status' = st /\ inbox' = inbox /\ parent' = parent
    BY <1>s, <1>1, <2>1 DEF Set, Orphaned
  <2>3. \A i \in Jobs : status[i] \in Live => status'[i] \in Live
    BY <1>1, <1>3, <2>2 DEF Live
  <2>4. \A p \in Jobs : status'[p] = "waiting-children" => status[p] = "waiting-children"
    BY <1>1, <1>3, <2>2
  <2>5. PausedByOperator
    BY <1>1, <1>3, <2>2 DEF PausedByOperator
  <2> QED BY <2>2, <2>3, <2>4, <2>5, SilentReports
<1>4. CASE new = "dead"
  <2>1. st2 = FailPolicy(j, st, par)
    BY <1>4
  <2>2. st2 \in [Jobs -> Statuses]
    <3> HIDE DEF st, par, new
    <3> QED BY <1>1, <1>4, FailPolicyType
  <2>3. \A p \in Jobs : \/ st2[p] = st[p]
                        \/ st[p] = "waiting-children" /\ st2[p] \in {"waiting", "failed"}
    <3> HIDE DEF st2, st, par, new, j, gone, due
    <3> QED BY <1>1, <2>1, FailPolicyKeeps
  <2>4. par \in [Jobs -> Jobs \cup {NoJob}] /\ \A i \in Jobs : i # j => par[i] = parent[i]
    BY <1>s
  <2>5. \A p \in Jobs :
          opt[j].onChildFail = "fail_parent" /\ p = parent[j] => st2[p] # "waiting-children"
    <3> HIDE DEF st, par, new, st2
    <3> QED BY <2>1 DEF FailPolicy
  <2>6. \A p \in Jobs : st2[p] = "waiting-children" /\ (\E c \in due : parent[c] = p)
           => \E d \in Jobs : par[d] = p /\ st2[d] \in Live
    <3>1. ASSUME NEW p \in Jobs, p = parent[j], st2[p] = "waiting-children"
          PROVE  \E d \in Jobs : par[d] = p /\ st2[d] \in Live
      <4> HIDE DEF st, par, new, st2
      <4>1. st2 = Resolved({parent[j]}, st, par)
        BY <2>1, <2>5, <3>1 DEF FailPolicy
      <4> QED BY <1>1, <3>1, <4>1, ResolvedWaits
    <3> QED BY <3>1
  <2>7. \A p \in Jobs : status'[p] \in {st2[p], "deleted"}
    <3> HIDE DEF st2, gone
    <3> QED BY <1>2, <2>2 DEF Set
  <2>8. error'[j] = why
    BY <1>2, <1>j
  <2>9. FailsParent(due)
    <3>1. ASSUME opt[j].onChildFail = "fail_parent", NEW p \in Jobs, parent[j] = p,
                 status[p] = "waiting-children"
          PROVE  status'[p] \notin Live
      <4>1. st[p] = "waiting-children" /\ st2[p] # "waiting-children"
        BY <1>1, <1>j, <2>5, <3>1
      <4>2. st2[p] = "failed"
        <5> HIDE DEF st, par, new, st2
        <5> QED BY <2>1, <3>1, <4>1 DEF FailPolicy
      <4> HIDE DEF st2
      <4> QED BY <2>7, <4>2 DEF Live
    <3> QED BY <3>1 DEF FailsParent
  <2>10. \A c \in due : status'[c] = st[c] => OutcomeOf(c)' = "dead" /\ ~ StalledOut(c)'
    <3>1. st[j] = "dead"
      BY <1>1, <1>j, <1>4
    <3> HIDE DEF st, par, new, st2, j
    <3> QED BY <2>8, <3>1 DEF OutcomeOf, StalledOut, OwnErrors
  <2>11. due \in SUBSET Jobs /\ gone \in SUBSET due /\ "dead" \in Outcomes
    BY <1>j DEF Outcomes
  <2>12. \A c \in due : status[c] \in Live /\ st[c] \in {"completed", "dead", "cancelled"}
    BY <1>1, <1>4, <1>j DEF Live
  <2>13. \A i \in Jobs \ due : st[i] = status[i] /\ par[i] = parent[i]
    BY <1>1, <2>4
  <2>14. inbox' = Set(Posted(due, st, "dead"), gone, NoMail)
    BY <1>2, <1>4
  <2> HIDE DEF j, new, st, par, st2, gone, due
  <2>15. Ending(due, "dead", st, st2, par, gone)
    BY <1>1, <1>2, <2>2, <2>3, <2>4, <2>6, <2>9, <2>10, <2>11, <2>12, <2>13, <2>14 DEF Ending
  <2>16. Reported(due, "dead")
    BY <2>15, EndReports
  <2> QED BY <2>16 DEF due, j
<1> QED BY <1>n, <1>3, <1>4

\* Every step but a submission reports the rows it ends, or ends them in silence; only
\* cancelJob reports a cancellation.
LEMMA StepReports ==
  ASSUME TypeOK, [Next]_vars, ~ Submit
  PROVE  \E due \in SUBSET Jobs, said \in Outcomes :
           Reported(due, said) /\ (said = "cancelled" => \E j \in Jobs : CancelJob(j))
<1> DEFINE Reports == \E due \in SUBSET Jobs, said \in Outcomes :
             Reported(due, said) /\ (said = "cancelled" => \E j \in Jobs : CancelJob(j))
<1>o. Outcomes = {"complete", "failed", "dead", "cancelled", "timeout"}
  BY DEF Outcomes
<1>s. status \in [Jobs -> Statuses] /\ parent \in [Jobs -> Jobs \cup {NoJob}] /\ NoJob \notin Jobs
  BY ConstantsAssumption DEF TypeOK
<1>1. ASSUME UNCHANGED <<inbox, parent>>,
             \A i \in Jobs : \/ status'[i] = status[i]
                             \/ /\ status[i] = "absent" \/ status[i] \in Terminal \/ status'[i] \in Live
                                /\ status'[i] # "waiting-children"
                                /\ status'[i] = "paused" => "pause" \in Events
                             \/ StalledOut(i)'
      PROVE  Reports
  <2>1. \A i \in Jobs : status[i] \in Live => status'[i] \in Live \/ StalledOut(i)'
    BY <1>1 DEF Live, Terminal
  <2>2. \A p \in Jobs : status'[p] = "waiting-children" => status[p] = "waiting-children"
    BY <1>1 DEF StalledOut
  <2>3. PausedByOperator
    BY <1>1 DEF PausedByOperator, StalledOut
  <2> QED BY <1>1, <2>1, <2>2, <2>3, <1>o, SilentReports
<1>2. CASE UNCHANGED <<status, parent, inbox>>
  BY <1>1, <1>2
<1>3. ASSUME NEW r \in Runs, NEW j \in Jobs, Claim(r, j)
      PROVE  Reports
  <2>1. \A i \in Jobs : status'[i] = status[i] \/ status'[i] = "active"
    BY <1>3, <1>s DEF Claim
  <2> QED BY <1>1, <1>3, <2>1 DEF Claim, Live
<1>4. ASSUME NEW r \in Runs, ReleaseLeaseFullJob(r)
      PROVE  Reports
  <2>1. \A i \in Jobs : status'[i] = status[i] \/ status'[i] = "delayed"
    BY <1>4, <1>s DEF ReleaseLeaseFullJob
  <2> QED BY <1>1, <1>4, <2>1 DEF ReleaseLeaseFullJob, Live
<1>5. ASSUME NEW due \in SUBSET Jobs, PromoteDelayed(due)
      PROVE  Reports
  <2>1. \A i \in Jobs : status'[i] = status[i] \/ status'[i] = "waiting"
    BY <1>5, <1>s DEF PromoteDelayed, Set
  <2> QED BY <1>1, <1>5, <2>1 DEF PromoteDelayed, Live
<1>6. ASSUME NEW due \in SUBSET Jobs, HandleStalled(due)
      PROVE  Reports
  <2> DEFINE spent == {j \in due : stalled[j] + 1 >= MaxStalled}
  <2>1. /\ status' = Set(Set(status, due, "waiting"), spent, "dead")
        /\ error' = Set(error, spent, "stalled")
        /\ inbox' = inbox /\ parent' = parent
    BY <1>6 DEF HandleStalled
  <2> HIDE DEF spent
  <2>2. \A i \in Jobs : \/ status'[i] = status[i] \/ status'[i] = "waiting"
                        \/ status'[i] = "dead" /\ error'[i] = "stalled"
    BY <1>s, <2>1 DEF Set, TypeOK
  <2> QED BY <1>1, <2>1, <2>2 DEF StalledOut, Live
<1>7. ASSUME NEW due \in SUBSET Jobs, HandleTimeouts(due) \/ HandleWallClockTimeouts(due)
      PROVE  Reports
  <2>1. PICK why \in {"timeout", "wall-clock"} : DeadLetter(due, why)
    BY <1>7 DEF HandleTimeouts, HandleWallClockTimeouts
  <2>2. \A j \in due : status[j] \in Live
    BY <1>7 DEF HandleTimeouts, HandleWallClockTimeouts, Live
  <2>3. \A c \in due : error'[c] \in {"timeout", "wall-clock"}
    BY <2>1 DEF DeadLetter, Set, TypeOK
  <2>4. /\ status' = Resolved({parent[j] : j \in due}, Set(status, due, "dead"), parent)
        /\ inbox' = Posted(due, Set(status, due, "dead"), "timeout")
        /\ parent' = parent
    BY <2>1 DEF DeadLetter
  <2>5. Reported(due, "timeout")
    BY <2>2, <2>3, <2>4, SweepReports
  <2> QED BY <1>o, <2>5
<1>8. ASSUME NEW j \in Jobs, CancelJob(j)
      PROVE  Reports
  <2> DEFINE hit == {k \in snap[j].found : IsLive(k)}
  <2>1. /\ status' = Resolved({parent[k] : k \in hit}, Set(status, hit, "cancelled"), parent)
        /\ inbox' = Posted(hit, Set(status, hit, "cancelled"), "cancelled")
        /\ parent' = parent
    BY <1>8 DEF CancelJob
  <2>2. hit \in SUBSET Jobs /\ \A c \in hit : status[c] \in Live
    BY DEF IsLive, TypeOK
  <2> HIDE DEF hit
  <2>3. Reported(hit, "cancelled")
    BY <2>1, <2>2, SweepReports
  <2> QED BY <1>o, <1>8, <2>2, <2>3
<1>9. ASSUME NEW j \in Jobs, "pause" \in Events, PauseJob(j) \/ ResumeJob(j)
      PROVE  Reports
  <2>1. \A i \in Jobs : status'[i] = status[i] \/ status'[i] \in {"paused", "waiting"}
    BY <1>9, <1>s DEF PauseJob, ResumeJob
  <2> QED BY <1>1, <1>9, <2>1 DEF PauseJob, ResumeJob, Live
<1>10. ASSUME NEW j \in Jobs, RetryJob(j)
       PROVE  Reports
  <2>1. \A i \in Jobs : status'[i] = status[i] \/ status'[i] = "waiting"
    BY <1>10, <1>s DEF RetryJob
  <2> QED BY <1>1, <1>10, <2>1 DEF RetryJob, Live
<1>11. ASSUME NEW gone \in SUBSET Jobs, RemoveJobs(gone)
       PROVE  Reports
  <2>1. /\ \A i \in Jobs : status'[i] = IF i \in gone THEN "deleted" ELSE status[i]
        /\ \A i \in gone : status[i] \in Terminal
        /\ \A p \in Jobs : inbox'[p] = IF p \in gone THEN NoMail ELSE inbox[p]
        /\ \A c \in Jobs : parent'[c] = IF parent[c] \in gone THEN NoJob ELSE parent[c]
    BY <1>11 DEF RemoveJobs, Set, Orphaned, TypeOK
  <2>2. \A i \in Jobs : status[i] \in Live => status'[i] \in Live
    BY <2>1 DEF Live, Terminal
  <2>3. \A p \in Jobs : status'[p] \in Live => p \notin gone
    BY <2>1 DEF Live
  <2>4. \A p \in Jobs : status'[p] = "waiting-children" => p \notin gone
    BY <2>1
  <2>5. PausedByOperator
    BY <2>1 DEF PausedByOperator
  <2> QED BY <2>1, <2>2, <2>3, <2>4, <2>5, <1>o, SilentReports
<1>12. ASSUME NEW r \in Runs, RunStep(r)
       PROVE  Reports
  <2>0. Holds(r) => run[r] \in Jobs
    BY DEF Holds, TypeOK
  <2>1. ASSUME NEW u \in BOOLEAN, NEW why \in {"handler", "aborted: timeout"}, FailJob(r, u, why)
        PROVE  Reports
    <3>1. Reported({run[r]}, "dead") \/ Reported({}, "dead")
      BY <2>1, FailReports DEF OwnErrors
    <3> QED BY <1>o, <2>0, <2>1, <3>1 DEF FailJob
  <2>2. CASE CompleteJob(r)
    <3>1. Reported({run[r]}, "complete")
      BY <2>2, CompleteReports
    <3> QED BY <1>o, <2>0, <2>2, <3>1 DEF CompleteJob
  <2>3. CASE RenewLock(r) \/ Abandon(r)
    BY <1>2, <2>3 DEF RenewLock, Abandon
  <2> QED BY <1>3, <1>4, <1>12, <2>1, <2>2, <2>3 DEF RunStep
<1>13. CASE Sweep
  BY <1>5, <1>6, <1>7, <1>13 DEF Sweep
<1>14. CASE Operator
  <2>1. ASSUME NEW j \in Jobs, BeginCancel(j)
        PROVE  Reports
    BY <1>2, <2>1 DEF BeginCancel
  <2> QED BY <1>8, <1>9, <1>10, <1>11, <1>14, <2>1 DEF Operator, RemoveJob
<1> QED BY <1>2, <1>12, <1>13, <1>14 DEF Next, LockExpires, vars

----------------------------------------------------------------------------
(* The inbox: what a parent is told of its children. *)

NoRetry == "retry" \notin Events

\* Only a submission writes the columns of a submission and the key.
LEMMA StepKeepsKeys ==
  ASSUME [Next]_vars, ~ Submit
  PROVE  UNCHANGED <<opt, key, depth>>
<1>1. ASSUME NEW r \in Runs, RunStep(r)
      PROVE  UNCHANGED <<opt, key, depth>>
  BY <1>1 DEF RunStep, Claim, RenewLock, CompleteJob, FailJob, ReleaseLeaseFullJob, Abandon, ids
<1>2. CASE Sweep
  BY <1>2 DEF Sweep, PromoteDelayed, HandleStalled, HandleTimeouts, HandleWallClockTimeouts,
     DeadLetter, ids
<1>3. CASE Operator
  BY <1>3 DEF Operator, BeginCancel, CancelJob, PauseJob, ResumeJob, RetryJob, RemoveJob, RemoveJobs, ids
<1> QED BY SMTT(40), <1>1, <1>2, <1>3 DEF Next, LockExpires, vars, ids

\* A submission touches a row without a child, and one that becomes a parent.
LEMMA AddShape ==
  ASSUME TypeOK, NEW j \in Jobs, NEW q \in Jobs \cup {NoJob}, NEW o \in Opts, Add(j, q, o)
  PROVE  /\ status[j] = "absent" /\ status'[j] \in {"waiting", "delayed"}
         /\ parent'[j] = q /\ q # j
         /\ q # NoJob => status[q] \notin NoRow
         /\ \A i \in Jobs \ {j} :
              /\ parent'[i] = parent[i]
              /\ status'[i] = IF i = q /\ status[i] \in Runnable THEN "waiting-children" ELSE status[i]
         /\ inbox' = inbox /\ error' = error
<1>1. status \in [Jobs -> Statuses] /\ parent \in [Jobs -> Jobs \cup {NoJob}] /\ NoJob \notin Jobs
  BY ConstantsAssumption DEF TypeOK
<1>2. status[j] = "absent" /\ status'[j] \in {"waiting", "delayed"}
  BY <1>1 DEF Add
<1>3. q # NoJob => status[q] \notin NoRow
  BY DEF Add, MayInsert, Exists
<1>4. q # j
  BY <1>1, <1>2, <1>3 DEF NoRow
<1>5. parent'[j] = q /\ inbox' = inbox /\ error' = error
  BY <1>1 DEF Add
<1>6. \A i \in Jobs \ {j} :
         /\ parent'[i] = parent[i]
         /\ status'[i] = IF i = q /\ status[i] \in Runnable THEN "waiting-children" ELSE status[i]
  BY <1>1 DEF Add, Runnable
<1> QED BY <1>2, <1>3, <1>4, <1>5, <1>6

\* A parent is a row that was inserted.
LEMMA ParentsStep ==
  ASSUME TypeOK, ParentsExist, [Next]_vars
  PROVE  ParentsExist'
<1>1. CASE ~ Submit
  <2>1. ASSUME NEW c \in Jobs, NEW p \in Jobs, parent'[c] = p
        PROVE  status'[p] # "absent"
    <3>1. parent[c] = p
      BY <1>1, <2>1, StepKeepsParents
    <3> QED BY <3>1, StepMoves DEF ParentsExist, Moves, Quiet, Claimed, Ended, Stalls, Retried, Live
  <2> QED BY <2>1 DEF ParentsExist
<1>2. ASSUME NEW j \in Jobs, NEW q \in Jobs \cup {NoJob}, NEW o \in Opts, Add(j, q, o)
      PROVE  ParentsExist'
  <2>1. ASSUME NEW c \in Jobs, NEW p \in Jobs, parent'[c] = p
        PROVE  status'[p] # "absent"
    <3>1. status[p] # "absent"
      <4>1. CASE c = j
        BY <1>2, <2>1, <4>1, AddShape, ConstantsAssumption DEF NoRow
      <4>2. CASE c # j
        BY <1>2, <2>1, <4>2, AddShape DEF ParentsExist
      <4> QED BY <4>1, <4>2
    <3>2. p # j /\ status'[p] \in {status[p], "waiting-children"}
      BY <1>2, <3>1, AddShape
    <3> QED BY <3>1, <3>2
  <2> QED BY <2>1 DEF ParentsExist
<1>3. ASSUME NEW o \in Opts, AddCoalesced(o)
      PROVE  ParentsExist'
  BY <1>3 DEF AddCoalesced, ParentsExist
<1> QED BY <1>1, <1>2, <1>3 DEF Submit

\* Without retry an ended row keeps its status and error until it is deleted.
LEMMA EndsKept ==
  ASSUME NoRetry, TypeOK, [Next]_vars, ~ Submit, NEW i \in Jobs, status[i] \notin Live
  PROVE  /\ status'[i] \notin Live
         /\ status[i] # "absent" => status'[i] # "absent"
         /\ status'[i] \in Terminal \/ status'[i] = "absent"
              => status'[i] = status[i] /\ error'[i] = error[i]
<1>1. \/ status'[i] = status[i] /\ error'[i] = error[i]
      \/ status[i] \in Terminal /\ status'[i] = "deleted"
  BY EndsStay DEF NoRetry
<1> QED BY <1>1 DEF Live, Terminal

\* The sender of a message was a row; its end is what the message says.
InboxInv ==
  /\ TypeOK /\ ParentsExist
  /\ InboxComplete
  /\ InboxTruthful
  /\ \A p \in Jobs : \A m \in Told(p) : status[m.child] # "absent"

\* The outcome a row shows depends on its status and error alone.
LEMMA OutcomeKept ==
  ASSUME NEW c \in Jobs, status'[c] = status[c], error'[c] = error[c]
  PROVE  OutcomeOf(c)' = OutcomeOf(c) /\ (StalledOut(c)' <=> StalledOut(c))
BY DEF OutcomeOf, StalledOut

\* A child is unlinked from its parent by remove_dep, or by the deletion of the parent,
\* whose inbox goes with it.
LEMMA StaysChildOf ==
  ASSUME NoRetry, TypeOK, [Next]_vars, ~ Submit, NEW c \in Jobs, NEW p \in Jobs, ChildOf(c, p)
  PROVE  ChildOf(c, p)' \/ inbox'[p] = NoMail
<1>s. /\ parent \in [Jobs -> Jobs \cup {NoJob}] /\ inbox \in [Jobs -> [Messages -> Nat]]
      /\ NoJob \notin Jobs
  BY ConstantsAssumption DEF TypeOK
<1>o. opt' = opt
  BY StepKeepsKeys
<1>1. ASSUME NEW gone \in SUBSET Jobs, NEW box \in [Jobs -> [Messages -> Nat]],
             NEW par \in [Jobs -> Jobs \cup {NoJob}],
             parent' = Orphaned(gone, par), inbox' = Set(box, gone, NoMail),
             \/ par[c] = parent[c]
             \/ par[c] = NoJob /\ opt[c].onChildFail = "remove_dep"
      PROVE  ChildOf(c, p)' \/ inbox'[p] = NoMail
  <2>1. CASE p \in gone
    BY <1>1, <2>1 DEF Set
  <2>2. CASE p \notin gone
    <3>1. parent'[c] = par[c] \/ (parent'[c] = NoJob /\ par[c] \in gone)
      BY <1>1 DEF Orphaned
    <3> QED BY <1>s, <1>o, <1>1, <2>2, <3>1 DEF ChildOf
  <2> QED BY <2>1, <2>2
<1>2. CASE parent' = parent
  BY <1>o, <1>2 DEF ChildOf
<1>3. ASSUME NEW r \in Runs, CompleteJob(r)
      PROVE  ChildOf(c, p)' \/ inbox'[p] = NoMail
  <2> DEFINE j == run[r]
             st == [status EXCEPT ![j] = "completed"]
             gone == IF opt[j].removeOnComplete THEN {j} ELSE {}
             box == Posted({j}, st, "complete")
  <2>1. j \in Jobs
    BY <1>3 DEF CompleteJob, Holds, TypeOK
  <2>2. box \in [Jobs -> [Messages -> Nat]]
    BY <2>1, PostedType DEF Outcomes
  <2>3. gone \in SUBSET Jobs /\ parent' = Orphaned(gone, parent) /\ inbox' = Set(box, gone, NoMail)
    BY <1>3, <2>1 DEF CompleteJob
  <2> HIDE DEF box, gone
  <2> QED BY <1>1, <1>s, <2>2, <2>3
<1>4. ASSUME NEW r \in Runs, NEW u \in BOOLEAN,
             NEW why \in {"handler", "aborted: timeout"}, FailJob(r, u, why)
      PROVE  ChildOf(c, p)' \/ inbox'[p] = NoMail
  <2> DEFINE j == run[r]
             new == IF u \/ Exhausted(j) THEN "dead" ELSE "delayed"
             st == [status EXCEPT ![j] = new]
             par == IF opt[j].onChildFail = "remove_dep" /\ new = "dead"
                    THEN [parent EXCEPT ![j] = NoJob] ELSE parent
             gone == IF opt[j].removeOnFail /\ new = "dead" THEN {j} ELSE {}
             box == IF new = "dead" THEN Posted({j}, st, "dead") ELSE inbox
  <2>1. j \in Jobs
    BY <1>4 DEF FailJob, Holds, TypeOK
  <2>2. box \in [Jobs -> [Messages -> Nat]]
    <3>1. Posted({j}, st, "dead") \in [Jobs -> [Messages -> Nat]]
      BY <2>1, PostedType DEF Outcomes
    <3> QED BY <1>s, <3>1
  <2>3. gone \in SUBSET Jobs /\ parent' = Orphaned(gone, par) /\ inbox' = Set(box, gone, NoMail)
    BY <1>4, <2>1 DEF FailJob
  <2>4. /\ par \in [Jobs -> Jobs \cup {NoJob}]
        /\ \/ par[c] = parent[c]
           \/ par[c] = NoJob /\ opt[c].onChildFail = "remove_dep"
    BY <1>s
  <2> HIDE DEF box, gone, par
  <2> QED BY <1>1, <2>2, <2>3, <2>4
<1>5. ASSUME NEW gone \in SUBSET Jobs, RemoveJobs(gone)
      PROVE  ChildOf(c, p)' \/ inbox'[p] = NoMail
  BY <1>1, <1>5, <1>s DEF RemoveJobs
<1>6. ASSUME NEW r \in Runs, RunStep(r)
      PROVE  ChildOf(c, p)' \/ inbox'[p] = NoMail
  BY <1>2, <1>3, <1>4, <1>6 DEF RunStep, Claim, RenewLock, ReleaseLeaseFullJob, Abandon
<1>7. CASE Sweep
  BY <1>2, <1>7 DEF Sweep, PromoteDelayed, HandleStalled, HandleTimeouts,
     HandleWallClockTimeouts, DeadLetter
<1>8. CASE Operator
  BY <1>2, <1>5, <1>8 DEF Operator, BeginCancel, CancelJob, PauseJob, ResumeJob, RetryJob, RemoveJob
<1> QED BY <1>2, <1>6, <1>7, <1>8 DEF Next, LockExpires, vars

\* A message found after a step that ends the rows of due was there before, alone, or
\* is the first one of a row that the step ends.
LEMMA MailStep ==
  ASSUME InboxInv, NEW due \in SUBSET Jobs, NEW said \in Outcomes, Reported(due, said),
         NEW p \in Jobs, NEW m \in Messages, inbox'[p][m] > 0, inbox'[p][m] \in Nat
  PROVE  /\ inbox'[p][m] = 1
         /\ \/ m \in Told(p) /\ m.child \notin due
            \/ m \notin Told(p) /\ m.child \in due /\ m.outcome = said /\ parent[m.child] = p
<1>t. inbox[p][m] \in Nat /\ m.child \in Jobs
  <2>1. inbox[p][m] \in Nat
    BY DEF InboxInv, TypeOK
  <2> QED BY <2>1 DEF Messages
<1>1. inbox'[p][m] <= inbox[p][m] + Post(due, said, p, m)
  BY DEF Reported, Delivered
<1>2. \A c \in due : status[c] \in Live
  BY DEF Reported, EndsShown
<1>3. CASE m \in Told(p)
  <2>1. inbox[p][m] = 1 /\ status[m.child] \notin Live
    BY <1>3 DEF InboxInv, InboxTruthful, IsLive
  <2>2. m.child \notin due
    BY <1>2, <2>1
  <2> QED BY <1>1, <1>3, <2>1, <2>2 DEF Post
<1>4. CASE m \notin Told(p)
  <2>1. inbox[p][m] = 0
    BY <1>t, <1>4 DEF Told
  <2> QED BY <1>1, <1>4, <2>1 DEF Post
<1> QED BY <1>3, <1>4

\* Every step but a submission keeps the inboxes complete and truthful.
LEMMA InboxKept ==
  ASSUME NoRetry, InboxInv, TypeOK', [Next]_vars, ~ Submit
  PROVE  /\ InboxComplete' /\ InboxTruthful'
         /\ \A p \in Jobs : \A m \in Told(p)' : status'[m.child] # "absent"
<1>t. TypeOK
  BY DEF InboxInv
<1>m. /\ \A m \in Messages : m.child \in Jobs /\ m.outcome \in Outcomes
      /\ \A m, n \in Messages : m.child = n.child /\ m.outcome = n.outcome => m = n
      /\ \A p \in Jobs, m \in Messages : inbox[p][m] \in Nat /\ inbox'[p][m] \in Nat
  <2>1. \A p \in Jobs, m \in Messages : inbox[p][m] \in Nat /\ inbox'[p][m] \in Nat
    BY <1>t DEF TypeOK
  <2> QED BY <2>1 DEF Messages
<1>r. PICK due \in SUBSET Jobs, said \in Outcomes : Reported(due, said)
  BY <1>t, StepReports
<1>d. \A c \in due : status[c] \in Live
  BY <1>r DEF Reported, EndsShown
<1>1. ASSUME NEW c \in Jobs, NEW p \in Jobs, parent'[c] = p, status'[p] \in Live,
             status'[c] \in Terminal \ {"failed"}, ~ StalledOut(c)'
      PROVE  inbox'[p][[child |-> c, outcome |-> OutcomeOf(c)']] = 1
  <2> DEFINE m == [child |-> c, outcome |-> OutcomeOf(c)']
  <2>m. m \in Messages /\ m.child = c /\ m.outcome = OutcomeOf(c)'
    BY DEF Messages, OutcomeOf, Outcomes
  <2> HIDE DEF m
  <2>1. parent[c] = p /\ status[p] \in Live
    BY <1>t, <1>1, StepKeepsParents, EndsKept
  <2>r. inbox'[p][m] = inbox[p][m] + Post(due, said, p, m)
    BY <1>r, <1>1, <2>m DEF Reported, Delivered
  <2>2. CASE status[c] \in Live
    <3>1. c \in due /\ OutcomeOf(c)' = said
      BY <1>r, <1>1, <2>2 DEF Reported, EndsShown, Live, Terminal
    <3>2. Post(due, said, p, m) = 1
      BY <2>m, <2>1, <3>1 DEF Post
    <3>3. inbox[p][m] = 0
      BY <1>m, <2>m, <2>2 DEF InboxInv, InboxTruthful, Told, IsLive
    <3>4. inbox'[p][m] = 1
      BY <2>r, <3>2, <3>3
    <3> QED BY <3>4 DEF m
  <2>3. CASE status[c] \notin Live
    <3>1. status'[c] = status[c] /\ error'[c] = error[c]
      BY <1>t, <1>1, <2>3, EndsKept
    <3>2. inbox[p][[child |-> c, outcome |-> OutcomeOf(c)]] = 1
      BY <1>1, <2>1, <3>1, OutcomeKept DEF InboxInv, InboxComplete, IsLive
    <3>3. inbox[p][m] = 1
      BY <3>1, <3>2, OutcomeKept DEF m
    <3>4. Post(due, said, p, m) = 0
      BY <1>d, <2>m, <2>3 DEF Post
    <3>5. inbox'[p][m] = 1
      BY <2>r, <3>3, <3>4
    <3> QED BY <3>5 DEF m
  <2> QED BY <2>2, <2>3
<1>2. ASSUME NEW p \in Jobs, NEW m \in Told(p)'
      PROVE  /\ m \in Messages /\ inbox'[p][m] = 1 /\ inbox'[p][m] > 0
             /\ \/ m \in Told(p) /\ m.child \notin due
                \/ m \notin Told(p) /\ m.child \in due /\ m.outcome = said /\ parent[m.child] = p
  <2>1. m \in Messages /\ inbox'[p][m] > 0
    BY <1>2 DEF Told
  <2> QED BY <1>m, <1>r, <2>1, MailStep
<1>3. ASSUME NEW p \in Jobs, NEW m \in Told(p)'
      PROVE  /\ status'[m.child] \notin Live \cup {"absent"}
             /\ status'[m.child] \in Terminal => OutcomeOf(m.child)' = m.outcome
             /\ ChildOf(m.child, p)'
  <2>c. m.child \in Jobs /\ inbox'[p] # NoMail
    BY <1>m, <1>2, <1>3 DEF NoMail
  <2>1. CASE m \in Told(p)
    <3>1. /\ status[m.child] \notin Live /\ status[m.child] # "absent" /\ ChildOf(m.child, p)
          /\ status[m.child] \in Terminal => OutcomeOf(m.child) = m.outcome
      BY <2>1 DEF InboxInv, InboxTruthful, IsLive
    <3>2. ChildOf(m.child, p)'
      BY <1>t, <2>c, <3>1, StaysChildOf
    <3> QED BY <1>t, <2>c, <3>1, <3>2, EndsKept, OutcomeKept
  <2>2. CASE m \notin Told(p)
    <3>1. m.child \in due /\ m.outcome = said /\ ChildOf(m.child, p)
      BY <1>2, <1>3, <2>2 DEF ChildOf
    <3>2. ChildOf(m.child, p)'
      BY <1>t, <2>c, <3>1, StaysChildOf
    <3> QED BY <1>r, <3>1, <3>2 DEF Reported, EndsShown
  <2> QED BY <2>1, <2>2
<1>4. ASSUME NEW p \in Jobs, NEW m \in Told(p)', NEW q \in Jobs, NEW n \in Told(q)',
             n.child = m.child
      PROVE  q = p /\ n = m
  <2>1. CASE m.child \in due
    <3>1. /\ m.outcome = said /\ parent[m.child] = p
          /\ n.outcome = said /\ parent[m.child] = q
      BY <1>2, <1>4, <2>1
    <3>2. m \in Messages /\ n \in Messages
      BY <1>2, <1>4
    <3> QED BY <1>m, <1>4, <3>1, <3>2
  <2>2. CASE m.child \notin due
    <3>1. m \in Told(p) /\ n \in Told(q)
      BY <1>2, <1>4, <2>2
    <3> QED BY <1>4, <3>1 DEF InboxInv, InboxTruthful
  <2> QED BY <2>1, <2>2
<1>5. InboxComplete'
  BY <1>1 DEF InboxComplete, IsLive
<1>6. InboxTruthful'
  BY <1>2, <1>3, <1>4 DEF InboxTruthful, IsLive
<1> QED BY <1>3, <1>5, <1>6

\* So does a submission: it ends no row and sends nothing.
LEMMA AddKeepsInbox ==
  ASSUME InboxInv, NEW j \in Jobs, NEW q \in Jobs \cup {NoJob}, NEW o \in Opts, Add(j, q, o)
  PROVE  /\ InboxComplete' /\ InboxTruthful'
         /\ \A p \in Jobs : \A m \in Told(p)' : status'[m.child] # "absent"
<1>t. TypeOK
  BY DEF InboxInv
<1>m. \A p \in Jobs : \A m \in Told(p) : m.child \in Jobs
  BY <1>t DEF Told, Messages
<1>a. /\ status[j] = "absent" /\ status'[j] \in {"waiting", "delayed"}
      /\ \A i \in Jobs \ {j} :
              /\ parent'[i] = parent[i]
              /\ status'[i] = IF i = q /\ status[i] \in Runnable THEN "waiting-children" ELSE status[i]
      /\ inbox' = inbox /\ error' = error
  BY <1>t, AddShape
<1>o. \A i \in Jobs \ {j} : opt'[i] = opt[i]
  BY <1>t DEF Add, TypeOK
<1>1. \A i \in Jobs \ {j} : /\ status'[i] \in Live <=> status[i] \in Live
                            /\ status[i] \notin Live => status'[i] = status[i]
  BY <1>a DEF Runnable, Live
<1>b. \A p \in Jobs : Told(p)' = Told(p)
  BY <1>a DEF Told
<1>2. ASSUME NEW p \in Jobs, NEW m \in Told(p)
      PROVE  /\ inbox'[p][m] = 1 /\ ChildOf(m.child, p)'
             /\ status'[m.child] \notin Live \cup {"absent"}
             /\ status'[m.child] \in Terminal => OutcomeOf(m.child)' = m.outcome
  <2>1. /\ m.child \in Jobs /\ status[m.child] \notin Live /\ status[m.child] # "absent"
        /\ status[m.child] \in Terminal => OutcomeOf(m.child) = m.outcome
        /\ inbox[p][m] = 1 /\ ChildOf(m.child, p)
    BY <1>m, <1>2 DEF InboxInv, InboxTruthful, IsLive
  <2>2. m.child # j
    BY <1>a, <2>1
  <2>3. status'[m.child] = status[m.child] /\ error'[m.child] = error[m.child]
    BY <1>1, <1>a, <2>1, <2>2
  <2>4. ChildOf(m.child, p)'
    BY <1>a, <1>o, <2>1, <2>2 DEF ChildOf
  <2> QED BY <1>a, <2>1, <2>3, <2>4, OutcomeKept
<1>3. ASSUME NEW c \in Jobs, NEW p \in Jobs, parent'[c] = p, status'[p] \in Live,
             status'[c] \in Terminal \ {"failed"}, ~ StalledOut(c)'
      PROVE  inbox'[p][[child |-> c, outcome |-> OutcomeOf(c)']] = 1
  <2>1. c # j /\ parent[c] = p
    BY <1>a, <1>3 DEF Terminal
  <2>2. p # j
    BY <1>a, <2>1 DEF InboxInv, ParentsExist
  <2>3. status[p] \in Live /\ status'[c] = status[c] /\ error'[c] = error[c]
    BY <1>1, <1>a, <1>3, <2>1, <2>2 DEF Live, Terminal
  <2>4. OutcomeOf(c)' = OutcomeOf(c) /\ ~ StalledOut(c)
    BY <1>3, <2>3, OutcomeKept
  <2>5. inbox[p][[child |-> c, outcome |-> OutcomeOf(c)]] = 1
    BY <1>3, <2>1, <2>3, <2>4 DEF InboxInv, InboxComplete, IsLive
  <2> QED BY <1>a, <2>4, <2>5
<1>4. InboxComplete'
  BY <1>3 DEF InboxComplete, IsLive
<1>5. \A p \in Jobs : \A m \in Told(p) :
        \A r \in Jobs : \A n \in Told(r) : n.child = m.child => r = p /\ n = m
  BY DEF InboxInv, InboxTruthful
<1>6. InboxTruthful'
  BY <1>b, <1>2, <1>5 DEF InboxTruthful, IsLive
<1> QED BY <1>b, <1>2, <1>4, <1>6

LEMMA InboxHolds == NoRetry => (Spec => []InboxInv)
<1> SUFFICES ASSUME NoRetry PROVE Spec => []InboxInv
  OBVIOUS
<1>1. Init => InboxInv
  <2>1. Init => TypeOK
    BY ConstantsAssumption DEF Init, TypeOK, Statuses, NoRow, Errors, NoMail, NoSnap
  <2> QED BY <2>1, ConstantsAssumption
       DEF Init, InboxInv, ParentsExist, InboxComplete, InboxTruthful, Told, NoMail
<1>2. InboxInv /\ [Next]_vars => InboxInv'
  <2> SUFFICES ASSUME InboxInv, [Next]_vars PROVE InboxInv'
    OBVIOUS
  <2>1. TypeOK' /\ ParentsExist'
    BY TypeStep, ParentsStep DEF InboxInv
  <2>2. CASE ~ Submit
    BY <2>1, <2>2, InboxKept DEF InboxInv
  <2>3. ASSUME NEW j \in Jobs, NEW q \in Jobs \cup {NoJob}, NEW o \in Opts, Add(j, q, o)
        PROVE  InboxInv'
    BY <2>1, <2>3, AddKeepsInbox DEF InboxInv
  <2>4. ASSUME NEW o \in Opts, AddCoalesced(o)
        PROVE  InboxInv'
    <3>1. UNCHANGED <<status, parent, error, inbox, opt>>
      BY <2>4 DEF AddCoalesced, ids
    <3> QED BY <2>1, <3>1 DEF InboxInv, InboxComplete, InboxTruthful, IsLive, OutcomeOf,
              StalledOut, Told, ChildOf
  <2> QED BY <2>2, <2>3, <2>4 DEF Submit
<1> QED BY <1>1, <1>2, PTL DEF Spec

\* Without retry, a live parent finds in its inbox exactly one message with the
\* outcome of each child that ended, except for the two silent ends.
THEOREM InboxIsComplete == NoRetry => (Spec => []InboxComplete)
<1>1. InboxInv => InboxComplete
  BY DEF InboxInv
<1> QED BY <1>1, InboxHolds, PTL

\* Without retry, a child is reported once, to the one job whose child it is (or was,
\* before remove_dep unlinked it), after its end, and with the outcome its row shows.
THEOREM InboxIsTruthful == NoRetry => (Spec => []InboxTruthful)
<1>1. InboxInv => InboxTruthful
  BY DEF InboxInv
<1> QED BY <1>1, InboxHolds, PTL

----------------------------------------------------------------------------
(* Why a parent is left waiting. *)

\* Every step but a submission leaves a cause for every strand.
LEMMA StrandKept ==
  ASSUME "remove" \notin Events, TypeOK, StrandHasCause, [Next]_vars, ~ Submit,
         NEW p \in Jobs, status'[p] = "waiting-children",
         \A c \in Jobs : parent'[c] = p => status'[c] \notin Live
  PROVE  \E c \in Jobs : parent'[c] = p /\ (StalledOut(c)' \/ status'[c] = "failed")
<1>r. PICK due \in SUBSET Jobs, said \in Outcomes : Reported(due, said)
  BY StepReports
<1>1. /\ status[p] = "waiting-children"
      /\ \A c \in due : parent[c] # p
      /\ \A c \in Jobs : parent[c] = p => parent'[c] = p
  BY <1>r DEF Reported, LeftWaiting
<1>2. CASE LiveChildren(p) = {}
  <2>1. PICK c \in Jobs : parent[c] = p /\ (StalledOut(c) \/ status[c] = "failed")
    BY <1>1, <1>2 DEF StrandHasCause
  <2>2. status[c] \notin Live /\ parent'[c] = p
    BY <1>1, <2>1 DEF StalledOut, Live
  <2>3. status'[c] = status[c] /\ error'[c] = error[c]
    <3>1. status'[c] # "waiting"
      BY <2>2 DEF Live
    <3> QED BY <2>2, <3>1, EndsStay
  <2> QED BY <2>1, <2>2, <2>3 DEF StalledOut
<1>3. CASE LiveChildren(p) # {}
  <2>1. PICK c \in Jobs : parent[c] = p /\ status[c] \in Live
    BY <1>3 DEF LiveChildren, IsLive
  <2>2. c \notin due /\ parent'[c] = p
    BY <1>1, <2>1
  <2>3. status'[c] = "failed" \/ StalledOut(c)'
    BY <1>r, <2>1, <2>2 DEF Reported, EndsShown
  <2> QED BY <2>2, <2>3
<1> QED BY <1>2, <1>3

LEMMA StrandStep ==
  ASSUME "remove" \notin Events, TypeOK, StrandHasCause, [Next]_vars
  PROVE  StrandHasCause'
<1>1. CASE ~ Submit
  BY <1>1, StrandKept DEF StrandHasCause, LiveChildren, IsLive
<1>2. ASSUME NEW j \in Jobs, NEW q \in Jobs \cup {NoJob}, NEW o \in Opts, Add(j, q, o)
      PROVE  StrandHasCause'
  <2>a. /\ status[j] = "absent" /\ status'[j] \in {"waiting", "delayed"} /\ parent'[j] = q
        /\ \A i \in Jobs \ {j} :
              /\ parent'[i] = parent[i]
              /\ status'[i] = IF i = q /\ status[i] \in Runnable THEN "waiting-children" ELSE status[i]
        /\ error' = error
    BY <1>2, AddShape
  <2>1. ASSUME NEW p \in Jobs, status'[p] = "waiting-children", LiveChildren(p)' = {}
        PROVE  \E c \in Jobs : parent'[c] = p /\ (StalledOut(c)' \/ status'[c] = "failed")
    <3>1. p # q
      BY <2>1, <2>a DEF LiveChildren, IsLive, Live
    <3>2. status[p] = "waiting-children"
      BY <2>1, <2>a, <3>1
    <3>3. ASSUME NEW c \in Jobs, parent[c] = p, status[c] # "absent"
          PROVE  parent'[c] = p /\ (status[c] \in Live => status'[c] \in Live)
      BY <2>a, <3>3 DEF Live
    <3>4. LiveChildren(p) = {}
      BY <2>1, <3>3 DEF LiveChildren, IsLive, Live
    <3>5. PICK c \in Jobs : parent[c] = p /\ (StalledOut(c) \/ status[c] = "failed")
      BY <3>2, <3>4 DEF StrandHasCause
    <3>6. c # j /\ status[c] \notin Runnable
      BY <2>a, <3>5 DEF StalledOut, Runnable
    <3> QED BY <2>a, <3>5, <3>6 DEF StalledOut
  <2> QED BY <2>1 DEF StrandHasCause
<1>3. ASSUME NEW o \in Opts, AddCoalesced(o)
      PROVE  StrandHasCause'
  BY <1>3 DEF AddCoalesced, StrandHasCause, LiveChildren, IsLive, StalledOut
<1> QED BY <1>1, <1>2, <1>3 DEF Submit

\* As long as no row is deleted by an operator, a parent in waiting-children that
\* nobody will wake has a child whose end was silent.
THEOREM StrandsHaveCauses == "remove" \notin Events => (Spec => []StrandHasCause)
<1> SUFFICES ASSUME "remove" \notin Events PROVE Spec => []StrandHasCause
  OBVIOUS
<1>1. Init => StrandHasCause
  BY DEF Init, StrandHasCause
<1>2. TypeOK /\ StrandHasCause /\ [Next]_vars => StrandHasCause'
  BY StrandStep
<1> QED BY <1>1, <1>2, TypeCorrect, PTL DEF Spec

----------------------------------------------------------------------------
(* A failure reaches the parent. *)

NeverPaused == \A i \in Jobs : status[i] # "paused"

FailureInv == JoinInv /\ NeverPaused /\ FailureReachesParent

\* Every step but a submission fails the parent that waits for a failed child.
LEMMA FailureKept ==
  ASSUME JoinSetting, FailureInv, [Next]_vars, ~ Submit, NEW c \in Jobs, NEW p \in Jobs,
         parent'[c] = p, status'[c] = "dead", error'[c] \in OwnErrors,
         opt'[c].onChildFail = "fail_parent"
  PROVE  status'[p] \notin Live
<1>t. TypeOK /\ NoRetry /\ parent[c] = p /\ opt'[c] = opt[c]
  BY StepKeepsParents, StepKeepsKeys DEF FailureInv, JoinInv, JoinSetting, NoRetry
<1>r. PICK due \in SUBSET Jobs, said \in Outcomes : Reported(due, said)
  BY <1>t, StepReports
<1>1. status[p] \notin Live => status'[p] \notin Live
  BY <1>t, EndsKept
<1>2. CASE status[c] \in Live
  <2>1. c \in due
    BY <1>r, <1>2 DEF Reported, EndsShown, StalledOut, Live, OwnErrors
  <2>2. status[p] = "waiting-children" => status'[p] \notin Live
    BY <1>t, <1>r, <2>1 DEF Reported, FailsParent
  <2>3. status[p] \notin {"waiting", "active", "delayed", "paused"}
    BY <1>t, <1>2 DEF FailureInv, JoinInv, ParentWaits, NeverPaused, IsLive
  <2> QED BY <1>1, <2>2, <2>3 DEF Live
<1>3. CASE status[c] \notin Live
  <2>1. status'[c] = status[c] /\ error'[c] = error[c]
    BY <1>t, <1>3, EndsKept DEF Terminal
  <2> QED BY <1>t, <1>1, <2>1 DEF FailureInv, FailureReachesParent, OwnErrors, IsLive
<1> QED BY <1>2, <1>3

LEMMA FailureStep ==
  ASSUME JoinSetting, FailureInv, [Next]_vars
  PROVE  FailureInv'
<1>j. JoinInv'
  BY JoinStep DEF FailureInv
<1>t. TypeOK
  BY DEF FailureInv, JoinInv
<1>1. CASE ~ Submit
  <2>1. NeverPaused'
    BY <1>t, <1>1, StepReports DEF Reported, PausedByOperator, FailureInv, NeverPaused, JoinSetting
  <2>2. FailureReachesParent'
    BY <1>1, FailureKept DEF FailureReachesParent, OwnErrors, IsLive
  <2> QED BY <1>j, <2>1, <2>2 DEF FailureInv
<1>2. ASSUME NEW j \in Jobs, NEW q \in Jobs \cup {NoJob}, NEW o \in Opts, Add(j, q, o)
      PROVE  FailureInv'
  <2>a. /\ status[j] = "absent" /\ status'[j] \in {"waiting", "delayed"} /\ parent'[j] = q
        /\ \A i \in Jobs \ {j} :
              /\ parent'[i] = parent[i]
              /\ status'[i] = IF i = q /\ status[i] \in Runnable THEN "waiting-children" ELSE status[i]
        /\ error' = error
    BY <1>t, <1>2, AddShape
  <2>1. NeverPaused'
    BY <2>a DEF FailureInv, NeverPaused
  <2>2. ASSUME NEW c \in Jobs, NEW p \in Jobs, parent'[c] = p, status'[c] = "dead",
               error'[c] \in OwnErrors, opt'[c].onChildFail = "fail_parent"
        PROVE  status'[p] \notin Live
    <3>1. c # j /\ status[c] = "dead" /\ parent[c] = p /\ error[c] \in OwnErrors
      BY <2>a, <2>2
    <3>2. opt'[c] = opt[c]
      BY <1>t, <1>2, <3>1 DEF Add, TypeOK
    <3>3. p # j
      BY <2>a, <3>1 DEF FailureInv, JoinInv, ParentsExist
    <3>4. status[p] \notin Live
      BY <2>2, <3>1, <3>2 DEF FailureInv, FailureReachesParent, OwnErrors, IsLive
    <3> QED BY <2>a, <3>3, <3>4 DEF Runnable, Live
  <2>3. FailureReachesParent'
    BY <2>2 DEF FailureReachesParent, OwnErrors, IsLive
  <2> QED BY <1>j, <2>1, <2>3 DEF FailureInv
<1>3. ASSUME NEW o \in Opts, AddCoalesced(o)
      PROVE  FailureInv'
  <2>1. UNCHANGED <<status, opt, parent, error>>
    BY <1>3 DEF AddCoalesced, ids
  <2> QED BY <1>j, <2>1 DEF FailureInv, NeverPaused, FailureReachesParent, IsLive
<1> QED BY <1>1, <1>2, <1>3 DEF Submit

\* Where no operator pauses or retries, a child with fail_parent that dies of its own
\* error leaves no live parent, whatever the parent was doing when it died.
THEOREM FailuresReachParents == JoinSetting => (Spec => []FailureReachesParent)
<1> SUFFICES ASSUME JoinSetting PROVE Spec => []FailureReachesParent
  OBVIOUS
<1>1. Init => FailureInv
  <2>1. Init => TypeOK
    BY ConstantsAssumption DEF Init, TypeOK, Statuses, NoRow, Errors, NoMail, NoSnap
  <2> QED BY <2>1, ConstantsAssumption
       DEF Init, FailureInv, NeverPaused, FailureReachesParent, JoinInv, ParentsExist,
           ParentWaits, IsLive, Live
<1>2. FailureInv /\ [Next]_vars => FailureInv'
  BY FailureStep
<1>3. FailureInv => FailureReachesParent
  BY DEF FailureInv
<1> QED BY <1>1, <1>2, <1>3, PTL DEF Spec

----------------------------------------------------------------------------
(* Idempotency keys. *)

\* A live job holds the key it was submitted with, and no two rows hold one.
KeysHeld == \A i \in Jobs : IsLive(i) => key[i] = opt[i].key
KeysUnique ==
  \A i, k \in Jobs : Exists(i) /\ Exists(k) /\ key[i] = key[k] /\ key[i] # NoKey => i = k

KeyInv == TypeOK /\ KeysHeld /\ KeysUnique

\* A submission takes its key from the rows that have one.
LEMMA AddKeepsKeys ==
  ASSUME KeyInv, NEW j \in Jobs, NEW q \in Jobs \cup {NoJob}, NEW o \in Opts, Add(j, q, o)
  PROVE  KeysHeld' /\ KeysUnique'
<1>t. /\ TypeOK
      /\ opt \in [Jobs -> Opts \cup {NoOpts}] /\ key \in [Jobs -> Keys \cup {NoKey}]
  BY DEF KeyInv, TypeOK
<1>a. /\ status[j] = "absent" /\ status'[j] \in {"waiting", "delayed"}
      /\ \A i \in Jobs \ {j} :
           status'[i] = IF i = q /\ status[i] \in Runnable THEN "waiting-children" ELSE status[i]
  BY <1>t, AddShape
<1>k. /\ opt' = [opt EXCEPT ![j] = o]
      /\ key' = [Set(key, FreedBy(o), NoKey) EXCEPT ![j] = o.key]
      /\ SameKey(o) = FreedBy(o)
  BY DEF Add, MayInsert
<1>1. opt'[j] = o /\ key'[j] = o.key
  BY <1>t, <1>k DEF Set
<1>2. \A i \in Jobs \ {j} : opt'[i] = opt[i] /\ key'[i] = IF i \in FreedBy(o) THEN NoKey ELSE key[i]
  BY <1>t, <1>k DEF Set
<1>3. \A i \in Jobs \ {j} : (IsLive(i)' => IsLive(i)) /\ (Exists(i)' => Exists(i))
  BY <1>a DEF IsLive, Exists, Runnable, Live, NoRow
<1>4. \A i \in FreedBy(o) : ~ IsLive(i)
  BY DEF FreedBy, IsLive, Live
<1>5. KeysHeld'
  BY <1>1, <1>2, <1>3, <1>4 DEF KeyInv, KeysHeld
<1>6. \A i \in Jobs \ {j} : Exists(i)' /\ key'[i] # NoKey => key'[i] # o.key
  BY <1>2, <1>3, <1>k DEF SameKey
<1>7. KeysUnique'
  BY <1>1, <1>2, <1>3, <1>6 DEF KeyInv, KeysUnique
<1> QED BY <1>5, <1>7

LEMMA KeyStep ==
  ASSUME NoRetry, KeyInv, [Next]_vars
  PROVE  KeyInv'
<1>t. TypeOK /\ TypeOK'
  BY TypeStep DEF KeyInv
<1>1. CASE ~ Submit
  <2>1. UNCHANGED <<opt, key>>
    BY <1>1, StepKeepsKeys
  <2>2. \A i \in Jobs : (IsLive(i)' => IsLive(i)) /\ (Exists(i)' => Exists(i))
    <3>1. ASSUME NEW i \in Jobs, status[i] \notin Live
          PROVE  status'[i] \notin Live /\ (status[i] \in NoRow => status'[i] \in NoRow)
      BY <1>1, <1>t, <3>1, EndsStay DEF NoRetry, Live, NoRow, Terminal
    <3> QED BY <3>1 DEF IsLive, Exists, Live, NoRow
  <2> QED BY <1>t, <2>1, <2>2 DEF KeyInv, KeysHeld, KeysUnique
<1>2. ASSUME NEW j \in Jobs, NEW q \in Jobs \cup {NoJob}, NEW o \in Opts, Add(j, q, o)
      PROVE  KeyInv'
  BY <1>t, <1>2, AddKeepsKeys DEF KeyInv
<1>3. ASSUME NEW o \in Opts, AddCoalesced(o)
      PROVE  KeyInv'
  <2>1. UNCHANGED <<status, opt>> /\ key' = Set(key, FreedBy(o), NoKey)
    BY <1>3 DEF AddCoalesced, ids
  <2>2. \A i \in Jobs : key'[i] = IF i \in FreedBy(o) THEN NoKey ELSE key[i]
    BY <1>t, <2>1 DEF Set, TypeOK
  <2>3. \A i \in FreedBy(o) : ~ IsLive(i)
    BY DEF FreedBy, IsLive, Live
  <2> QED BY <1>t, <2>1, <2>2, <2>3 DEF KeyInv, KeysHeld, KeysUnique, IsLive, Exists
<1> QED BY <1>1, <1>2, <1>3 DEF Submit

\* Without retry, one idempotency key has at most one live job, although a submission
\* takes the key away from dead and cancelled rows.
THEOREM OneJobPerKey == NoRetry => (Spec => []OneLiveJobPerKey)
<1> SUFFICES ASSUME NoRetry PROVE Spec => []OneLiveJobPerKey
  OBVIOUS
<1>1. Init => KeyInv
  <2>1. Init => TypeOK
    BY ConstantsAssumption DEF Init, TypeOK, Statuses, NoRow, Errors, NoMail, NoSnap
  <2> QED BY <2>1 DEF Init, KeyInv, KeysHeld, KeysUnique, IsLive, Exists, Live, NoRow
<1>2. KeyInv /\ [Next]_vars => KeyInv'
  BY KeyStep
<1>3. KeyInv => OneLiveJobPerKey
  BY DEF KeyInv, KeysHeld, KeysUnique, OneLiveJobPerKey, IsLive, Exists, Live, NoRow
<1> QED BY <1>1, <1>2, <1>3, PTL DEF Spec

----------------------------------------------------------------------------
(* Cancellation reaches every child. *)

\* Induction on the naturals, for a set: the intervals 0 .. n are well founded.
LEMMA NatSetInduction ==
  ASSUME NEW S, 0 \in S, \A n \in Nat : n \in S => n + 1 \in S
  PROVE  Nat \subseteq S
<1> DEFINE T == {0 .. n : n \in Nat \ S}
           R == StrictSubsetOrdering(Nat)
           F == FiniteSubsetsOf(Nat)
<1> SUFFICES ASSUME Nat \ S # {} PROVE FALSE
  OBVIOUS
<1>1. T \subseteq F /\ T # {}
  <2>1. ASSUME NEW n \in Nat PROVE 0 .. n \in F
    <3>1. IsFiniteSet(0 .. n)
      BY FS_Interval
    <3> QED BY <3>1 DEF FiniteSubsetsOf
  <2> QED BY <2>1
<1>2. IsWellFoundedOn(R, F)
  BY FS_StrictSubsetOrderingWellFounded
<1>3. PICK X \in T : \A Y \in T : ~ (<<Y, X>> \in R)
  <2> HIDE DEF R, T, F
  <2> QED BY <1>1, <1>2, WFMin
<1>4. PICK n \in Nat \ S : X = 0 .. n
  BY <1>3
<1>5. n # 0 /\ n - 1 \in Nat /\ n - 1 \notin S
  OBVIOUS
<1>6. <<0 .. (n - 1), 0 .. n>> \in R
  BY <1>5 DEF StrictSubsetOrdering
<1> QED BY <1>3, <1>4, <1>5, <1>6

\* One more level of children.
Below(A) == A \cup {k \in Jobs : parent[k] \in A}

\* The recursive query has a result at every depth.
LEMMA LevelsExist ==
  ASSUME NEW j
  PROVE  \A n \in Nat : \E f : f = [d \in 0..n |-> IF d = 0 THEN {j} ELSE Below(f[d - 1])]
<1> DEFINE S == {n \in Nat : \E f : f = [d \in 0..n |-> IF d = 0 THEN {j} ELSE Below(f[d - 1])]}
<1>1. 0 \in S
  <2> DEFINE f == [d \in 0..0 |-> {j}]
  <2>1. f = [d \in 0..0 |-> IF d = 0 THEN {j} ELSE Below(f[d - 1])]
    OBVIOUS
  <2> QED BY <2>1
<1>2. ASSUME NEW n \in Nat, n \in S
      PROVE  n + 1 \in S
  <2>1. PICK f : f = [d \in 0..n |-> IF d = 0 THEN {j} ELSE Below(f[d - 1])]
    BY <1>2
  <2> DEFINE g == [d \in 0..(n + 1) |-> IF d = n + 1 THEN Below(f[n]) ELSE f[d]]
  <2>2. ASSUME NEW d \in 0..(n + 1)
        PROVE  g[d] = IF d = 0 THEN {j} ELSE Below(g[d - 1])
    <3>1. CASE d = 0
      BY <2>1, <3>1
    <3>2. CASE d \in 1..n
      <4>1. f[d] = Below(f[d - 1])
        <5>1. \A e \in 0..n : f[e] = IF e = 0 THEN {j} ELSE Below(f[e - 1])
          BY <2>1
        <5> HIDE DEF g
        <5> QED BY <3>2, <5>1
      <4>2. g[d] = f[d] /\ g[d - 1] = f[d - 1]
        BY <3>2
      <4> QED BY <3>2, <4>1, <4>2
    <3>3. CASE d = n + 1
      <4>1. g[d] = Below(f[n]) /\ g[d - 1] = f[n]
        BY <3>3
      <4> QED BY <3>3, <4>1
    <3> QED BY <3>1, <3>2, <3>3
  <2>3. g = [d \in 0..(n + 1) |-> IF d = 0 THEN {j} ELSE Below(g[d - 1])]
    BY <2>2
  <2> HIDE DEF g
  <2> QED BY <2>3
<1>3. Nat \subseteq S
  <2> HIDE DEF S
  <2> QED BY <1>1, <1>2, NatSetInduction
<1> QED BY <1>3

\* The rows that a cancellation considers, level by level.
LEMMA WithinLevels ==
  ASSUME NEW j
  PROVE  \E f : /\ f[0] = {j}
                /\ \A d \in 1..CancelDepth : f[d] = Below(f[d - 1])
                /\ Within(j) = f[CancelDepth]
<1>c. CancelDepth \in Nat
  BY ConstantsAssumption
<1> DEFINE reach[d \in 0..CancelDepth] ==
        IF d = 0 THEN {j}
        ELSE LET above == reach[d - 1]
             IN  above \cup {k \in Jobs : parent[k] \in above}
<1>1. \E f : f = [d \in 0..CancelDepth |->
                    IF d = 0 THEN {j}
                    ELSE LET above == f[d - 1]
                         IN  above \cup {k \in Jobs : parent[k] \in above}]
  <2>1. PICK f : f = [d \in 0..CancelDepth |-> IF d = 0 THEN {j} ELSE Below(f[d - 1])]
    BY <1>c, LevelsExist
  <2>2. f = [d \in 0..CancelDepth |->
               IF d = 0 THEN {j}
               ELSE LET above == f[d - 1]
                    IN  above \cup {k \in Jobs : parent[k] \in above}]
    <3> HIDE DEF reach
    <3> QED BY <2>1, Zenon DEF Below
  <2> QED BY <2>2
<1>2. reach = [d \in 0..CancelDepth |->
                    IF d = 0 THEN {j}
                    ELSE LET above == reach[d - 1]
                         IN  above \cup {k \in Jobs : parent[k] \in above}]
  BY <1>1
<1>3. Within(j) = reach[CancelDepth]
  BY DEF Within
<1> HIDE DEF reach
<1>4. reach[0] = {j} /\ \A d \in 1..CancelDepth : reach[d] = Below(reach[d - 1])
  BY <1>c, <1>2 DEF Below
<1> QED BY <1>3, <1>4

\* A child is one level below its parent, and no deeper than a submission allows.
Depths ==
  \A c \in Jobs :
    /\ depth[c] <= MaxSpawnDepth
    /\ parent[c] \in Jobs => depth[c] = depth[parent[c]] + 1

\* A cancellation under way found the live children of the rows it found.
KinFound == \A j \in Jobs : snap[j].kin \subseteq snap[j].found

CascadeInv == TypeOK /\ ParentsExist /\ Depths /\ KinFound

\* A cancellation that follows as many links as submissions can make finds, with each
\* row, the children of the row.
LEMMA WithinTakesChildren ==
  ASSUME CascadeInv, CancelDepth >= MaxSpawnDepth, NEW j \in Jobs,
         NEW c \in Jobs, NEW p \in Jobs, parent[c] = p, p \in Within(j)
  PROVE  c \in Within(j)
<1>t. /\ depth \in [Jobs -> Nat] /\ CancelDepth \in Nat /\ MaxSpawnDepth \in Nat
      /\ parent \in [Jobs -> Jobs \cup {NoJob}]
  BY ConstantsAssumption DEF CascadeInv, TypeOK
<1>f. PICK f : /\ f[0] = {j}
               /\ \A d \in 1..CancelDepth : f[d] = Below(f[d - 1])
               /\ Within(j) = f[CancelDepth]
  BY WithinLevels
<1>n. ASSUME NEW d \in Nat, d + 1 <= CancelDepth
      PROVE  f[d + 1] = Below(f[d])
  <2>1. d + 1 \in 1..CancelDepth /\ (d + 1) - 1 = d
    BY <1>t, <1>n
  <2> QED BY <1>f, <2>1
<1>1. \A e \in 0..CancelDepth : j \in f[e]
  <2> DEFINE S == {e \in Nat : e <= CancelDepth => j \in f[e]}
  <2>1. 0 \in S
    BY <1>f
  <2>2. ASSUME NEW e \in Nat, e \in S PROVE e + 1 \in S
    BY <1>t, <1>n, <2>2 DEF Below
  <2>3. Nat \subseteq S
    <3> HIDE DEF S
    <3> QED BY <2>1, <2>2, NatSetInduction
  <2> QED BY <1>t, <2>3
<1>2. ASSUME NEW d \in 0..CancelDepth, NEW k \in f[d]
      PROVE  /\ k \in Jobs /\ depth[k] >= depth[j]
             /\ \A e \in 0..CancelDepth : depth[k] <= depth[j] + e => k \in f[e]
  <2> DEFINE Early(x) == /\ x \in Jobs /\ depth[x] >= depth[j]
                         /\ \A e \in 0..CancelDepth : depth[x] <= depth[j] + e => x \in f[e]
             S == {n \in Nat : n <= CancelDepth => \A x \in f[n] : Early(x)}
  <2>1. 0 \in S
    BY <1>t, <1>f, <1>1
  <2>2. ASSUME NEW n \in Nat, n \in S PROVE n + 1 \in S
    <3> SUFFICES ASSUME n + 1 <= CancelDepth, NEW x \in f[n + 1] PROVE Early(x)
      OBVIOUS
    <3>1. \A y \in f[n] : Early(y)
      BY <1>t, <2>2
    <3>2. CASE x \in f[n]
      BY <3>1, <3>2
    <3>3. CASE x \notin f[n]
      <4>1. x \in Jobs /\ parent[x] \in f[n]
        BY <1>n, <3>3 DEF Below
      <4>2. Early(parent[x])
        BY <3>1, <4>1
      <4> DEFINE y == parent[x]
      <4>3. depth[x] = depth[y] + 1 /\ y \in Jobs /\ depth[y] >= depth[j]
        BY <4>1, <4>2 DEF CascadeInv, Depths
      <4>4. ASSUME NEW e \in 0..CancelDepth, depth[x] <= depth[j] + e
            PROVE  x \in f[e]
        <5>1. depth[y] \in Nat /\ depth[j] \in Nat /\ e \in Nat
          BY <1>t, <4>3
        <5>2. e - 1 \in 0..CancelDepth /\ e - 1 \in Nat /\ depth[y] <= depth[j] + (e - 1)
          BY <1>t, <4>3, <4>4, <5>1
        <5>3. y \in f[e - 1]
          BY <4>2, <5>2
        <5>4. f[e] = Below(f[e - 1])
          BY <1>f, <1>t, <5>2
        <5> QED BY <4>1, <5>3, <5>4 DEF Below
      <4>5. depth[x] >= depth[j]
        BY <1>t, <4>1, <4>3
      <4> QED BY <4>1, <4>4, <4>5
    <3> QED BY <3>2, <3>3
  <2>3. Nat \subseteq S
    <3> HIDE DEF S
    <3> QED BY <2>1, <2>2, NatSetInduction
  <2>4. d \in S /\ d <= CancelDepth
    BY <1>t, <2>3
  <2> QED BY <1>2, <2>4
<1>3. depth[c] = depth[p] + 1 /\ depth[c] <= MaxSpawnDepth /\ depth[p] \in Nat /\ depth[j] \in Nat
  BY <1>t DEF CascadeInv, Depths
<1>4. /\ CancelDepth - 1 \in 0..CancelDepth /\ CancelDepth - 1 \in Nat
      /\ depth[p] <= depth[j] + (CancelDepth - 1) /\ CancelDepth \in 1..CancelDepth
  BY <1>t, <1>3
<1>5. p \in f[CancelDepth - 1]
  BY <1>2, <1>f, <1>4
<1>6. f[CancelDepth] = Below(f[CancelDepth - 1])
  BY <1>f, <1>4
<1> QED BY <1>f, <1>5, <1>6 DEF Below

\* What a statement that ends no cancellation, and begins none, leaves of the snapshots.
LEMMA SnapStep ==
  ASSUME TypeOK, [Next]_vars
  PROVE  \/ snap' = snap
         \/ \E j \in Jobs : BeginCancel(j)
         \/ \E j \in Jobs : CancelJob(j)
<1>1. ASSUME NEW r \in Runs, RunStep(r)
      PROVE  snap' = snap
  BY <1>1 DEF RunStep, Claim, RenewLock, CompleteJob, FailJob, ReleaseLeaseFullJob, Abandon
<1>2. CASE Sweep
  BY <1>2 DEF Sweep, PromoteDelayed, HandleStalled, HandleTimeouts, HandleWallClockTimeouts,
     DeadLetter
<1>3. CASE Operator
  BY <1>3 DEF Operator, PauseJob, ResumeJob, RetryJob, RemoveJob, RemoveJobs
<1>4. CASE Submit
  BY <1>4 DEF Submit, Add, AddCoalesced
<1> QED BY <1>1, <1>2, <1>3, <1>4 DEF Next, LockExpires, vars

\* A cancellation ends in one way: by its UPDATE.
LEMMA OnlyUpdateEnds ==
  ASSUME TypeOK, [Next]_vars, NEW j \in Jobs, snap[j] # NoSnap, snap'[j] = NoSnap
  PROVE  CancelJob(j)
<1>s. DOMAIN snap = Jobs
  BY DEF TypeOK
<1>1. ASSUME NEW i \in Jobs, BeginCancel(i)
      PROVE  FALSE
  <2>1. i # j /\ snap'[j] = snap[j]
    BY <1>s, <1>1 DEF BeginCancel
  <2> QED BY <2>1
<1>2. ASSUME NEW i \in Jobs, CancelJob(i)
      PROVE  i = j
  BY <1>s, <1>2 DEF CancelJob
<1> QED BY <1>1, <1>2, SnapStep

\* Where a cancellation follows as many links as submissions can make, it finds in its
\* snapshot the live children of what it finds.
LEMMA KinFoundStep ==
  ASSUME CascadeInv, CancelDepth >= MaxSpawnDepth, [Next]_vars
  PROVE  KinFound'
<1>t. TypeOK /\ DOMAIN snap = Jobs
  BY DEF CascadeInv, TypeOK
<1>1. ASSUME NEW j \in Jobs, BeginCancel(j)
      PROVE  KinFound'
  <2> DEFINE found == {k \in Jobs : k \in Within(j) /\ IsLive(k)}
             kin == {c \in Jobs : parent[c] \in found /\ IsLive(c)}
  <2>1. snap' = [snap EXCEPT ![j] = [found |-> found, kin |-> kin]]
    BY <1>1 DEF BeginCancel
  <2>2. kin \subseteq found
    BY WithinTakesChildren
  <2> HIDE DEF found, kin
  <2> QED BY <1>t, <2>1, <2>2 DEF CascadeInv, KinFound
<1>2. ASSUME NEW j \in Jobs, CancelJob(j)
      PROVE  KinFound'
  BY <1>t, <1>2 DEF CancelJob, NoSnap, CascadeInv, KinFound
<1> QED BY <1>t, <1>1, <1>2, SnapStep DEF CascadeInv, KinFound

LEMMA CascadeInvStep ==
  ASSUME CascadeInv, CancelDepth >= MaxSpawnDepth, [Next]_vars
  PROVE  CascadeInv'
<1>k. KinFound'
  BY KinFoundStep
<1>t. TypeOK /\ TypeOK' /\ ParentsExist'
  BY TypeStep, ParentsStep DEF CascadeInv
<1>d. MaxSpawnDepth \in Nat /\ depth \in [Jobs -> Nat]
  BY <1>t, ConstantsAssumption DEF TypeOK
<1>1. CASE ~ Submit
  <2>1. depth' = depth /\ \A c \in Jobs : parent'[c] \in Jobs => parent[c] = parent'[c]
    BY <1>1, <1>t, StepKeepsKeys, StepKeepsParents
  <2> QED BY <1>t, <1>k, <2>1 DEF CascadeInv, Depths
<1>2. ASSUME NEW j \in Jobs, NEW q \in Jobs \cup {NoJob}, NEW o \in Opts, Add(j, q, o)
      PROVE  CascadeInv'
  <2>1. /\ status[j] = "absent" /\ parent'[j] = q /\ q # j
        /\ \A i \in Jobs \ {j} : parent'[i] = parent[i]
    BY <1>t, <1>2, AddShape
  <2>2. /\ depth'[j] = IF q = NoJob THEN 0 ELSE depth[q] + 1
        /\ \A i \in Jobs \ {j} : depth'[i] = depth[i]
    BY <1>d, <1>2 DEF Add
  <2>3. q # NoJob => depth[q] + 1 <= MaxSpawnDepth
    BY <1>2 DEF Add, MayInsert
  <2>4. \A c \in Jobs : parent[c] # j
    BY <2>1 DEF CascadeInv, ParentsExist
  <2>5. ASSUME NEW c \in Jobs
        PROVE  /\ depth'[c] <= MaxSpawnDepth
               /\ parent'[c] \in Jobs => depth'[c] = depth'[parent'[c]] + 1
    <3>1. CASE c = j
      BY <1>d, <2>1, <2>2, <2>3, <3>1, ConstantsAssumption
    <3>2. CASE c # j
      BY <2>1, <2>2, <2>4, <3>2 DEF CascadeInv, Depths
    <3> QED BY <3>1, <3>2
  <2> QED BY <1>t, <1>k, <2>5 DEF CascadeInv, Depths
<1>3. ASSUME NEW o \in Opts, AddCoalesced(o)
      PROVE  CascadeInv'
  BY <1>t, <1>k, <1>3 DEF AddCoalesced, ids, CascadeInv, Depths
<1> QED BY <1>1, <1>2, <1>3 DEF Submit

\* Where a cancellation follows as many links as submissions can make, it takes with
\* every row the children that were live in its snapshot, whatever committed since.
THEOREM CancellationsCascade ==
  CancelDepth >= MaxSpawnDepth => (Spec => CancelCascades)
<1> SUFFICES ASSUME CancelDepth >= MaxSpawnDepth PROVE Spec => CancelCascades
  OBVIOUS
<1>1. Init => CascadeInv
  <2>1. Init => TypeOK
    BY ConstantsAssumption DEF Init, TypeOK, Statuses, NoRow, Errors, NoMail, NoSnap
  <2> QED BY <2>1, ConstantsAssumption DEF Init, CascadeInv, ParentsExist, Depths, KinFound, NoSnap
<1>2. CascadeInv /\ [Next]_vars => CascadeInv'
  BY CascadeInvStep
<1>3. ASSUME CascadeInv, [Next]_vars, NEW j \in Jobs, NEW c \in Jobs, NEW p \in Jobs,
             snap[j] # NoSnap, snap'[j] = NoSnap, c \in snap[j].kin
      PROVE  status'[c] \notin Live
  <2>1. CancelJob(j)
    BY <1>3, OnlyUpdateEnds DEF CascadeInv
  <2> DEFINE hit == {k \in snap[j].found : IsLive(k)}
             st == Set(status, hit, "cancelled")
  <2>t. status \in [Jobs -> Statuses]
    BY <1>3 DEF CascadeInv, TypeOK
  <2>2. st \in [Jobs -> Statuses] /\ \A k \in Jobs : st[k] = IF k \in hit THEN "cancelled" ELSE status[k]
    BY <2>t, SetType DEF Set, Statuses, Terminal
  <2>3. status' = Resolved({parent[k] : k \in hit}, st, parent)
    BY <2>1 DEF CancelJob
  <2>4. c \in snap[j].found
    BY <1>3 DEF CascadeInv, KinFound
  <2>5. st[c] \notin Live
    BY <2>2, <2>4 DEF IsLive, Live
  <2> HIDE DEF st, hit
  <2> QED BY <2>2, <2>3, <2>5, ResolvedJoins
<1>4. CascadeInv /\ [Next]_vars =>
        [\A j, c, p \in Jobs :
           /\ snap[j] # NoSnap /\ snap'[j] = NoSnap
           /\ parent[c] = p /\ IsLive(p) /\ status'[p] = "cancelled"
           /\ c \in snap[j].kin
           => status'[c] \notin Live]_vars
  BY <1>3
<1> QED BY <1>1, <1>2, <1>4, PTL DEF Spec, CancelCascades
=============================================================================
