------------------------- MODULE ParentJoinTxProofs -------------------------
(***************************************************************************)
(* The join of a parent with its children, for any number of children and  *)
(* of transactions whose statements interleave in any way.                 *)
(***************************************************************************)
EXTENDS ParentJoinTx, TLAPS

(* What a transaction has done by the place it is at.                      *)
PlaceOf(t) ==
  /\ tx[t].pc = "idle" <=> tx[t].kind = "none"
  /\ tx[t].kind \in Lockers <=> tx[t].pc = "lock" \/ hold[t] = "update"
  /\ tx[t].pc \in {"idle", "lock", "insert"} => own[t] = Unwritten
  /\ tx[t].pc = "idle" => hold[t] = "none"
  /\ tx[t].pc = "insert" => tx[t].kind = "add"
  /\ tx[t].kind = "add" => tx[t].pc \in {"lock", "insert", "commit"}
                           /\ \E c \in Children : tx[t].todo = {c}

(* What it wrote: an addition a live child, any other transaction ends.    *)
WritesOf(t) ==
  /\ tx[t].kind = "add" /\ tx[t].pc = "commit" =>
       /\ \E c \in Children : own[t][c] = "live"
       /\ own[t][Parent] \in {"none", "waiting-children"}
       /\ View(t, Parent) # "runnable"
  /\ tx[t].kind # "add" =>
       /\ \A c \in Children : own[t][c] \in {"none", "ended"}
       /\ own[t][Parent] \in {"none", "ended", "runnable"}
  /\ own[t][Parent] = "runnable" => tx[t].pc = "commit"
  /\ tx[t].pc = "wake" => own[t][Parent] = "none"
  /\ own[t][Parent] # "none" => db[Parent] # "ended"

(* It has asked for the parent's row before it looks at the children.      *)
AsksOf(t) ==
  /\ tx[t].pc \in {"resolve", "wake"} => hold[t] # "none" \/ View(t, Parent) = "ended"
  /\ tx[t].pc = "commit" =>
       hold[t] # "none" \/ View(t, Parent) = "ended" \/ Written(t) = {}

(* One locker of the parent at a time, nobody beside it, one writer.       *)
Excludes ==
  \A t, s \in Txs : t # s =>
    /\ hold[t] = "update" => hold[s] = "none" /\ own[s][Parent] = "none"
    /\ own[t][Parent] # "none" => own[s][Parent] = "none"

LocalInv(t) == PlaceOf(t) /\ WritesOf(t) /\ AsksOf(t)

LockInv == TypeOK /\ Excludes /\ \A t \in Txs : LocalInv(t)

(* Whoever is about to make the parent runnable sees no live child.        *)
WakesOf(t) ==
  \/ tx[t].pc = "wake" /\ tx[t].kind # "fail_parent"
  \/ own[t][Parent] = "runnable"
  => hold[t] # "none" /\ \A c \in Children : View(t, c) # "live"

EarlyInv == LockInv /\ NoEarlyWake /\ \A t \in Txs : WakesOf(t)

(* Whoever is about to leave the parent waiting sees one.                  *)
LeavesOf(t) ==
  tx[t].pc = "commit" /\ View(t, Parent) = "waiting-children" =>
    \E c \in Children : View(t, c) = "live"

Alone == \A t, s \in Txs : tx[t].kind \in Unlocked /\ tx[s].kind \in Unlocked => t = s

LastInv == LockInv /\ LastEndWakes /\ (~raced => Alone /\ \A t \in Txs : LeavesOf(t))

-----------------------------------------------------------------------------
(* A step is a step of one transaction; the others keep what they have.    *)
Statement(t) ==
  \/ LockParent(t) \/ Insert(t) \/ (\E r \in Rows : EndRow(t, r))
  \/ Report(t) \/ Post(t) \/ Resolve(t) \/ Wake(t)

Starts(t) ==
  \/ \E kind \in Lockers, c \in Children : Begin(t, kind, c)
  \/ \E kind \in Unlocked, due \in SUBSET Rows : BeginUnlocked(t, kind, due)

Keeps(t) ==
  /\ own' = [own EXCEPT ![t] = own'[t]]
  /\ hold' = [hold EXCEPT ![t] = hold'[t]]
  /\ tx' = [tx EXCEPT ![t] = tx'[t]]

LEMMA StepCases ==
  ASSUME Next
  PROVE  \E t \in Txs : Starts(t) \/ Statement(t) \/ Commit(t) \/ Abort(t)
BY DEF Next, Starts, Statement

LEMMA Writing ==
  ASSUME own \in [Txs -> [Rows -> Status \cup {"none"}]],
         NEW t \in Txs, NEW r \in Rows, NEW status \in Status,
         Write(t, r, status) \/ UNCHANGED own
  PROVE  /\ own' \in [Txs -> [Rows -> Status \cup {"none"}]]
         /\ own' = [own EXCEPT ![t] = own'[t]]
         /\ \A q \in Rows \ {r} : own'[t][q] = own[t][q]
         /\ own'[t][r] \in {own[t][r], status}
         /\ Write(t, r, status) => own'[t][r] = status
<1>1. CASE Write(t, r, status)
  <2>1. own' = [own EXCEPT ![t] = [own[t] EXCEPT ![r] = status]]
    BY <1>1 DEF Write
  <2>2. own'[t] = [own[t] EXCEPT ![r] = status]
    BY <2>1
  <2> QED BY <2>1, <2>2
<1>2. CASE UNCHANGED own
  BY <1>2 DEF Write
<1> QED BY <1>1, <1>2

(* The types, action by action.                                            *)
LEMMA TypeStep ==
  ASSUME TypeOK, NEW t \in Txs,
         Starts(t) \/ Statement(t) \/ Commit(t) \/ Abort(t)
  PROVE  TypeOK' /\ Keeps(t)
<1>0. Parent \in Rows /\ Children \subseteq Rows
  BY DEF Rows
<1>1. ASSUME NEW kind \in Lockers, NEW c \in Children, Begin(t, kind, c)
      PROVE  TypeOK' /\ Keeps(t)
  BY <1>0, <1>1 DEF TypeOK, Begin, Keeps, Idle
<1>2. ASSUME NEW kind \in Unlocked, NEW due \in SUBSET Rows, BeginUnlocked(t, kind, due)
      PROVE  TypeOK' /\ Keeps(t)
  BY <1>0, <1>2 DEF TypeOK, BeginUnlocked, Keeps, Idle
<1>3. ASSUME LockParent(t) PROVE TypeOK' /\ Keeps(t)
  BY ZenonT(60), <1>3 DEF TypeOK, LockParent, Goes, Keeps
<1>4. ASSUME Insert(t) PROVE TypeOK' /\ Keeps(t)
  BY ZenonT(60), <1>0, <1>4 DEF TypeOK, Insert, Goes, Keeps, Status
<1>5. ASSUME NEW r \in Rows, EndRow(t, r) PROVE TypeOK' /\ Keeps(t)
  <2>1. Write(t, r, "ended") \/ UNCHANGED own
    BY <1>5 DEF EndRow
  <2>2. /\ own' \in [Txs -> [Rows -> Status \cup {"none"}]]
        /\ own' = [own EXCEPT ![t] = own'[t]]
    BY <2>1, Writing DEF TypeOK, Status
  <2> QED
    BY ZenonT(60), <1>5, <2>2 DEF TypeOK, EndRow, Keeps
<1>6. ASSUME Report(t) PROVE TypeOK' /\ Keeps(t)
  BY ZenonT(60), <1>6 DEF TypeOK, Report, Goes, Keeps
<1>7. ASSUME Post(t) PROVE TypeOK' /\ Keeps(t)
  BY <1>7 DEF TypeOK, Post, Goes, Keeps
<1>8. ASSUME Resolve(t) PROVE TypeOK' /\ Keeps(t)
  BY ZenonT(60), <1>8 DEF TypeOK, Resolve, Goes, Keeps
<1>9. ASSUME Wake(t) PROVE TypeOK' /\ Keeps(t)
  <2>1. PICK status \in Status : Write(t, Parent, status) \/ UNCHANGED own
    BY <1>9 DEF Wake, Status
  <2>2. /\ own' \in [Txs -> [Rows -> Status \cup {"none"}]]
        /\ own' = [own EXCEPT ![t] = own'[t]]
    BY <1>0, <2>1, Writing DEF TypeOK
  <2> QED
    BY ZenonT(60), <1>9, <2>2 DEF TypeOK, Wake, Goes, Keeps
<1>10. ASSUME Over(t), db' \in [Rows -> Status] PROVE TypeOK' /\ Keeps(t)
  BY <1>10 DEF TypeOK, Over, Keeps, Idle, Unwritten
<1>11. ASSUME Commit(t) PROVE TypeOK' /\ Keeps(t)
  BY <1>10, <1>11 DEF TypeOK, Commit, View, Status
<1>12. ASSUME Abort(t) PROVE TypeOK' /\ Keeps(t)
  BY <1>10, <1>12 DEF TypeOK, Abort
<1> QED
  BY <1>1, <1>2, <1>3, <1>4, <1>5, <1>6, <1>7, <1>8, <1>9, <1>11, <1>12 DEF Starts, Statement

-----------------------------------------------------------------------------
(* What the moving transaction has beside the others.                      *)
Beside(t) ==
  \A s \in Others(t) :
    /\ hold[t] = "update" => hold[s] = "none" /\ own[s][Parent] = "none"
    /\ hold[s] = "update" => hold[t] = "none" /\ own[t][Parent] = "none"
    /\ own[t][Parent] # "none" => own[s][Parent] = "none"

LEMMA Bystanders ==
  ASSUME LockInv, NEW t \in Txs, TypeOK', Keeps(t), UNCHANGED db,
         LocalInv(t)', Beside(t)'
  PROVE  LockInv'
<1>1. \A s \in Txs \ {t} : own'[s] = own[s] /\ hold'[s] = hold[s] /\ tx'[s] = tx[s]
  BY DEF Keeps, LockInv, TypeOK
<1>2. ASSUME NEW s \in Txs PROVE LocalInv(s)'
  <2>1. CASE s = t BY <2>1
  <2>2. CASE s # t
    BY <1>1, <2>2 DEF LockInv, LocalInv, PlaceOf, WritesOf, AsksOf, View, Written
  <2> QED BY <2>1, <2>2
<1>3. Excludes'
  BY <1>1 DEF Excludes, Beside, Others, LockInv
<1> QED BY <1>2, <1>3 DEF LockInv

LEMMA LockStatement ==
  ASSUME LockInv, NEW t \in Txs, Starts(t) \/ Statement(t)
  PROVE  LockInv'
<1>0. Parent \in Rows /\ Children \subseteq Rows /\ Parent \notin Children
  BY JoinAssumption DEF Rows
<1>1. TypeOK /\ TypeOK' /\ Keeps(t)
  BY TypeStep DEF LockInv
<1>2. \A s \in Txs \ {t} : own'[s] = own[s] /\ hold'[s] = hold[s]
  BY <1>1 DEF Keeps, TypeOK
<1>3. LocalInv(t) /\ Beside(t)
  BY DEF LockInv, Excludes, Beside, Others
<1>4. SUFFICES UNCHANGED db /\ LocalInv(t)' /\ Beside(t)'
  BY <1>1, Bystanders
<1>5. ASSUME NEW kind \in Lockers, NEW c \in Children, Begin(t, kind, c)
      PROVE  UNCHANGED db /\ LocalInv(t)' /\ Beside(t)'
  <2>1. tx'[t] = [kind |-> kind, pc |-> "lock", todo |-> {c}] /\ UNCHANGED <<db, own, hold>>
    BY <1>1, <1>5 DEF Begin, TypeOK
  <2>2. own[t] = Unwritten /\ hold[t] = "none"
    BY <1>1, <1>5 DEF Begin, TypeOK
  <2> QED
    BY <1>0, <1>3, <2>1, <2>2
       DEF LocalInv, PlaceOf, WritesOf, AsksOf, Beside, Others, Unwritten, Lockers, View, Written
<1>6. ASSUME NEW kind \in Unlocked, NEW due \in SUBSET Rows, BeginUnlocked(t, kind, due)
      PROVE  UNCHANGED db /\ LocalInv(t)' /\ Beside(t)'
  <2>1. tx'[t] = [kind |-> kind, pc |-> "end", todo |-> due] /\ UNCHANGED <<db, own, hold>>
    BY <1>1, <1>6 DEF BeginUnlocked, TypeOK
  <2>2. own[t] = Unwritten /\ hold[t] = "none"
    BY <1>1, <1>6 DEF BeginUnlocked, TypeOK
  <2> QED
    BY <1>0, <1>3, <2>1, <2>2
       DEF LocalInv, PlaceOf, WritesOf, AsksOf, Beside, Others, Unwritten, Lockers, Unlocked,
           View, Written
<1>7. ASSUME LockParent(t)
      PROVE  UNCHANGED db /\ LocalInv(t)' /\ Beside(t)'
  <2>1. /\ tx'[t] = [tx[t] EXCEPT !.pc = IF tx[t].kind = "add" THEN "insert" ELSE "end"]
        /\ hold'[t] = "update" /\ UNCHANGED <<db, own>>
    BY <1>1, <1>7 DEF LockParent, Goes, TypeOK
  <2>2. Beside(t)'
    BY <1>2, <1>7, <2>1 DEF LockParent, Lockable, Beside, Others
  <2>3. own[t] = Unwritten /\ tx[t].kind \in Lockers
    BY <1>3, <1>7 DEF LockParent, LocalInv, PlaceOf
  <2> QED
    BY <1>0, <1>1, <1>3, <1>7, <2>1, <2>2, <2>3
       DEF LockParent, LocalInv, PlaceOf, WritesOf, AsksOf, Unwritten, Lockers, View, TypeOK
<1>8. ASSUME Insert(t)
      PROVE  UNCHANGED db /\ LocalInv(t)' /\ Beside(t)'
  <2>1. tx'[t] = [tx[t] EXCEPT !.pc = "commit"] /\ UNCHANGED <<db, hold>>
    BY <1>1, <1>8 DEF Insert, Goes, TypeOK
  <2>2. PICK c \in Children : tx[t].kind = "add" /\ tx[t].todo = {c} /\ hold[t] = "update"
    BY <1>3, <1>8 DEF Insert, LocalInv, PlaceOf, Lockers
  <2>3. own[t] = Unwritten
    BY <1>3, <1>8 DEF Insert, LocalInv, PlaceOf
  <2>4. /\ own'[t][c] = "live"
        /\ own'[t][Parent] = IF db[Parent] = "runnable" THEN "waiting-children" ELSE "none"
    BY <1>0, <1>1, <1>8, <2>2, <2>3 DEF Insert, TypeOK, Unwritten
  <2>5. Beside(t)'
    BY <1>2, <1>3, <2>1, <2>2 DEF Beside, Others
  <2> QED
    BY <1>0, <1>1, <1>3, <1>8, <2>1, <2>2, <2>4, <2>5
       DEF Insert, LocalInv, PlaceOf, WritesOf, AsksOf, Lockers, View, TypeOK
<1>9. ASSUME NEW r \in Rows, EndRow(t, r)
      PROVE  UNCHANGED db /\ LocalInv(t)' /\ Beside(t)'
  <2>1. tx'[t] = [tx[t] EXCEPT !.todo = @ \ {r}] /\ UNCHANGED <<db, hold>> /\ tx[t].pc = "end"
    BY <1>1, <1>9 DEF EndRow, TypeOK
  <2>2. tx[t].kind # "add"
    BY <1>3, <2>1 DEF LocalInv, PlaceOf
  <2>3. Write(t, r, "ended") \/ UNCHANGED own
    BY <1>9 DEF EndRow
  <2>4. /\ \A q \in Rows \ {r} : own'[t][q] = own[t][q]
        /\ own'[t][r] \in {own[t][r], "ended"}
    BY <1>1, <2>3, Writing DEF TypeOK, Status
  <2>5. own'[t][r] = own[t][r] \/ db[r] \in Ending
    BY <1>9 DEF EndRow
  <2>6. Beside(t)'
    <3>1. \A s \in Others(t) : own[s][r] = "none" /\ (r = Parent => hold[s] # "update")
      BY <1>9 DEF EndRow, Writable
    <3> QED
      BY <1>0, <1>2, <1>3, <2>1, <2>4, <3>1 DEF Beside, Others
  <2> QED
    BY <1>0, <1>1, <1>3, <2>1, <2>2, <2>4, <2>5, <2>6
       DEF LocalInv, PlaceOf, WritesOf, AsksOf, Lockers, View, TypeOK, Ending
<1>10. ASSUME Report(t)
       PROVE  UNCHANGED db /\ LocalInv(t)' /\ Beside(t)'
  <2>1. /\ tx'[t] = [tx[t] EXCEPT !.pc = IF Written(t) = {} THEN "commit"
                                         ELSE IF Posts(t) THEN "post" ELSE "resolve"]
        /\ UNCHANGED <<db, own, hold>> /\ tx[t].pc = "end"
    BY <1>1, <1>10 DEF Report, Goes, TypeOK
  <2> QED
    BY <1>0, <1>1, <1>3, <2>1
       DEF LocalInv, PlaceOf, WritesOf, AsksOf, Beside, Others, View, Written, Posts, TypeOK
<1>11. ASSUME Post(t)
       PROVE  UNCHANGED db /\ LocalInv(t)' /\ Beside(t)'
  <2>1. /\ tx'[t] = [tx[t] EXCEPT !.pc = "resolve"] /\ tx[t].pc = "post"
        /\ hold'[t] = (IF hold[t] = "update" THEN "update" ELSE "key") /\ UNCHANGED <<db, own>>
    BY <1>1, <1>11 DEF Post, Goes, TypeOK
  <2>2. Beside(t)'
    BY <1>2, <1>3, <1>11, <2>1 DEF Post, Shareable, Beside, Others
  <2> QED
    BY <1>0, <1>1, <1>3, <2>1, <2>2
       DEF LocalInv, PlaceOf, WritesOf, AsksOf, View, TypeOK, Lockers
<1>12. ASSUME Resolve(t)
       PROVE  UNCHANGED db /\ LocalInv(t)' /\ Beside(t)'
  <2>1. /\ tx'[t] = [tx[t] EXCEPT !.pc = IF Wakes(t) THEN "wake" ELSE "commit"]
        /\ UNCHANGED <<db, own, hold>> /\ tx[t].pc = "resolve"
    BY <1>1, <1>12 DEF Resolve, Goes, TypeOK
  <2> QED
    BY <1>0, <1>1, <1>3, <2>1
       DEF LocalInv, PlaceOf, WritesOf, AsksOf, Beside, Others, View, TypeOK, Wakes
<1>13. ASSUME Wake(t)
       PROVE  UNCHANGED db /\ LocalInv(t)' /\ Beside(t)'
  <2>1. tx'[t] = [tx[t] EXCEPT !.pc = "commit"] /\ UNCHANGED <<db, hold>> /\ tx[t].pc = "wake"
    BY <1>1, <1>13 DEF Wake, Goes, TypeOK
  <2>2. tx[t].kind # "add"
    BY <1>3, <2>1 DEF LocalInv, PlaceOf
  <2>3. PICK status \in {"ended", "runnable"} : Write(t, Parent, status) \/ UNCHANGED own
    BY <1>13 DEF Wake
  <2>4. /\ \A q \in Rows \ {Parent} : own'[t][q] = own[t][q]
        /\ own'[t][Parent] \in {own[t][Parent], status}
    BY <1>0, <1>1, <2>3, Writing DEF TypeOK, Status
  <2>5. own'[t][Parent] = own[t][Parent] \/ db[Parent] # "ended"
    BY <1>13 DEF Wake
  <2>6. Beside(t)'
    <3>1. \A s \in Others(t) : own[s][Parent] = "none" /\ hold[s] # "update"
      BY <1>13 DEF Wake, Writable
    <3> QED
      BY <1>2, <1>3, <2>1, <3>1 DEF Beside, Others
  <2>7. db[Parent] = "ended" => own'[t] = own[t]
    BY <1>13 DEF Wake
  <2> QED
    BY ZenonT(60), <1>0, <1>1, <1>3, <2>1, <2>2, <2>4, <2>5, <2>6, <2>7
       DEF LocalInv, PlaceOf, WritesOf, AsksOf, View, TypeOK, Lockers
<1> QED
  BY <1>5, <1>6, <1>7, <1>8, <1>9, <1>10, <1>11, <1>12, <1>13 DEF Starts, Statement

(* The end of a transaction changes the committed rows by what it wrote.   *)
LEMMA LockOver ==
  ASSUME LockInv, NEW t \in Txs, Commit(t) \/ Abort(t)
  PROVE  /\ LockInv'
         /\ own'[t] = Unwritten /\ hold'[t] = "none" /\ tx'[t] = Idle /\ raced' = raced
         /\ \A s \in Txs \ {t} : own'[s] = own[s] /\ hold'[s] = hold[s] /\ tx'[s] = tx[s]
         /\ \/ UNCHANGED db
            \/ tx[t].pc = "commit" /\ \A r \in Rows : db'[r] = View(t, r)
<1>0. Parent \in Rows /\ Children \subseteq Rows /\ Parent \notin Children
  BY JoinAssumption DEF Rows
<1>1. TypeOK /\ TypeOK' /\ Keeps(t) /\ Over(t)
  BY TypeStep DEF LockInv, Commit, Abort
<1>2. own'[t] = Unwritten /\ hold'[t] = "none" /\ tx'[t] = Idle /\ raced' = raced
  BY <1>1 DEF Over, TypeOK
<1>3. \A s \in Txs \ {t} : own'[s] = own[s] /\ hold'[s] = hold[s] /\ tx'[s] = tx[s]
  BY <1>1 DEF Keeps, TypeOK
<1>4. \/ UNCHANGED db
      \/ tx[t].pc = "commit" /\ \A r \in Rows : db'[r] = View(t, r)
  <2>1. ASSUME Commit(t) PROVE tx[t].pc = "commit" /\ \A r \in Rows : db'[r] = View(t, r)
    <3>1. tx[t].pc = "commit" /\ db' = [r \in Rows |-> View(t, r)]
      BY <2>1 DEF Commit
    <3> QED BY <3>1, Zenon
  <2>2. ASSUME Abort(t) PROVE UNCHANGED db
    BY <2>2 DEF Abort
  <2> QED BY <2>1, <2>2
<1>5. \A s \in Txs : LocalInv(s)
  BY DEF LockInv
<1>6. Excludes'
  BY <1>0, <1>2, <1>3 DEF LockInv, Excludes, Unwritten
<1>7. ASSUME NEW s \in Txs PROVE LocalInv(s)'
  <2>1. CASE s = t
    BY <1>0, <1>2, <2>1
       DEF LocalInv, PlaceOf, WritesOf, AsksOf, Idle, Unwritten, Lockers, View
  <2>2. CASE s # t
    <3>1. own[s][Parent] # "none" \/ hold[s] = "update" \/ db[Parent] = "ended"
            => db'[Parent] = db[Parent]
      <4>1. own[s][Parent] # "none" \/ hold[s] = "update" => own[t][Parent] = "none"
        BY <2>2 DEF LockInv, Excludes
      <4>2. db[Parent] = "ended" => own[t][Parent] = "none"
        BY <1>5 DEF LocalInv, WritesOf
      <4> QED BY <1>0, <1>4, <4>1, <4>2 DEF View
    <3>2. own'[s] = own[s] /\ hold'[s] = hold[s] /\ tx'[s] = tx[s]
      BY <1>3, <2>2
    <3>3. View(s, Parent) = "ended" => View(s, Parent)' = "ended"
      BY <3>1, <3>2 DEF View
    <3>4. PlaceOf(s)' /\ AsksOf(s)'
      BY <1>5, <3>2, <3>3 DEF LocalInv, PlaceOf, AsksOf, Written
    <3>5. WritesOf(s)'
      <4>1. tx[s].kind = "add" /\ tx[s].pc = "commit" => hold[s] = "update"
        BY <1>5 DEF LocalInv, PlaceOf, Lockers
      <4> QED BY <1>5, <3>1, <3>2, <4>1 DEF LocalInv, WritesOf, View
    <3> QED BY <3>4, <3>5 DEF LocalInv
  <2> QED BY <2>1, <2>2
<1> QED BY <1>1, <1>2, <1>3, <1>4, <1>6, <1>7 DEF LockInv

LEMMA LockInit == Init => LockInv
<1> SUFFICES ASSUME Init PROVE LockInv
  OBVIOUS
<1>0. Parent \in Rows /\ Children \subseteq Rows /\ Parent \notin Children
  BY JoinAssumption DEF Rows
<1>1. \A t \in Txs : own[t] = Unwritten /\ hold[t] = "none" /\ tx[t] = Idle
  BY DEF Init
<1>2. TypeOK
  BY DEF Init, TypeOK, Status, Unwritten, Idle
<1>3. Excludes
  BY <1>0, <1>1 DEF Excludes, Unwritten
<1>4. ASSUME NEW t \in Txs PROVE LocalInv(t)
  BY <1>0, <1>1, <1>4 DEF LocalInv, PlaceOf, WritesOf, AsksOf, Idle, Unwritten, Lockers
<1> QED BY <1>2, <1>3, <1>4 DEF LockInv

LEMMA LockNext == LockInv /\ [Next]_vars => LockInv'
<1>1. ASSUME LockInv, Next PROVE LockInv'
  <2>1. PICK t \in Txs : Starts(t) \/ Statement(t) \/ Commit(t) \/ Abort(t)
    BY <1>1, StepCases
  <2> QED BY <1>1, <2>1, LockStatement, LockOver
<1>2. ASSUME LockInv, UNCHANGED vars PROVE LockInv'
  BY <1>2 DEF vars, LockInv, TypeOK, Excludes, LocalInv, PlaceOf, WritesOf, AsksOf, View, Written
<1> QED BY <1>1, <1>2

(* Every row, write and lock of the join keeps its type, and a transaction *)
(* that is over leaves neither a write nor a lock behind.                  *)
THEOREM TypeCorrect == Spec => []TypeOK
<1>1. LockInv => TypeOK
  BY DEF LockInv
<1> QED BY <1>1, LockInit, LockNext, PTL DEF Spec

-----------------------------------------------------------------------------
(* The parent is not woken early: while the transaction that wakes it goes *)
(* on, no addition can commit, because it shares the parent's row.         *)
LEMMA EarlyNext == EarlyInv /\ [Next]_vars => EarlyInv'
<1>0. Parent \in Rows /\ Children \subseteq Rows /\ Parent \notin Children
  BY JoinAssumption DEF Rows
<1>1. ASSUME EarlyInv, NEW t \in Txs, Starts(t) \/ Statement(t) PROVE EarlyInv'
  <2>1. LockInv /\ LockInv' /\ TypeOK /\ TypeOK' /\ Keeps(t)
    BY <1>1, LockStatement, TypeStep DEF EarlyInv, LockInv
  <2>2. \A s \in Txs \ {t} : own'[s] = own[s] /\ hold'[s] = hold[s] /\ tx'[s] = tx[s]
    BY <2>1 DEF Keeps, TypeOK
  <2>3. UNCHANGED db
    BY <1>1 DEF Starts, Statement, Begin, BeginUnlocked, LockParent, Insert, EndRow, Report,
                Post, Resolve, Wake
  <2>4. ASSUME NEW s \in Txs, s # t PROVE WakesOf(s)'
    BY <1>1, <2>2, <2>3, <2>4 DEF EarlyInv, WakesOf, View
  <2>5. LocalInv(t) /\ LocalInv(t)' /\ WakesOf(t)
    BY <1>1, <2>1 DEF LockInv, EarlyInv
  <2>6. ASSUME tx'[t].pc \notin {"wake", "commit"} PROVE WakesOf(t)'
    BY <2>5, <2>6 DEF WakesOf, LocalInv, WritesOf
  <2>7. ASSUME Insert(t) PROVE WakesOf(t)'
    <3>1. tx'[t] = [tx[t] EXCEPT !.pc = "commit"] /\ tx[t].pc = "insert"
      BY <2>1, <2>7 DEF Insert, Goes, TypeOK
    <3>2. tx[t].kind = "add"
      BY <2>5, <3>1 DEF LocalInv, PlaceOf
    <3>3. tx'[t].kind = "add" /\ tx'[t].pc = "commit"
      BY <2>1, <3>1, <3>2 DEF TypeOK
    <3> QED BY <2>5, <3>3 DEF WakesOf, LocalInv, WritesOf
  <2>8. ASSUME Report(t) PROVE WakesOf(t)'
    <3>1. UNCHANGED own /\ tx[t].pc = "end" /\ tx'[t].pc # "wake"
      BY <2>1, <2>8 DEF Report, Goes, TypeOK
    <3>2. own[t][Parent] # "runnable"
      BY <2>5, <3>1 DEF LocalInv, WritesOf
    <3> QED BY <3>1, <3>2 DEF WakesOf
  <2>9. ASSUME Resolve(t) PROVE WakesOf(t)'
    <3>1. /\ tx'[t] = [tx[t] EXCEPT !.pc = IF Wakes(t) THEN "wake" ELSE "commit"]
          /\ UNCHANGED <<own, hold>> /\ tx[t].pc = "resolve"
      BY <2>1, <2>9 DEF Resolve, Goes, TypeOK
    <3>2. own[t][Parent] # "runnable"
      BY <2>5, <3>1 DEF LocalInv, WritesOf
    <3>3. tx'[t].pc = "wake" => Wakes(t) /\ tx'[t].kind = tx[t].kind
      BY <2>1, <3>1 DEF TypeOK
    <3>4. Wakes(t) => hold[t] # "none"
      BY <2>5, <3>1 DEF Wakes, LocalInv, AsksOf
    <3> QED BY <2>3, <3>1, <3>2, <3>3, <3>4 DEF WakesOf, Wakes, View
  <2>10. ASSUME Wake(t) PROVE WakesOf(t)'
    <3>1. tx'[t].pc = "commit" /\ tx[t].pc = "wake" /\ UNCHANGED hold
      BY <2>1, <2>10 DEF Wake, Goes, TypeOK
    <3>2. own[t][Parent] = "none"
      BY <2>5, <3>1 DEF LocalInv, WritesOf
    <3>3. PICK status \in {"ended", "runnable"} :
            /\ Write(t, Parent, status) \/ UNCHANGED own
            /\ status = "ended" <=> tx[t].kind = "fail_parent"
      BY <2>10 DEF Wake
    <3>4. /\ \A q \in Rows \ {Parent} : own'[t][q] = own[t][q]
          /\ own'[t][Parent] \in {own[t][Parent], status}
      BY <1>0, <2>1, <3>3, Writing DEF TypeOK, Status
    <3>5. own'[t][Parent] = "runnable" => tx[t].kind # "fail_parent"
      BY <3>2, <3>3, <3>4
    <3> QED BY <1>0, <2>3, <2>5, <3>1, <3>4, <3>5 DEF WakesOf, View
  <2>11. WakesOf(t)'
    <3>1. tx'[t].pc \in {"wake", "commit"} =>
            Insert(t) \/ Report(t) \/ Resolve(t) \/ Wake(t)
      <4>1. ASSUME NEW kind \in Lockers, NEW c \in Children, Begin(t, kind, c)
            PROVE  tx'[t].pc = "lock"
        BY <2>1, <4>1 DEF Begin, TypeOK
      <4>2. ASSUME NEW kind \in Unlocked, NEW due \in SUBSET Rows, BeginUnlocked(t, kind, due)
            PROVE  tx'[t].pc = "end"
        BY <2>1, <4>2 DEF BeginUnlocked, TypeOK
      <4>3. LockParent(t) => tx'[t].pc \in {"insert", "end"}
        BY <2>1 DEF LockParent, Goes, TypeOK
      <4>4. ASSUME NEW r \in Rows, EndRow(t, r) PROVE tx'[t].pc = "end"
        BY <2>1, <4>4 DEF EndRow, TypeOK
      <4>5. Post(t) => tx'[t].pc = "resolve"
        BY <2>1 DEF Post, Goes, TypeOK
      <4> QED BY <1>1, <4>1, <4>2, <4>3, <4>4, <4>5 DEF Starts, Statement
    <3> QED BY <2>6, <2>7, <2>8, <2>9, <2>10, <3>1
  <2> QED BY <1>1, <2>1, <2>3, <2>4, <2>11 DEF EarlyInv, NoEarlyWake, Joined
<1>2. ASSUME EarlyInv, NEW t \in Txs, Commit(t) \/ Abort(t) PROVE EarlyInv'
  <2>1. /\ LockInv /\ LockInv'
        /\ own'[t] = Unwritten /\ hold'[t] = "none" /\ tx'[t] = Idle
        /\ \A s \in Txs \ {t} : own'[s] = own[s] /\ hold'[s] = hold[s] /\ tx'[s] = tx[s]
        /\ \/ UNCHANGED db
           \/ tx[t].pc = "commit" /\ \A r \in Rows : db'[r] = View(t, r)
    BY <1>2, LockOver DEF EarlyInv
  <2>2. LocalInv(t) /\ WakesOf(t) /\ NoEarlyWake
    BY <1>2 DEF EarlyInv, LockInv
  <2>3. ASSUME NEW c \in Children, own[t][c] = "live"
        PROVE  hold[t] = "update" \/ tx[t].pc # "commit"
    BY <2>2, <2>3 DEF LocalInv, WritesOf, PlaceOf, Lockers
  <2>4. NoEarlyWake'
    <3>1. CASE UNCHANGED db
      BY <2>2, <3>1 DEF NoEarlyWake, Joined
    <3>2. CASE tx[t].pc = "commit" /\ \A r \in Rows : db'[r] = View(t, r)
      <4>1. SUFFICES ASSUME View(t, Parent) = "runnable", NEW c \in Children
                     PROVE  View(t, c) # "live"
        BY <1>0, <3>2 DEF NoEarlyWake, Joined
      <4>2. CASE own[t][Parent] = "runnable"
        BY <2>2, <4>2 DEF WakesOf
      <4>3. CASE own[t][Parent] # "runnable"
        <5>1. db[c] # "live"
          BY <2>2, <4>1, <4>3 DEF NoEarlyWake, Joined, View
        <5>2. tx[t].kind # "add"
          BY <2>2, <3>2, <4>1 DEF LocalInv, WritesOf
        <5> QED BY <2>2, <5>1, <5>2 DEF LocalInv, WritesOf, View
      <4> QED BY <4>2, <4>3
    <3> QED BY <2>1, <3>1, <3>2
  <2>5. ASSUME NEW s \in Txs PROVE WakesOf(s)'
    <3>1. CASE s = t
      BY <1>0, <2>1, <3>1 DEF WakesOf, Idle, Unwritten
    <3>2. CASE s # t
      <4>1. own'[s] = own[s] /\ hold'[s] = hold[s] /\ tx'[s] = tx[s] /\ WakesOf(s)
        BY <1>2, <2>1, <3>2 DEF EarlyInv
      <4>2. hold[s] # "none" => hold[t] # "update"
        BY <2>1, <3>2 DEF LockInv, Excludes
      <4>3. ASSUME NEW c \in Children, hold[s] # "none", View(s, c) # "live"
            PROVE  View(s, c)' # "live"
        <5>1. UNCHANGED db \/ db'[c] # "live" \/ db[c] = "live"
          BY <1>0, <2>1, <2>3, <4>2, <4>3 DEF View
        <5> QED BY <4>1, <4>3, <5>1 DEF View
      <4> QED BY <4>1, <4>3 DEF WakesOf
    <3> QED BY <3>1, <3>2
  <2> QED BY <2>1, <2>4, <2>5 DEF EarlyInv
<1>3. ASSUME EarlyInv, UNCHANGED vars PROVE EarlyInv'
  <2>1. LockInv'
    BY <1>3, LockNext DEF EarlyInv
  <2> QED BY <1>3, <2>1 DEF EarlyInv, vars, NoEarlyWake, Joined, WakesOf, View
<1> QED BY <1>1, <1>2, <1>3, StepCases

(* No interleaving of any number of transactions makes a parent runnable   *)
(* beside a live child: the foreign key of the inbox holds additions off.  *)
THEOREM NeverWokenEarly == Spec => []NoEarlyWake
<1>1. Init => EarlyInv
  BY JoinAssumption, LockInit
     DEF Init, EarlyInv, NoEarlyWake, Joined, WakesOf, Rows, Idle, Unwritten
<1>2. EarlyInv => NoEarlyWake
  BY DEF EarlyInv
<1> QED BY <1>1, <1>2, EarlyNext, PTL DEF Spec

-----------------------------------------------------------------------------
(* The parent is woken by the last end: a transaction that leaves it       *)
(* waiting sees a live child, and nobody can end that child beside it,     *)
(* for both would hold the parent, or both would leave it unlocked.        *)
LEMMA LeavesStatement ==
  ASSUME LastInv, NEW t \in Txs, Starts(t) \/ Statement(t), ~raced'
  PROVE  ~raced /\ UNCHANGED db /\ Alone' /\ LeavesOf(t)'
<1>0. Parent \in Rows /\ Children \subseteq Rows /\ Parent \notin Children
  BY JoinAssumption DEF Rows
<1>1. LockInv /\ LockInv' /\ TypeOK /\ TypeOK' /\ Keeps(t)
  BY LockStatement, TypeStep DEF LastInv, LockInv
<1>2. \A s \in Txs \ {t} : own'[s] = own[s] /\ hold'[s] = hold[s] /\ tx'[s] = tx[s]
  BY <1>1 DEF Keeps, TypeOK
<1>3. LocalInv(t) /\ LocalInv(t)'
  BY <1>1 DEF LockInv
<1>4. ~raced /\ UNCHANGED db
  <2>1. ASSUME NEW kind \in Unlocked, NEW due \in SUBSET Rows, BeginUnlocked(t, kind, due)
        PROVE  ~raced
    BY <2>1 DEF BeginUnlocked
  <2>2. ASSUME NEW kind \in Lockers, NEW c \in Children, Begin(t, kind, c) PROVE ~raced
    BY <2>2 DEF Begin
  <2>3. Statement(t) => ~raced
    BY DEF Statement, LockParent, Insert, EndRow, Report, Post, Resolve, Wake
  <2>4. UNCHANGED db
    BY DEF Starts, Statement, Begin, BeginUnlocked, LockParent, Insert, EndRow, Report,
           Post, Resolve, Wake
  <2> QED BY <2>1, <2>2, <2>3, <2>4 DEF Starts
<1>5. Alone /\ LeavesOf(t) /\ LastEndWakes
  BY <1>4 DEF LastInv
<1>6. Lockers \cap Unlocked = {}
  BY DEF Lockers, Unlocked
<1>7. ASSUME NEW kind \in Lockers, NEW c \in Children, Begin(t, kind, c)
      PROVE  Alone' /\ LeavesOf(t)'
  <2>1. tx'[t] = [kind |-> kind, pc |-> "lock", todo |-> {c}]
    BY <1>1, <1>7 DEF Begin, TypeOK
  <2> QED BY <1>2, <1>5, <1>6, <2>1 DEF Alone, LeavesOf
<1>8. ASSUME NEW kind \in Unlocked, NEW due \in SUBSET Rows, BeginUnlocked(t, kind, due)
      PROVE  Alone' /\ LeavesOf(t)'
  <2>1. tx'[t] = [kind |-> kind, pc |-> "end", todo |-> due]
    BY <1>1, <1>8 DEF BeginUnlocked, TypeOK
  <2>2. \A s \in Txs \ {t} : tx[s].kind \notin Unlocked
    BY <1>8 DEF BeginUnlocked, Others
  <2> QED BY <1>2, <2>1, <2>2 DEF Alone, LeavesOf
<1>9. ASSUME Statement(t) PROVE Alone'
  <2>1. tx'[t].kind = tx[t].kind
    BY <1>1, <1>9 DEF Statement, LockParent, Insert, EndRow, Report, Post, Resolve, Wake, Goes, TypeOK
  <2> QED BY <1>2, <1>5, <2>1 DEF Alone
<1>10. ASSUME Insert(t) PROVE LeavesOf(t)'
  <2>1. tx'[t] = [tx[t] EXCEPT !.pc = "commit"] /\ tx[t].pc = "insert"
    BY <1>1, <1>10 DEF Insert, Goes, TypeOK
  <2>2. tx'[t].kind = "add" /\ tx'[t].pc = "commit"
    BY <1>1, <1>3, <2>1 DEF LocalInv, PlaceOf, TypeOK
  <2>3. PICK c \in Children : own'[t][c] = "live"
    BY <1>3, <2>2 DEF LocalInv, WritesOf
  <2> QED BY <2>3 DEF LeavesOf, View
<1>11. ASSUME Report(t) PROVE LeavesOf(t)'
  <2>1. UNCHANGED own /\ (tx'[t].pc = "commit" => Written(t) = {})
    BY <1>1, <1>11 DEF Report, Goes, TypeOK
  <2>2. Written(t) = {} => \A r \in Rows : View(t, r)' = db[r]
    BY <1>4, <2>1 DEF Written, View
  <2>3. db[Parent] = "waiting-children" => \E c \in Children : db[c] = "live"
    BY <1>4, <1>5 DEF LastEndWakes, Waiting, Joined
  <2> QED BY <1>0, <2>1, <2>2, <2>3 DEF LeavesOf
<1>12. ASSUME Resolve(t) PROVE LeavesOf(t)'
  <2>1. UNCHANGED own /\ (tx'[t].pc = "commit" => ~Wakes(t))
    BY <1>1, <1>12 DEF Resolve, Goes, TypeOK
  <2> QED BY <1>4, <2>1 DEF LeavesOf, View, Wakes
<1>13. ASSUME Wake(t) PROVE LeavesOf(t)'
  <2>1. own[t][Parent] = "none"
    BY <1>3, <1>13 DEF Wake, LocalInv, WritesOf
  <2>2. CASE db[Parent] = "waiting-children"
    <3>1. PICK status \in {"ended", "runnable"} : Write(t, Parent, status)
      BY <1>13, <2>2 DEF Wake
    <3>2. own'[t][Parent] = status
      BY <1>0, <1>1, <3>1, Writing DEF TypeOK, Status
    <3> QED BY <3>2 DEF LeavesOf, View
  <2>3. CASE db[Parent] # "waiting-children"
    BY <1>4, <1>13, <2>1, <2>3 DEF Wake, LeavesOf, View
  <2> QED BY <2>2, <2>3
<1>14. ASSUME LockParent(t) \/ (\E r \in Rows : EndRow(t, r)) \/ Post(t)
       PROVE  LeavesOf(t)'
  <2>1. LockParent(t) => tx'[t].pc # "commit"
    BY <1>1 DEF LockParent, Goes, TypeOK
  <2>2. ASSUME NEW r \in Rows, EndRow(t, r) PROVE tx'[t].pc # "commit"
    BY <1>1, <2>2 DEF EndRow, TypeOK
  <2>3. Post(t) => tx'[t].pc # "commit"
    BY <1>1 DEF Post, Goes, TypeOK
  <2> QED BY <1>14, <2>1, <2>2, <2>3 DEF LeavesOf
<1> QED
  BY <1>4, <1>7, <1>8, <1>9, <1>10, <1>11, <1>12, <1>13, <1>14 DEF Starts, Statement

LEMMA LeavesCommit ==
  ASSUME LastInv, ~raced, NEW t \in Txs, tx[t].pc = "commit",
         \A r \in Rows : db'[r] = View(t, r),
         NEW s \in Txs \ {t},
         own'[s] = own[s] /\ hold'[s] = hold[s] /\ tx'[s] = tx[s]
  PROVE  LeavesOf(s)'
<1>0. Parent \in Rows /\ Children \subseteq Rows /\ Parent \notin Children
  BY JoinAssumption DEF Rows
<1>1. LocalInv(t) /\ LocalInv(s) /\ LeavesOf(t) /\ LeavesOf(s) /\ Alone /\ TypeOK /\ Excludes
  BY DEF LastInv, LockInv
<1> SUFFICES ASSUME tx[s].pc = "commit", View(s, Parent)' = "waiting-children"
             PROVE  \E c \in Children : View(s, c)' = "live"
  BY DEF LeavesOf
<1>2. CASE own[s][Parent] # "none"
  <2>1. own[s][Parent] = "waiting-children"
    BY <1>2 DEF View
  <2>2. PICK c \in Children : own[s][c] = "live"
    BY <1>1, <2>1 DEF LocalInv, WritesOf
  <2> QED BY <2>2 DEF View
<1>3. CASE own[s][Parent] = "none"
  <2>1. View(t, Parent) = "waiting-children"
    BY <1>0, <1>3 DEF View
  <2>2. PICK c \in Children : View(t, c) = "live" /\ db'[c] = "live"
    BY <1>0, <1>1, <2>1 DEF LeavesOf
  <2>3. db[Parent] # "ended"
    BY <1>1, <2>1 DEF LocalInv, WritesOf, View
  <2>4. CASE Written(s) = {}
    BY <1>0, <2>2, <2>4 DEF Written, View
  <2>5. CASE hold[s] = "update"
    <3>1. hold[t] = "none" /\ own[t][Parent] = "none"
      BY <1>1, <2>5 DEF Excludes
    <3>2. Written(t) = {}
      BY <1>1, <2>1, <3>1 DEF LocalInv, AsksOf
    <3>3. \A r \in Rows : View(s, r)' = View(s, r)
      BY <3>2 DEF Written, View
    <3> QED BY <1>0, <1>1, <3>3 DEF LeavesOf
  <2>6. CASE hold[s] = "key"
    <3>1. hold[t] # "update"
      BY <1>1, <2>6 DEF Excludes
    <3>2. tx[t].kind \in Unlocked /\ tx[s].kind \in Unlocked
      BY <1>1, <2>6, <3>1 DEF LocalInv, PlaceOf, TypeOK
    <3> QED BY <1>1, <3>2 DEF Alone
  <2>7. hold[s] # "none" \/ Written(s) = {}
    BY <1>1, <1>3, <2>3 DEF LocalInv, AsksOf, View
  <2> QED BY <1>1, <2>4, <2>5, <2>6, <2>7 DEF TypeOK
<1> QED BY <1>2, <1>3

LEMMA LastNext == LastInv /\ [Next]_vars => LastInv'
<1>0. Parent \in Rows /\ Children \subseteq Rows /\ Parent \notin Children
  BY JoinAssumption DEF Rows
<1>1. ASSUME LastInv, NEW t \in Txs, Starts(t) \/ Statement(t) PROVE LastInv'
  <2>1. LockInv' /\ Keeps(t) /\ TypeOK
    BY <1>1, LockStatement, TypeStep DEF LastInv, LockInv
  <2>2. \A s \in Txs \ {t} : own'[s] = own[s] /\ tx'[s] = tx[s]
    BY <2>1 DEF Keeps, TypeOK
  <2>3. ASSUME ~raced' PROVE ~raced /\ UNCHANGED db /\ Alone' /\ LeavesOf(t)'
    BY <1>1, <2>3, LeavesStatement
  <2>4. ASSUME ~raced', NEW s \in Txs, s # t PROVE LeavesOf(s)'
    BY <1>1, <2>2, <2>3, <2>4 DEF LastInv, LeavesOf, View
  <2>5. LastEndWakes'
    BY <1>1, <2>3 DEF LastInv, LastEndWakes, Waiting, Joined
  <2> QED BY <2>1, <2>3, <2>4, <2>5 DEF LastInv
<1>2. ASSUME LastInv, NEW t \in Txs, Commit(t) \/ Abort(t) PROVE LastInv'
  <2>1. /\ LockInv' /\ tx'[t] = Idle /\ raced' = raced
        /\ \A s \in Txs \ {t} : own'[s] = own[s] /\ hold'[s] = hold[s] /\ tx'[s] = tx[s]
        /\ \/ UNCHANGED db
           \/ tx[t].pc = "commit" /\ \A r \in Rows : db'[r] = View(t, r)
    BY <1>2, LockOver DEF LastInv
  <2>2. ASSUME ~raced PROVE Alone'
    BY <1>2, <2>1, <2>2 DEF LastInv, Alone, Idle, Unlocked
  <2>3. ASSUME ~raced, NEW s \in Txs PROVE LeavesOf(s)'
    <3>1. CASE s = t
      BY <2>1, <3>1 DEF LeavesOf, Idle
    <3>2. CASE s # t /\ UNCHANGED db
      BY <1>2, <2>1, <2>3, <3>2 DEF LastInv, LeavesOf, View
    <3>3. CASE s # t /\ tx[t].pc = "commit" /\ \A r \in Rows : db'[r] = View(t, r)
      BY <1>2, <2>1, <2>3, <3>3, LeavesCommit
    <3> QED BY <2>1, <3>1, <3>2, <3>3
  <2>4. LastEndWakes'
    <3>1. CASE UNCHANGED db
      BY <1>2, <2>1, <3>1 DEF LastInv, LastEndWakes, Waiting, Joined
    <3>2. CASE tx[t].pc = "commit" /\ \A r \in Rows : db'[r] = View(t, r)
      BY <1>0, <1>2, <2>1, <3>2 DEF LastInv, LeavesOf, LastEndWakes, Waiting, Joined
    <3> QED BY <2>1, <3>1, <3>2
  <2> QED BY <2>1, <2>2, <2>3, <2>4 DEF LastInv
<1>3. ASSUME LastInv, UNCHANGED vars PROVE LastInv'
  <2>1. LockInv'
    BY <1>3, LockNext DEF LastInv
  <2> QED BY <1>3, <2>1 DEF LastInv, vars, LastEndWakes, Waiting, Joined, Alone, LeavesOf, View
<1> QED BY <1>1, <1>2, <1>3, StepCases

(* While no two of the transactions that do not lock the parent are open   *)
(* at once, the one that ends the last live child wakes the parent, for    *)
(* any number of children and of transactions.                             *)
THEOREM LastEndAlwaysWakes == Spec => []LastEndWakes
<1>1. Init => LastInv
  <2> SUFFICES ASSUME Init PROVE LastInv
    OBVIOUS
  <2>1. LockInv
    BY LockInit
  <2>2. db[Parent] = "runnable" /\ \A t \in Txs : tx[t] = Idle
    BY DEF Init, Rows
  <2> QED BY <2>1, <2>2 DEF LastInv, LastEndWakes, Waiting, Alone, LeavesOf, Idle, Unlocked
<1>2. LastInv => LastEndWakes
  BY DEF LastInv
<1> QED BY <1>1, <1>2, LastNext, PTL DEF Spec

-----------------------------------------------------------------------------
(* The commits implement AtomicJoin.                                       *)

(* A transaction writes only what nobody else may write, over what it      *)
(* found: its addition is still unborn, the rows it ends are still open.   *)
Apart ==
  \A t, s \in Txs : t # s =>
    /\ tx[t].kind = "add" /\ tx[s].kind = "add" => tx[t].todo \cap tx[s].todo = {}
    /\ \A r \in Rows : own[t][r] # "none" => own[s][r] = "none"

RowsOf(t) ==
  /\ tx[t].kind = "add" =>
       /\ \A c \in tx[t].todo : db[c] = "unborn"
       /\ \A c \in Children : own[t][c] # "none" => c \in tx[t].todo
  /\ \A r \in Rows : own[t][r] = "ended" => db[r] \in Ending
  /\ own[t][Parent] = "waiting-children" => db[Parent] = "runnable"
  /\ own[t][Parent] = "runnable" => db[Parent] = "waiting-children"

(* It wakes only for a row it ended, and a failed child alone ends the     *)
(* parent by itself.                                                       *)
CausesOf(t) ==
  /\ tx[t].pc \in {"post", "resolve", "wake"} => Written(t) # {}
  /\ own[t][Parent] = "runnable" =>
       tx[t].kind # "fail_parent" /\ \E c \in Children : own[t][c] = "ended"
  /\ tx[t].kind = "fail_parent" =>
       \E c \in Children :
         /\ tx[t].todo \subseteq {c} /\ \A q \in Children \ {c} : own[t][q] = "none"
         /\ own[t][Parent] # "none" =>
              tx[t].pc = "commit" /\ db[Parent] = "waiting-children" /\ own[t][c] = "ended"
         /\ tx[t].pc = "commit" /\ own[t][c] # "none" => View(t, Parent) # "waiting-children"

ChildRows == \A c \in Children : db[c] \in {"unborn", "live", "ended"}

WriteInv == LockInv /\ Apart /\ ChildRows /\ \A t \in Txs : RowsOf(t) /\ CausesOf(t)

ApartOf(t) ==
  \A s \in Others(t) :
    /\ tx[t].kind = "add" /\ tx[s].kind = "add" => tx[t].todo \cap tx[s].todo = {}
    /\ \A r \in Rows : own[t][r] # "none" => own[s][r] = "none"

LEMMA WriteBystanders ==
  ASSUME WriteInv, NEW t \in Txs, Keeps(t), UNCHANGED db, LockInv',
         ApartOf(t)', RowsOf(t)', CausesOf(t)'
  PROVE  WriteInv'
<1>1. \A s \in Txs \ {t} : own'[s] = own[s] /\ hold'[s] = hold[s] /\ tx'[s] = tx[s]
  BY DEF Keeps, WriteInv, LockInv, TypeOK
<1>2. ASSUME NEW s \in Txs PROVE RowsOf(s)' /\ CausesOf(s)'
  <2>1. CASE s = t BY <2>1
  <2>2. CASE s # t
    BY <1>1, <2>2 DEF WriteInv, RowsOf, CausesOf, View, Written
  <2> QED BY <2>1, <2>2
<1>3. Apart'
  <2> SUFFICES ASSUME NEW a \in Txs, NEW b \in Txs, a # b
               PROVE  /\ tx'[a].kind = "add" /\ tx'[b].kind = "add" => tx'[a].todo \cap tx'[b].todo = {}
                      /\ \A r \in Rows : own'[a][r] # "none" => own'[b][r] = "none"
    BY DEF Apart
  <2>1. CASE a = t
    BY <2>1 DEF ApartOf, Others
  <2>2. CASE b = t
    BY <2>2 DEF ApartOf, Others
  <2>3. CASE a # t /\ b # t
    BY <1>1, <2>3 DEF WriteInv, Apart
  <2> QED BY <2>1, <2>2, <2>3
<1>4. ChildRows'
  BY DEF WriteInv, ChildRows
<1> QED BY <1>2, <1>3, <1>4 DEF WriteInv

LEMMA WriteStatement ==
  ASSUME WriteInv, NEW t \in Txs, Starts(t) \/ Statement(t)
  PROVE  WriteInv' /\ UNCHANGED db
<1>0. Parent \in Rows /\ Children \subseteq Rows /\ Parent \notin Children
  BY JoinAssumption DEF Rows
<1>1. LockInv' /\ TypeOK /\ TypeOK' /\ Keeps(t)
  BY LockStatement, TypeStep DEF WriteInv, LockInv
<1>2. \A s \in Txs \ {t} : own'[s] = own[s] /\ tx'[s] = tx[s]
  BY <1>1 DEF Keeps, TypeOK
<1>3. LocalInv(t) /\ ApartOf(t) /\ RowsOf(t) /\ CausesOf(t)
  BY DEF WriteInv, LockInv, Apart, ApartOf, Others
<1>4. UNCHANGED db
  BY DEF Starts, Statement, Begin, BeginUnlocked, LockParent, Insert, EndRow, Report,
         Post, Resolve, Wake
<1> SUFFICES ApartOf(t)' /\ RowsOf(t)' /\ CausesOf(t)'
  BY <1>1, <1>4, WriteBystanders
<1>5. ASSUME NEW kind \in Lockers, NEW c \in Children, Begin(t, kind, c)
      PROVE  ApartOf(t)' /\ RowsOf(t)' /\ CausesOf(t)'
  <2>1. /\ tx'[t] = [kind |-> kind, pc |-> "lock", todo |-> {c}] /\ UNCHANGED own
        /\ own[t] = Unwritten
    BY <1>1, <1>5 DEF Begin, TypeOK
  <2>2. kind = "add" => db[c] = "unborn" /\ \A s \in Txs : tx[s].kind = "add" => c \notin tx[s].todo
    BY <1>5 DEF Begin
  <2>3. ApartOf(t)'
    BY <1>2, <2>1, <2>2 DEF ApartOf, Others, Unwritten
  <2>4. RowsOf(t)'
    BY <1>0, <1>4, <2>1, <2>2 DEF RowsOf, Unwritten
  <2>5. CausesOf(t)'
    BY <1>0, <2>1 DEF CausesOf, Unwritten
  <2> QED BY <2>3, <2>4, <2>5
<1>6. ASSUME NEW kind \in Unlocked, NEW due \in SUBSET Rows, BeginUnlocked(t, kind, due)
      PROVE  ApartOf(t)' /\ RowsOf(t)' /\ CausesOf(t)'
  <2>1. /\ tx'[t] = [kind |-> kind, pc |-> "end", todo |-> due] /\ UNCHANGED own
        /\ own[t] = Unwritten /\ kind \notin {"add", "fail_parent"}
    BY <1>1, <1>6 DEF BeginUnlocked, TypeOK, Unlocked
  <2>2. ApartOf(t)'
    BY <1>2, <2>1 DEF ApartOf, Others, Unwritten
  <2> QED BY <1>0, <2>1, <2>2 DEF RowsOf, CausesOf, Unwritten
<1>7. ASSUME NEW pc, tx' = [tx EXCEPT ![t].pc = pc], UNCHANGED own
      PROVE  ApartOf(t)' /\ RowsOf(t)'
  <2>1. tx'[t].kind = tx[t].kind /\ tx'[t].todo = tx[t].todo
    BY <1>1, <1>7 DEF TypeOK
  <2> QED BY <1>2, <1>3, <1>4, <1>7, <2>1 DEF ApartOf, RowsOf, Others
<1>8. ASSUME NEW pc, tx' = [tx EXCEPT ![t].pc = pc], UNCHANGED own, tx[t].pc # "commit",
             pc \in {"post", "resolve", "wake"} => Written(t) # {},
             pc = "commit" /\ tx[t].kind = "fail_parent" =>
               Written(t) = {} \/ View(t, Parent) # "waiting-children"
      PROVE  CausesOf(t)'
  <2>1. /\ tx'[t].kind = tx[t].kind /\ tx'[t].todo = tx[t].todo /\ tx'[t].pc = pc
        /\ Written(t)' = Written(t) /\ View(t, Parent)' = View(t, Parent)
    BY <1>1, <1>4, <1>8 DEF TypeOK, Written, View
  <2>2. \A c \in Children : own[t][c] # "none" => Written(t) # {}
    BY <1>0 DEF Written
  <2> QED BY <1>3, <1>4, <1>8, <2>1, <2>2 DEF CausesOf
<1>9. ASSUME LockParent(t)
      PROVE  ApartOf(t)' /\ RowsOf(t)' /\ CausesOf(t)'
  BY <1>7, <1>8, <1>9 DEF LockParent, Goes
<1>10. ASSUME Insert(t)
       PROVE  ApartOf(t)' /\ RowsOf(t)' /\ CausesOf(t)'
  <2>1. /\ tx'[t].kind = "add" /\ tx'[t].todo = tx[t].todo /\ tx'[t].pc = "commit"
        /\ tx[t].kind = "add" /\ own[t] = Unwritten /\ hold[t] = "update"
    BY <1>1, <1>3, <1>10 DEF Insert, Goes, TypeOK, LocalInv, PlaceOf, Lockers
  <2>2. PICK c \in Children : tx[t].todo = {c}
    BY <1>3, <2>1 DEF LocalInv, PlaceOf
  <2>3. /\ own'[t][c] = "live"
        /\ own'[t][Parent] = IF db[Parent] = "runnable" THEN "waiting-children" ELSE "none"
        /\ \A r \in Rows \ {c, Parent} : own'[t][r] = "none"
    BY <1>0, <1>1, <1>10, <2>1, <2>2 DEF Insert, TypeOK, Unwritten
  <2>4. db[c] = "unborn"
    BY <1>3, <2>1, <2>2 DEF RowsOf
  <2>5. \A s \in Others(t) : own[s][c] = "none" /\ own[s][Parent] = "none"
    <3>1. ASSUME NEW s \in Others(t), own[s][c] # "none" PROVE FALSE
      <4>1. tx[s].kind # "add"
        BY <1>3, <2>1, <2>2, <3>1 DEF WriteInv, RowsOf, ApartOf, Others
      <4>2. own[s][c] = "ended"
        BY <3>1, <4>1 DEF WriteInv, LockInv, LocalInv, WritesOf, Others
      <4> QED BY <1>0, <2>4, <3>1, <4>2 DEF WriteInv, RowsOf, Others, Ending
    <3>2. \A s \in Others(t) : own[s][Parent] = "none"
      BY <2>1 DEF WriteInv, LockInv, Excludes, Others
    <3> QED BY <3>1, <3>2
  <2>6. ApartOf(t)'
    BY <1>2, <1>3, <2>1, <2>3, <2>5 DEF ApartOf, Others
  <2>7. RowsOf(t)'
    BY <1>0, <1>4, <2>1, <2>2, <2>3, <2>4 DEF RowsOf
  <2>8. CausesOf(t)'
    BY <2>1, <2>3 DEF CausesOf
  <2> QED BY <2>6, <2>7, <2>8
<1>11. ASSUME NEW r \in Rows, EndRow(t, r)
       PROVE  ApartOf(t)' /\ RowsOf(t)' /\ CausesOf(t)'
  <2>1. tx'[t] = [tx[t] EXCEPT !.todo = @ \ {r}] /\ tx[t].pc = "end" /\ r \in tx[t].todo
    BY <1>1, <1>11 DEF EndRow, TypeOK
  <2>2. /\ tx'[t].pc = "end" /\ tx'[t].kind = tx[t].kind /\ tx'[t].todo = tx[t].todo \ {r}
        /\ tx[t].kind # "add"
    BY <1>1, <1>3, <2>1 DEF LocalInv, PlaceOf, TypeOK
  <2>3. Write(t, r, "ended") \/ UNCHANGED own
    BY <1>11 DEF EndRow
  <2>4. /\ \A q \in Rows \ {r} : own'[t][q] = own[t][q]
        /\ own'[t][r] \in {own[t][r], "ended"}
    BY <1>1, <2>3, Writing DEF TypeOK, Status
  <2>5. own'[t][r] = own[t][r] \/ db[r] \in Ending
    BY <1>11 DEF EndRow
  <2>6. ApartOf(t)'
    <3>1. \A s \in Others(t) : own[s][r] = "none"
      BY <1>11 DEF EndRow, Writable
    <3> QED BY <1>2, <1>3, <2>2, <2>4, <3>1 DEF ApartOf, Others
  <2>7. RowsOf(t)'
    BY <1>0, <1>3, <1>4, <2>2, <2>4, <2>5 DEF RowsOf
  <2>8. CausesOf(t)'
    <3>1. own[t][Parent] # "runnable"
      BY <1>3, <2>1 DEF LocalInv, WritesOf
    <3>2. own'[t][Parent] # "runnable"
      BY <1>0, <2>4, <3>1
    <3>3. ASSUME tx[t].kind = "fail_parent"
          PROVE  \E c \in Children : /\ tx'[t].todo \subseteq {c}
                                     /\ \A q \in Children \ {c} : own'[t][q] = "none"
                                     /\ own'[t][Parent] = "none"
      <4>1. PICK c \in Children : /\ tx[t].todo \subseteq {c}
                                  /\ \A q \in Children \ {c} : own[t][q] = "none"
                                  /\ own[t][Parent] = "none"
        BY <1>3, <2>1, <3>3 DEF CausesOf
      <4> QED BY <1>0, <2>1, <2>2, <2>4, <4>1
    <3> QED BY <2>2, <3>2, <3>3 DEF CausesOf
  <2> QED BY <2>6, <2>7, <2>8
<1>12. ASSUME Report(t)
       PROVE  ApartOf(t)' /\ RowsOf(t)' /\ CausesOf(t)'
  <2>1. tx' = [tx EXCEPT ![t].pc = IF Written(t) = {} THEN "commit"
                                   ELSE IF Posts(t) THEN "post" ELSE "resolve"]
        /\ UNCHANGED own /\ tx[t].pc = "end"
    BY <1>12 DEF Report, Goes
  <2> QED BY <1>7, <1>8, <2>1
<1>13. ASSUME Post(t)
       PROVE  ApartOf(t)' /\ RowsOf(t)' /\ CausesOf(t)'
  <2>1. Written(t) # {}
    BY <1>3, <1>13 DEF Post, CausesOf
  <2> QED BY <1>7, <1>8, <1>13, <2>1 DEF Post, Goes
<1>14. ASSUME Resolve(t)
       PROVE  ApartOf(t)' /\ RowsOf(t)' /\ CausesOf(t)'
  <2>1. Written(t) # {}
    BY <1>3, <1>14 DEF Resolve, CausesOf
  <2>2. tx[t].kind = "fail_parent" /\ ~Wakes(t) => View(t, Parent) # "waiting-children"
    BY DEF Wakes
  <2>3. tx' = [tx EXCEPT ![t].pc = IF Wakes(t) THEN "wake" ELSE "commit"]
        /\ UNCHANGED own /\ tx[t].pc = "resolve"
    BY <1>14 DEF Resolve, Goes
  <2> QED BY <1>7, <1>8, <2>1, <2>2, <2>3
<1>15. ASSUME Wake(t)
       PROVE  ApartOf(t)' /\ RowsOf(t)' /\ CausesOf(t)'
  <2>1. /\ tx'[t].kind = tx[t].kind /\ tx'[t].todo = tx[t].todo /\ tx'[t].pc = "commit"
        /\ tx[t].pc = "wake"
    BY <1>1, <1>15 DEF Wake, Goes, TypeOK
  <2>2. tx[t].kind # "add" /\ own[t][Parent] = "none" /\ Written(t) # {}
    BY <1>3, <2>1 DEF LocalInv, PlaceOf, WritesOf, CausesOf
  <2>3. \E c \in Children : own[t][c] = "ended"
    BY <1>3, <2>2 DEF LocalInv, WritesOf, Written, Rows
  <2>4. \A s \in Others(t) : own[s][Parent] = "none"
    BY <1>15 DEF Wake, Writable
  <2>5. CASE db[Parent] # "waiting-children"
    <3>1. UNCHANGED own
      BY <1>15, <2>5 DEF Wake
    <3>2. ApartOf(t)' /\ RowsOf(t)'
      BY <1>7, <1>15, <3>1 DEF Wake, Goes
    <3>3. View(t, Parent)' # "waiting-children"
      BY <1>4, <2>2, <2>5, <3>1 DEF View
    <3>4. CausesOf(t)'
      BY <1>3, <1>4, <2>1, <2>2, <3>1, <3>3 DEF CausesOf
    <3> QED BY <3>2, <3>4
  <2>6. CASE db[Parent] = "waiting-children"
    <3>1. PICK status : /\ status = IF tx[t].kind = "fail_parent" THEN "ended" ELSE "runnable"
                        /\ Write(t, Parent, status)
      BY <1>15, <2>6 DEF Wake
    <3>2. /\ \A q \in Rows \ {Parent} : own'[t][q] = own[t][q]
          /\ own'[t][Parent] = status
      BY <1>0, <1>1, <3>1, Writing DEF TypeOK, Status
    <3>3. ApartOf(t)'
      BY <1>0, <1>2, <1>3, <2>1, <2>4, <3>2 DEF ApartOf, Others
    <3>4. RowsOf(t)'
      BY <1>0, <1>3, <1>4, <2>1, <2>2, <2>6, <3>1, <3>2 DEF RowsOf, Ending
    <3>5. CausesOf(t)'
      <4>1. CASE tx[t].kind = "fail_parent"
        <5>1. own'[t][Parent] = "ended" /\ View(t, Parent)' # "waiting-children"
          BY <3>1, <3>2, <4>1 DEF View
        <5>2. PICK c \in Children : /\ tx[t].todo \subseteq {c}
                                    /\ \A q \in Children \ {c} : own[t][q] = "none"
          BY <1>3, <4>1 DEF CausesOf
        <5>3. own[t][c] = "ended"
          BY <2>3, <5>2
        <5> QED BY <1>0, <1>4, <2>1, <2>6, <3>2, <5>1, <5>2, <5>3 DEF CausesOf
      <4>2. CASE tx[t].kind # "fail_parent"
        BY <1>0, <2>1, <2>3, <3>2, <4>2 DEF CausesOf
      <4> QED BY <4>1, <4>2
    <3> QED BY <3>3, <3>4, <3>5
  <2> QED BY <2>5, <2>6
<1> QED
  BY <1>5, <1>6, <1>9, <1>10, <1>11, <1>12, <1>13, <1>14, <1>15 DEF Starts, Statement

(* A commit changes rows that no other transaction has written.            *)
LEMMA WriteOver ==
  ASSUME WriteInv, NEW t \in Txs, Commit(t) \/ Abort(t)
  PROVE  WriteInv'
<1>0. Parent \in Rows /\ Children \subseteq Rows /\ Parent \notin Children
  BY JoinAssumption DEF Rows
<1>1. /\ LockInv' /\ own'[t] = Unwritten /\ tx'[t] = Idle
      /\ \A s \in Txs \ {t} : own'[s] = own[s] /\ hold'[s] = hold[s] /\ tx'[s] = tx[s]
      /\ \/ UNCHANGED db
         \/ tx[t].pc = "commit" /\ \A r \in Rows : db'[r] = View(t, r)
  BY LockOver DEF WriteInv
<1>2. LocalInv(t) /\ RowsOf(t)
  BY DEF WriteInv, LockInv
<1>3. Apart'
  BY <1>1 DEF WriteInv, Apart, Idle, Unwritten
<1>4. ChildRows'
  <2> SUFFICES ASSUME NEW c \in Children PROVE db'[c] \in {"unborn", "live", "ended"}
    BY DEF ChildRows
  <2>1. db[c] \in {"unborn", "live", "ended"}
    BY DEF WriteInv, ChildRows
  <2>2. own[t][c] \in {"none", "live", "ended"}
    <3>1. CASE tx[t].kind = "add"
      <4>1. own[t][c] # "none" => tx[t].pc = "commit" /\ c \in tx[t].todo
        BY <1>0, <1>2, <3>1 DEF RowsOf, LocalInv, PlaceOf, Unwritten
      <4>2. own[t][c] # "none" => own[t][c] = "live"
        BY <1>2, <3>1, <4>1 DEF LocalInv, PlaceOf, WritesOf, RowsOf
      <4> QED BY <4>2
    <3>2. CASE tx[t].kind # "add"
      BY <1>2, <3>2 DEF LocalInv, WritesOf
    <3> QED BY <3>1, <3>2
  <2> QED BY <1>0, <1>1, <2>1, <2>2 DEF View
<1>5. ASSUME NEW s \in Txs PROVE RowsOf(s)' /\ CausesOf(s)'
  <2>1. CASE s = t
    BY <1>0, <1>1, <2>1 DEF RowsOf, CausesOf, Idle, Unwritten
  <2>2. CASE s # t
    <3>1. own'[s] = own[s] /\ tx'[s] = tx[s] /\ hold'[s] = hold[s]
      BY <1>1, <2>2
    <3>2. ASSUME NEW r \in Rows, own[t][r] = "none" PROVE db'[r] = db[r]
      BY <1>1, <3>2 DEF View
    <3>3. \A r \in Rows : own[s][r] # "none" => db'[r] = db[r]
      BY <2>2, <3>2 DEF WriteInv, Apart
    <3>4. ASSUME tx[s].kind = "add", NEW c \in tx[s].todo PROVE db'[c] = "unborn"
      <4>1. c \in Children /\ db[c] = "unborn"
        BY <3>4 DEF WriteInv, RowsOf, LockInv, LocalInv, PlaceOf
      <4>2. own[t][c] = "none"
        <5>1. CASE tx[t].kind = "add"
          BY <1>2, <2>2, <3>4, <4>1, <5>1 DEF WriteInv, Apart, RowsOf
        <5>2. CASE tx[t].kind # "add"
          BY <1>0, <1>2, <4>1, <5>2 DEF LocalInv, WritesOf, RowsOf, Ending
        <5> QED BY <5>1, <5>2
      <4> QED BY <1>0, <3>2, <4>1, <4>2
    <3>5. RowsOf(s)'
      BY <1>0, <3>1, <3>3, <3>4 DEF WriteInv, RowsOf
    <3>6. Written(s)' = Written(s)
      BY <3>1 DEF Written
    <3>7. ASSUME tx[s].kind = "fail_parent", tx[s].pc = "commit"
          PROVE  View(s, Parent)' = View(s, Parent)
      <4>1. hold[s] = "update"
        BY <3>7 DEF WriteInv, LockInv, LocalInv, PlaceOf, Lockers
      <4>2. own[t][Parent] = "none"
        BY <2>2, <4>1 DEF WriteInv, LockInv, Excludes
      <4> QED BY <1>0, <3>1, <3>2, <4>2 DEF View
    <3>8. CausesOf(s)'
      BY <1>0, <3>1, <3>3, <3>6, <3>7 DEF WriteInv, CausesOf
    <3> QED BY <3>5, <3>8
  <2> QED BY <2>1, <2>2
<1> QED BY <1>1, <1>3, <1>4, <1>5 DEF WriteInv

LEMMA WriteNext == WriteInv /\ [Next]_vars => WriteInv'
<1>1. ASSUME WriteInv, UNCHANGED vars PROVE WriteInv'
  <2>1. LockInv'
    BY <1>1, LockNext DEF WriteInv
  <2> QED BY <1>1, <2>1 DEF WriteInv, vars, Apart, ChildRows, RowsOf, CausesOf, Written, View
<1> QED BY <1>1, StepCases, WriteStatement, WriteOver

CommitInv == EarlyInv /\ LastInv /\ WriteInv

LEMMA CommitInit == Init => CommitInv
<1> SUFFICES ASSUME Init PROVE CommitInv
  OBVIOUS
<1>0. Parent \in Rows /\ Children \subseteq Rows /\ Parent \notin Children
  BY JoinAssumption DEF Rows
<1>1. LockInv
  BY LockInit
<1>2. /\ db = [r \in Rows |-> IF r = Parent THEN "runnable" ELSE "unborn"]
      /\ \A t \in Txs : tx[t] = Idle /\ own[t] = Unwritten
  BY DEF Init
<1>3. EarlyInv
  BY <1>0, <1>1, <1>2 DEF EarlyInv, NoEarlyWake, Joined, WakesOf, Idle, Unwritten
<1>4. LastInv
  BY <1>0, <1>1, <1>2 DEF LastInv, LastEndWakes, Waiting, Alone, LeavesOf, Idle, Unlocked
<1>5. WriteInv
  BY <1>0, <1>1, <1>2 DEF WriteInv, Apart, ChildRows, RowsOf, CausesOf, Idle, Unwritten
<1> QED BY <1>3, <1>4, <1>5 DEF CommitInv

(* What a commit does to the rows is one action of AtomicJoin, by the kind *)
(* of the transaction.                                                     *)
LEMMA AdditionActsAtOnce ==
  ASSUME CommitInv, NEW t \in Txs, tx[t].pc = "commit", tx[t].kind = "add",
         db' = [r \in Rows |-> View(t, r)], raced' = raced
  PROVE  \E c \in Children : Atomic!Attach(c)
<1>0. Parent \in Rows /\ Children \subseteq Rows /\ Parent \notin Children
  BY JoinAssumption DEF Rows
<1>1. LocalInv(t) /\ RowsOf(t) /\ TypeOK
  BY DEF CommitInv, WriteInv, LockInv
<1>2. PICK c \in Children : tx[t].todo = {c}
  BY <1>1 DEF LocalInv, PlaceOf
<1>3. db[c] = "unborn" /\ own[t][c] = "live" /\ \A q \in Children \ {c} : own[t][q] = "none"
  BY <1>1, <1>2 DEF LocalInv, WritesOf, RowsOf
<1>4. View(t, Parent) = IF db[Parent] = "runnable" THEN "waiting-children" ELSE db[Parent]
  BY <1>1 DEF LocalInv, WritesOf, RowsOf, View
<1>5. db \in [Rows -> Status]
  BY <1>1 DEF TypeOK
<1>6. db' = [db EXCEPT ![c] = "live",
                       ![Parent] = IF @ = "runnable" THEN "waiting-children" ELSE @]
  <2>1. \A r \in Rows \ {c, Parent} : View(t, r) = db[r]
    BY <1>3 DEF View, Rows
  <2>2. View(t, c) = "live" /\ c # Parent
    BY <1>0, <1>3 DEF View
  <2> QED BY <1>0, <1>4, <1>5, <2>1, <2>2
<1> QED BY <1>3, <1>6 DEF Atomic!Attach

LEMMA EndsActAtOnce ==
  ASSUME CommitInv, NEW t \in Txs, tx[t].pc = "commit", tx[t].kind # "add",
         db' = [r \in Rows |-> View(t, r)], raced' = raced
  PROVE  \/ UNCHANGED db
         \/ \E c \in Children : Atomic!Fail(c)
         \/ \E gone \in SUBSET Rows : Atomic!End(gone) \/ Atomic!Overlook(gone)
<1>0. Parent \in Rows /\ Children \subseteq Rows /\ Parent \notin Children
  BY JoinAssumption DEF Rows
<1>1. LocalInv(t) /\ RowsOf(t) /\ CausesOf(t) /\ WakesOf(t) /\ TypeOK /\ ChildRows
      /\ (~raced => LeavesOf(t))
  BY DEF CommitInv, WriteInv, LockInv, EarlyInv, LastInv
<1>2. db \in [Rows -> Status]
  BY <1>1 DEF TypeOK
<1>3. /\ \A c \in Children : own[t][c] \in {"none", "ended"}
      /\ own[t][Parent] \in {"none", "ended", "runnable"}
  BY <1>1 DEF LocalInv, WritesOf
<1> DEFINE gone == {r \in Rows : own[t][r] = "ended"}
<1>4. CASE gone = {}
  <2>1. \A r \in Rows : own[t][r] = "none"
    BY <1>0, <1>1, <1>3, <1>4 DEF CausesOf, Rows
  <2>2. \A r \in Rows : View(t, r) = db[r]
    BY <2>1 DEF View
  <2>3. db' = db
    BY <1>2, <2>2
  <2> QED BY <2>3
<1>5. CASE gone # {} /\ tx[t].kind = "fail_parent"
  <2>1. PICK c \in Children :
          /\ \A q \in Children \ {c} : own[t][q] = "none"
          /\ own[t][Parent] # "none" => db[Parent] = "waiting-children" /\ own[t][c] = "ended"
          /\ own[t][c] # "none" => View(t, Parent) # "waiting-children"
    BY <1>1, <1>5 DEF CausesOf
  <2>2. own[t][c] = "ended"
    BY <1>3, <1>5, <2>1 DEF Rows
  <2>3. db[c] = "live"
    BY <1>0, <1>1, <2>2 DEF RowsOf, ChildRows, Ending
  <2>4. View(t, Parent) = IF db[Parent] = "waiting-children" THEN "ended" ELSE db[Parent]
    BY <1>1, <1>3, <1>5, <2>1, <2>2 DEF View, CausesOf
  <2>5. View(t, c) = "ended" /\ \A r \in Rows \ {c, Parent} : View(t, r) = db[r]
    BY <2>1, <2>2 DEF View, Rows
  <2>6. db' = [db EXCEPT ![c] = "ended",
                         ![Parent] = IF @ = "waiting-children" THEN "ended" ELSE @]
    BY <1>0, <1>2, <2>4, <2>5
  <2> QED BY <2>3, <2>6 DEF Atomic!Fail
<1>6. CASE gone # {} /\ tx[t].kind # "fail_parent"
  <2>1. \A r \in gone : db[r] \in Ending
    BY <1>1 DEF RowsOf
  <2>2. Atomic!Ended(gone) = [r \in Rows |-> IF r \in gone THEN "ended" ELSE db[r]]
    BY DEF Atomic!Ended, Atomic!Rows, Rows
  <2>3. CASE own[t][Parent] = "runnable"
    <3>1. db[Parent] = "waiting-children" /\ \A c \in Children : View(t, c) # "live"
      BY <1>1, <2>3 DEF RowsOf, WakesOf
    <3>2. Parent \notin gone /\ \A c \in Children : View(t, c) = IF c \in gone THEN "ended" ELSE db[c]
      BY <1>0, <1>3, <2>3 DEF View
    <3>3. Atomic!Due(Atomic!Ended(gone))
      BY <1>0, <2>2, <3>1, <3>2 DEF Atomic!Due
    <3>4. db' = [Atomic!Ended(gone) EXCEPT ![Parent] = "runnable"]
      BY <1>0, <2>2, <2>3, <3>2 DEF View, Rows
    <3>5. Atomic!End(gone)
      BY <1>6, <2>1, <3>3, <3>4 DEF Atomic!End, Atomic!Open, Ending
    <3> QED BY <3>5
  <2>4. CASE own[t][Parent] # "runnable"
    <3>1. \A r \in Rows : View(t, r) = IF r \in gone THEN "ended" ELSE db[r]
      BY <1>3, <2>4 DEF View, Rows
    <3>2. db' = Atomic!Ended(gone)
      BY <2>2, <3>1
    <3>3. CASE Atomic!Due(Atomic!Ended(gone))
      <4>1. View(t, Parent) = "waiting-children" /\ \A c \in Children : View(t, c) # "live"
        BY <1>0, <2>2, <3>1, <3>3 DEF Atomic!Due
      <4>2. raced
        BY <1>1, <4>1 DEF LeavesOf, TypeOK
      <4>3. Atomic!Overlook(gone)
        BY <1>6, <2>1, <3>2, <4>2 DEF Atomic!Overlook, Atomic!Open, Ending
      <4> QED BY <4>3
    <3>4. CASE ~Atomic!Due(Atomic!Ended(gone))
      <4>1. Atomic!End(gone)
        BY <1>6, <2>1, <3>2, <3>4 DEF Atomic!End, Atomic!Open, Ending
      <4> QED BY <4>1
    <3> QED BY <3>3, <3>4
  <2> QED BY <2>3, <2>4
<1> QED BY <1>4, <1>5, <1>6

(* The transactions of any number of clients, statement by statement and   *)
(* with rollbacks, have the effect of transactions that run one at a time, *)
(* up to ends that two unlocked ones overlook.                             *)
THEOREM JoinActsAtOnce == Spec => ActsAtOnce
<1>1. Init => Atomic!Init
  BY DEF Init, Atomic!Init, Rows, Atomic!Rows
<1>2. ASSUME CommitInv, [Next]_vars PROVE [Atomic!Next]_(Atomic!vars)
  <2>1. CASE UNCHANGED vars
    BY <2>1 DEF vars, Atomic!vars
  <2>2. ASSUME NEW t \in Txs, Starts(t) \/ Statement(t) PROVE [Atomic!Next]_(Atomic!vars)
    <3>1. UNCHANGED db
      BY <1>2, <2>2, WriteStatement DEF CommitInv
    <3>2. raced \in BOOLEAN /\ raced' \in BOOLEAN
      BY <1>2, <2>2, TypeStep DEF CommitInv, WriteInv, LockInv, TypeOK
    <3>3. raced => raced'
      <4>1. ASSUME NEW kind \in Unlocked, NEW due \in SUBSET Rows, BeginUnlocked(t, kind, due)
            PROVE  raced => raced'
        BY <4>1 DEF BeginUnlocked
      <4>2. ASSUME NEW kind \in Lockers, NEW c \in Children, Begin(t, kind, c)
            PROVE  raced => raced'
        BY <4>2 DEF Begin
      <4>3. Statement(t) => raced' = raced
        BY DEF Statement, LockParent, Insert, EndRow, Report, Post, Resolve, Wake
      <4> QED BY <2>2, <4>1, <4>2, <4>3 DEF Starts
    <3> QED BY <3>1, <3>2, <3>3 DEF Atomic!Next, Atomic!Meet, Atomic!vars
  <2>3. ASSUME NEW t \in Txs, Commit(t) PROVE [Atomic!Next]_(Atomic!vars)
    <3>1. tx[t].pc = "commit" /\ db' = [r \in Rows |-> View(t, r)] /\ raced' = raced
      BY <2>3 DEF Commit, Over
    <3>2. CASE tx[t].kind = "add"
      BY <1>2, <3>1, <3>2, AdditionActsAtOnce DEF Atomic!Next
    <3>3. CASE tx[t].kind # "add"
      BY <1>2, <3>1, <3>3, EndsActAtOnce DEF Atomic!Next, Atomic!vars, Atomic!Rows, Rows
    <3> QED BY <3>2, <3>3
  <2>4. ASSUME NEW t \in Txs, Abort(t) PROVE [Atomic!Next]_(Atomic!vars)
    BY <2>4 DEF Abort, Over, Atomic!vars
  <2> QED BY <1>2, <2>1, <2>2, <2>3, <2>4, StepCases
<1>3. CommitInv /\ [Next]_vars => CommitInv'
  BY EarlyNext, LastNext, WriteNext DEF CommitInv
<1> QED BY <1>1, <1>2, <1>3, CommitInit, PTL DEF Spec, ActsAtOnce, Atomic!Spec

=============================================================================
