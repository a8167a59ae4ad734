---------------------------- MODULE ParentJoinTx ----------------------------
(***************************************************************************)
(* The join of one parent with its children at the level of statements and *)
(* row locks: the transactions of minions/queue.ts that attach a child or  *)
(* end one, under READ COMMITTED as Postgres runs it.  MinionQueue takes   *)
(* each of them as one step.                                               *)
(*                                                                         *)
(* A statement reads what is committed when it starts and what its own     *)
(* transaction wrote; an update waits for the row and then looks at it     *)
(* again; an insert into the inbox takes a key-share lock on the parent,   *)
(* by the foreign key.  A row that a transaction wrote stays locked, like  *)
(* the parent, until the transaction is over.                              *)
(***************************************************************************)
EXTENDS Naturals, FiniteSets

CONSTANTS Children, Parent, Txs

ASSUME JoinAssumption == Parent \notin Children

VARIABLES
  db,      \* the committed status of every row
  own,     \* what each open transaction wrote
  hold,    \* the lock on the parent's row a transaction asked for by itself
  tx,      \* what each transaction is doing: kind, place, rows still to end
  raced    \* two transactions that do not lock the parent were open at once

vars == <<db, own, hold, tx, raced>>

Rows   == Children \cup {Parent}
Status == {"unborn", "live", "ended", "runnable", "waiting-children"}

\* Those that lock the parent first, and those that do not.
Lockers   == {"add", "complete", "fail_parent"}
Unlocked  == {"sweep", "cancel"}

Unwritten == [r \in Rows |-> "none"]
Idle      == [kind |-> "none", pc |-> "idle", todo |-> {}]

View(t, r)   == IF own[t][r] = "none" THEN db[r] ELSE own[t][r]
Written(t)   == {r \in Rows : own[t][r] # "none"}
Others(t)    == Txs \ {t}
Write(t, r, status) == own' = [own EXCEPT ![t][r] = status]
Goes(t, pc)  == tx' = [tx EXCEPT ![t].pc = pc]
Ending       == {"live", "runnable", "waiting-children"}

-----------------------------------------------------------------------------
(* Row locks: FOR UPDATE excludes everything, an update of the row         *)
(* everything but the key share, a key share only FOR UPDATE.              *)
Writable(t, r) ==
  \A s \in Others(t) : own[s][r] = "none" /\ (r = Parent => hold[s] # "update")

Lockable(t)  == \A s \in Others(t) : own[s][Parent] = "none" /\ hold[s] = "none"
Shareable(t) == \A s \in Others(t) : hold[s] # "update"

-----------------------------------------------------------------------------
(* add, completeJob and failJob begin with SELECT ... FOR UPDATE of the    *)
(* parent; failJob with another on_child_fail is like completeJob.         *)
Begin(t, kind, c) ==
  /\ tx[t].pc = "idle"
  /\ \/ kind = "add" /\ db[c] = "unborn"
        /\ \A s \in Txs : tx[s].kind = "add" => c \notin tx[s].todo
     \/ kind \in Lockers \ {"add"} /\ db[c] = "live"
  /\ tx' = [tx EXCEPT ![t] = [kind |-> kind, pc |-> "lock", todo |-> {c}]]
  /\ UNCHANGED <<db, own, hold, raced>>

LocksNothing(t) ==                                                       \* mutant
  /\ tx[t].pc = "lock"
  /\ Goes(t, IF tx[t].kind = "add" THEN "insert" ELSE "end")
  /\ UNCHANGED <<db, own, hold, raced>>

LockParent(t) ==
  /\ tx[t].pc = "lock" /\ Lockable(t)
  /\ hold' = [hold EXCEPT ![t] = "update"]
  /\ Goes(t, IF tx[t].kind = "add" THEN "insert" ELSE "end")
  /\ UNCHANGED <<db, own, raced>>

(* The new child, and the parent that now waits for it.                    *)
Insert(t) ==
  /\ tx[t].pc = "insert"
  /\ own' = [own EXCEPT ![t] = [r \in Rows |->
       IF r \in tx[t].todo THEN "live"
       ELSE IF r = Parent /\ db[r] = "runnable" THEN "waiting-children" ELSE own[t][r]]]
  /\ Goes(t, "commit")
  /\ UNCHANGED <<db, hold, raced>>

(* handleTimeouts, handleWallClockTimeouts and cancelJob begin with the    *)
(* update of the rows that are due, or of a job and all below it.          *)
BeginUnlocked(t, kind, due) ==
  /\ tx[t].pc = "idle" /\ due # {}
  /\ \/ kind = "sweep" /\ due \subseteq {c \in Children : db[c] = "live"}
     \/ kind = "cancel" /\ \E c \in Children : due = {c} /\ db[c] = "live"
     \/ kind = "cancel" /\ due = {r \in Rows : db[r] \in Ending}
  /\ tx' = [tx EXCEPT ![t] = [kind |-> kind, pc |-> "end", todo |-> due]]
  /\ raced' = (raced \/ \E s \in Others(t) : tx[s].kind \in Unlocked)
  /\ UNCHANGED <<db, own, hold>>

(* The update reaches a row, once nobody else is writing it: it ends a row *)
(* that is still live and passes over one that ended meanwhile.            *)
EndRow(t, r) ==
  /\ tx[t].pc = "end" /\ r \in tx[t].todo /\ Writable(t, r)
  /\ IF db[r] \in Ending THEN Write(t, r, "ended") ELSE UNCHANGED own
  /\ tx' = [tx EXCEPT ![t].todo = @ \ {r}]
  /\ UNCHANGED <<db, hold, raced>>

PostsNothing(t) == FALSE                                                 \* mutant
Posts(t) == View(t, Parent) # "ended"

(* The row counts and the guard of the message to the parent.              *)
Report(t) ==
  /\ tx[t].pc = "end" /\ tx[t].todo = {}
  /\ Goes(t, IF Written(t) = {} THEN "commit" ELSE IF Posts(t) THEN "post" ELSE "resolve")
  /\ UNCHANGED <<db, own, hold, raced>>

(* The message is inserted, under its foreign key.                         *)
Post(t) ==
  /\ tx[t].pc = "post" /\ Shareable(t)
  /\ hold' = [hold EXCEPT ![t] = IF @ = "update" THEN @ ELSE "key"]
  /\ Goes(t, "resolve")
  /\ UNCHANGED <<db, own, raced>>

(* The update of the parent: its snapshot ...                              *)
Wakes(t) ==
  /\ View(t, Parent) = "waiting-children"
  /\ tx[t].kind = "fail_parent" \/ \A c \in Children : View(t, c) # "live"

Resolve(t) ==
  /\ tx[t].pc = "resolve"
  /\ Goes(t, IF Wakes(t) THEN "wake" ELSE "commit")
  /\ UNCHANGED <<db, own, hold, raced>>

WakesBlindly(t) ==                                                       \* mutant
  /\ tx[t].pc = "wake" /\ Writable(t, Parent)
  /\ Write(t, Parent, IF tx[t].kind = "fail_parent" THEN "ended" ELSE "runnable")
  /\ Goes(t, "commit")
  /\ UNCHANGED <<db, hold, raced>>

(* ... and its row, which may have changed while the update waited.        *)
Wake(t) ==
  /\ tx[t].pc = "wake" /\ Writable(t, Parent)
  /\ IF db[Parent] = "waiting-children"
     THEN Write(t, Parent, IF tx[t].kind = "fail_parent" THEN "ended" ELSE "runnable")
     ELSE UNCHANGED own
  /\ Goes(t, "commit")
  /\ UNCHANGED <<db, hold, raced>>

-----------------------------------------------------------------------------
Over(t) ==
  /\ own' = [own EXCEPT ![t] = Unwritten]
  /\ hold' = [hold EXCEPT ![t] = "none"]
  /\ tx' = [tx EXCEPT ![t] = Idle]
  /\ UNCHANGED raced

Commit(t) ==
  /\ tx[t].pc = "commit"
  /\ db' = [r \in Rows |-> View(t, r)]
  /\ Over(t)

(* The connection is lost, or the database breaks a deadlock.              *)
Abort(t) == tx[t].pc # "idle" /\ UNCHANGED db /\ Over(t)

-----------------------------------------------------------------------------
Init ==
  /\ db = [r \in Rows |-> IF r = Parent THEN "runnable" ELSE "unborn"]
  /\ own = [t \in Txs |-> Unwritten]
  /\ hold = [t \in Txs |-> "none"]
  /\ tx = [t \in Txs |-> Idle]
  /\ raced = FALSE

Next ==
  \E t \in Txs :
    \/ \E kind \in Lockers, c \in Children : Begin(t, kind, c)
    \/ \E kind \in Unlocked, due \in SUBSET Rows : BeginUnlocked(t, kind, due)
    \/ LockParent(t) \/ Insert(t) \/ \E r \in Rows : EndRow(t, r)
    \/ Report(t) \/ Post(t) \/ Resolve(t) \/ Wake(t) \/ Commit(t) \/ Abort(t)

Spec == Init /\ [][Next]_vars

-----------------------------------------------------------------------------
TypeOK ==
  /\ db \in [Rows -> Status]
  /\ own \in [Txs -> [Rows -> Status \cup {"none"}]]
  /\ hold \in [Txs -> {"none", "key", "update"}]
  /\ tx \in [Txs -> [kind : Lockers \cup Unlocked \cup {"none"},
                     pc : {"idle", "lock", "insert", "end", "post", "resolve", "wake", "commit"},
                     todo : SUBSET Rows]]
  /\ raced \in BOOLEAN
  /\ \A t \in Txs : tx[t].pc = "idle" => own[t] = Unwritten /\ hold[t] = "none"

Waiting == db[Parent] = "waiting-children"
Joined  == \A c \in Children : db[c] # "live"

(* A parent is woken by the transaction that ends its last child, however  *)
(* the statements interleave, as long as no two of the transactions that   *)
(* do not lock the parent are open at once.                                *)
LastEndWakes == ~raced /\ Waiting => ~Joined

(* A parent is never made runnable beside a live child, also not by a      *)
(* transaction that read the children before one was added.                *)
NoEarlyWake == db[Parent] = "runnable" => Joined

(* What is committed moves as if every transaction took effect at once: no  *)
(* end is lost or done twice, no parent that ended or was woken meanwhile  *)
(* is touched, and an addition and a wake do not overlook each other.      *)
Atomic == INSTANCE AtomicJoin WITH row <- db
ActsAtOnce == Atomic!Spec

=============================================================================
