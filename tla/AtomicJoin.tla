----------------------------- MODULE AtomicJoin -----------------------------
(***************************************************************************)
(* What the transactions around a parent and its children promise: each of *)
(* them takes effect at once, as if it were alone.  MinionQueue takes      *)
(* every transaction as one step; ParentJoinTx has their statements and    *)
(* row locks, and its commits implement this specification.                *)
(***************************************************************************)
CONSTANTS Children, Parent

VARIABLES
  row,     \* the status of the parent and of every child
  raced    \* two transactions that do not lock the parent met

vars == <<row, raced>>

Rows == Children \cup {Parent}
Open == {"live", "runnable", "waiting-children"}

Init ==
  /\ row = [r \in Rows |-> IF r = Parent THEN "runnable" ELSE "unborn"]
  /\ raced = FALSE

\* A child comes to life, and the parent waits for it from then on.
Attach(c) ==
  /\ row[c] = "unborn"
  /\ row' = [row EXCEPT ![c] = "live",
                        ![Parent] = IF @ = "runnable" THEN "waiting-children" ELSE @]
  /\ UNCHANGED raced

Ended(gone) == [r \in Rows |-> IF r \in gone THEN "ended" ELSE row[r]]
Due(rows)   == rows[Parent] = "waiting-children" /\ \A c \in Children : rows[c] # "live"

\* Open rows end; a parent left waiting for nobody becomes runnable in the same
\* step.
End(gone) ==
  /\ gone # {} /\ \A r \in gone : row[r] \in Open
  /\ row' = IF Due(Ended(gone)) THEN [Ended(gone) EXCEPT ![Parent] = "runnable"]
                                ELSE Ended(gone)
  /\ UNCHANGED raced

\* A child fails and takes the parent that waits for it with it.
Fail(c) ==
  /\ row[c] = "live"
  /\ row' = [row EXCEPT ![c] = "ended",
                        ![Parent] = IF @ = "waiting-children" THEN "ended" ELSE @]
  /\ UNCHANGED raced

\* Only after two transactions without the lock met may the last end go unnoticed.
Meet == raced' = TRUE /\ UNCHANGED row

Overlook(gone) ==
  /\ raced /\ gone # {} /\ \A r \in gone : row[r] \in Open
  /\ row' = Ended(gone)
  /\ UNCHANGED raced

Next ==
  \/ \E c \in Children : Attach(c) \/ Fail(c)
  \/ \E gone \in SUBSET Rows : End(gone) \/ Overlook(gone)
  \/ Meet

Spec == Init /\ [][Next]_vars
=============================================================================
