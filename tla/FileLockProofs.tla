--------------------------- MODULE FileLockProofs ---------------------------
(***************************************************************************)
(* The locks that are kept in the file system: the PGLite data directory,  *)
(* for any number of processes, restarts and acquisitions, and the page    *)
(* with its facts fence, for any number of processes, calls and facts.     *)
(***************************************************************************)
EXTENDS PgliteLock, PageFence, FiniteSetTheorems, TLAPS

-----------------------------------------------------------------------------
(* The data directory.                                                     *)
Owning == Using \cup {"write", "giveBack"}

(* Whoever is between mkdir and the end of its release made the directory  *)
(* that is there, and nobody else did.                                     *)
OwnerMade == \A p \in Openers : pc[p] \in Owning <=> dir = p

(* The file in a directory that is owned is the owner's, or not whole.     *)
FileTrue ==
  /\ dir = None => file = NoFile
  /\ dir \in Openers /\ file.whole => file = Token(dir)

(* A contender removes what nobody owns, and is the only one to.           *)
ReapsOrphans ==
  \A p \in Openers : pc[p] = "remove" => dir = Orphan /\ ~Reaping(p)

Running == \A p \in Openers : pc[p] # "idle" => alive[p]

LockInv == TypeOK /\ Running /\ (~raced => OwnerMade /\ FileTrue /\ ReapsOrphans)

ProcStep(p) ==
  \/ Contend(p) \/ Look(p) \/ ReadFile(p) \/ Probe(p) \/ Remove(p) \/ Make(p) \/ Write(p)
  \/ Beat(p) \/ Truncate(p) \/ Refresh(p) \/ Release(p) \/ GiveBack(p)
  \/ Exit(p) \/ Restart(p)

LEMMA TypeStep ==
  ASSUME TypeOK, Running, NEW p \in Openers, ProcStep(p)
  PROVE  /\ TypeOK' /\ Running'
         /\ \A q \in Openers \ {p} : pc'[q] = pc[q]
         /\ raced => raced'
<1>0. NoFile \in Files /\ ~NoFile.whole /\ \A q \in Openers : Token(q) \in Files /\ Torn(q) \in Files
  BY DEF NoFile, Files, Token, Torn, TypeOK
<1> USE DEF TypeOK, Running, Moves
<1>1. CASE Contend(p) BY <1>1 DEF Contend
<1>2. CASE Look(p) BY <1>2 DEF Look
<1>3. CASE ReadFile(p) BY <1>3 DEF ReadFile
<1>4. CASE Probe(p) BY <1>0, <1>4 DEF Probe, Waits
<1>5. CASE Remove(p) BY <1>0, <1>5 DEF Remove, Gone
<1>6. CASE Make(p) BY <1>6 DEF Make, Waits
<1>7. CASE Write(p) BY <1>0, <1>7 DEF Write, Waits, Left, Token, Using
<1>8. CASE Beat(p) BY <1>8 DEF Beat, Using
<1>9. CASE Truncate(p) BY <1>0, <1>9 DEF Truncate, Torn, Token, Using
<1>10. CASE Refresh(p) BY <1>0, <1>10 DEF Refresh, Token, Using
<1>11. CASE Release(p) BY <1>11 DEF Release
<1>12. CASE GiveBack(p) BY <1>0, <1>12 DEF GiveBack, Gone, Left
<1>13. CASE Exit(p) BY <1>0, <1>13 DEF Exit, Left
<1>14. CASE Restart(p) BY <1>14 DEF Restart
<1> QED
  BY <1>1, <1>2, <1>3, <1>4, <1>5, <1>6, <1>7, <1>8, <1>9, <1>10, <1>11, <1>12, <1>13, <1>14
     DEF ProcStep

(* One step of one process, with nobody racing.                            *)
LEMMA OwnStep ==
  ASSUME LockInv, NEW p \in Openers, ProcStep(p), ~raced'
  PROVE  (OwnerMade /\ FileTrue /\ ReapsOrphans)'
<1>0. None \notin Openers /\ Orphan \notin Openers /\ None # Orphan
  BY NamesAssumption
<1>1. /\ TypeOK /\ TypeOK' /\ Running /\ ~raced
      /\ \A q \in Openers \ {p} : pc'[q] = pc[q]
  BY TypeStep DEF LockInv
<1>2. OwnerMade /\ FileTrue /\ ReapsOrphans
  BY <1>1 DEF LockInv
<1> USE DEF OwnerMade, ReapsOrphans, FileTrue, Reaping, Owning, Using, Token
\* Steps that leave the disk alone and end neither in nor out of Owning or remove.
<1>4. ASSUME UNCHANGED <<dir, file, mine>>, pc'[p] # "remove", pc'[p] \in Owning <=> pc[p] \in Owning
      PROVE  (OwnerMade /\ FileTrue /\ ReapsOrphans)'
  BY <1>1, <1>2, <1>4
<1>5. CASE Contend(p) BY <1>1, <1>4, <1>5 DEF Contend, Moves, TypeOK
<1>6. CASE Look(p) BY <1>1, <1>4, <1>6 DEF Look, Moves, TypeOK
<1>7. CASE ReadFile(p)
  <2>1. CASE file.whole
    BY <1>1, <1>4, <1>7, <2>1 DEF ReadFile, Moves, TypeOK
  <2>2. CASE ~file.whole
    <3>1. dir = Orphan /\ ~Reaping(p) /\ UNCHANGED <<dir, file>> /\ pc[p] = "read"
          /\ pc'[p] = "remove"
      BY <1>1, <1>7, <2>2 DEF ReadFile, Moves, TypeOK
    <3> QED BY <1>0, <1>1, <1>2, <3>1
  <2> QED BY <2>1, <2>2
<1>8. CASE Probe(p)
  <2>1. CASE alive[seen[p].by]
    BY <1>1, <1>4, <1>8, <2>1 DEF Probe, Waits, Moves, TypeOK
  <2>2. CASE ~alive[seen[p].by]
    <3>1. /\ file = seen[p] /\ ~Reaping(p) /\ UNCHANGED <<dir, file>> /\ pc[p] = "probe"
          /\ pc'[p] = "remove"
      BY ZenonT(60), <1>1, <1>8, <2>2 DEF Probe, Moves, TypeOK
    <3>2. file.whole /\ file.by \in Openers /\ ~alive[file.by] /\ (dir \in Openers => file.by = dir)
      BY <1>1, <1>2, <2>2, <3>1 DEF TypeOK
    <3>3. dir # None
      BY <1>2, <3>2 DEF NoFile
    <3>4. dir \notin Openers
      BY <1>1, <1>2, <3>2 DEF Running
    <3>5. dir = Orphan
      BY <1>1, <3>3, <3>4 DEF TypeOK
    <3> QED BY <1>0, <1>1, <1>2, <3>1, <3>5
  <2> QED BY <2>1, <2>2
<1>9. CASE Remove(p)
  <2>1. /\ pc[p] = "remove" /\ pc'[p] = "make"
        /\ \/ dir' = None /\ file' = NoFile
           \/ UNCHANGED <<dir, file>>
    BY <1>1, <1>9 DEF Remove, Gone, Moves, TypeOK
  <2>2. dir = Orphan /\ \A q \in Openers \ {p} : pc[q] # "remove"
    BY <1>2, <2>1
  <2> QED BY <1>0, <1>1, <1>2, <2>1, <2>2
<1>10. CASE Make(p)
  <2>1. CASE dir = None
    <3>1. dir' = p /\ UNCHANGED file /\ pc[p] = "make" /\ pc'[p] = "write"
      BY <1>1, <1>10, <2>1 DEF Make, Moves, TypeOK
    <3>2. file = NoFile /\ \A q \in Openers : pc[q] # "remove" /\ pc[q] \notin Owning
      BY <1>0, <1>2, <2>1
    <3> QED BY <1>0, <1>1, <3>1, <3>2 DEF NoFile
  <2>2. CASE dir # None
    BY <1>1, <1>4, <1>10, <2>2 DEF Make, Waits, Moves, TypeOK
  <2> QED BY <2>1, <2>2
\* Steps of the owner: the directory stays, or nobody owns it any more.
<1>11. ASSUME pc[p] \in Owning
       PROVE  dir = p /\ \A q \in Openers : pc[q] # "remove"
  BY <1>0, <1>2, <1>11
<1>12. ASSUME pc[p] \in Owning, pc'[p] \in Owning, dir' = p,
              file'.whole => file' = Token(p)'
       PROVE  (OwnerMade /\ FileTrue /\ ReapsOrphans)'
  BY <1>0, <1>1, <1>2, <1>11, <1>12
<1>13. ASSUME pc[p] \in Owning, pc'[p] \notin Owning \cup {"remove"},
              dir' = Orphan \/ (dir' = None /\ file' = NoFile)
       PROVE  (OwnerMade /\ FileTrue /\ ReapsOrphans)'
  BY <1>0, <1>1, <1>2, <1>11, <1>13
<1>14. CASE Write(p)
  <2>1. pc[p] \in Owning
    BY <1>14 DEF Write
  <2>2. CASE file' = Token(p) /\ Moves(p, "held") /\ UNCHANGED dir
    <3>1. dir' = p /\ pc'[p] \in Owning /\ file' = Token(p)'
      BY <1>1, <1>11, <1>14, <2>1, <2>2 DEF Moves, TypeOK, Write
    <3> QED BY <1>12, <2>1, <3>1
  <2>3. CASE Left(p) /\ Waits(p) /\ UNCHANGED file
    BY <1>1, <1>11, <1>13, <2>1, <2>3 DEF Moves, Waits, Left, TypeOK
  <2> QED BY <1>14, <2>2, <2>3 DEF Write
<1>15. CASE Beat(p)
  BY <1>1, <1>2, <1>11, <1>12, <1>15 DEF Beat, Moves, TypeOK
<1>16. CASE Truncate(p)
  BY <1>1, <1>2, <1>11, <1>12, <1>16 DEF Truncate, Moves, Torn, TypeOK
<1>17. CASE Refresh(p)
  <2>1. dir' = p /\ pc[p] \in Owning /\ pc'[p] \in Owning
    BY <1>1, <1>11, <1>17 DEF Refresh, Moves, TypeOK
  <2>2. file'.whole => file' = Token(p)'
    <3>1. UNCHANGED mine /\ file' = IF file = Torn(p) THEN Token(p) ELSE file
      BY <1>17 DEF Refresh
    <3>2. file.whole => file = Token(p)
      BY <1>2, <2>1, <1>11
    <3> QED BY <3>1, <3>2
  <2> QED BY <1>12, <2>1, <2>2
<1>18. CASE Release(p)
  <2>1. pc[p] \in Owning /\ UNCHANGED <<dir, file, mine>>
    BY <1>18 DEF Release
  <2>2. dir = p /\ (file.whole => file = Token(p))
    BY <1>2, <1>11, <2>1
  <2>3. pc'[p] = "giveBack"
    BY <1>1, <1>18, <2>2 DEF Release, Moves, TypeOK
  <2> QED BY <1>12, <2>1, <2>2, <2>3
<1>19. CASE GiveBack(p)
  <2>1. pc[p] \in Owning /\ pc'[p] = "idle"
    BY <1>1, <1>19 DEF GiveBack, Moves, TypeOK
  <2> QED BY <1>11, <1>13, <1>19, <2>1 DEF GiveBack, Gone, Left
<1>20. CASE Exit(p)
  <2>1. pc'[p] = "idle" /\ UNCHANGED <<file, mine>> /\ dir' = IF dir = p THEN Orphan ELSE dir
    BY <1>1, <1>20 DEF Exit, Moves, Left, TypeOK
  <2>2. CASE dir = p
    BY <1>2, <1>13, <2>1, <2>2
  <2>3. CASE dir # p
    BY <1>1, <1>2, <1>4, <1>20, <2>1, <2>3
  <2> QED BY <2>2, <2>3
<1>21. CASE Restart(p)
  BY <1>1, <1>2, <1>21 DEF Restart
<1> QED
  BY <1>5, <1>6, <1>7, <1>8, <1>9, <1>10, <1>14, <1>15, <1>16, <1>17, <1>18, <1>19, <1>20,
     <1>21 DEF ProcStep

LEMMA LockInit == DirInit => LockInv
<1> SUFFICES ASSUME DirInit PROVE LockInv
  OBVIOUS
<1>1. TypeOK
  BY DEF DirInit, TypeOK, NoFile, Files
<1>2. \A p \in Openers : pc[p] = "idle"
  BY DEF DirInit
<1>3. dir = None /\ file = NoFile
  BY DEF DirInit
<1> QED
  BY <1>1, <1>2, <1>3, NamesAssumption
     DEF LockInv, Running, OwnerMade, FileTrue, ReapsOrphans, Owning, Using

LEMMA LockNext == LockInv /\ [DirNext]_dirVars => LockInv'
<1>1. ASSUME LockInv, DirNext PROVE LockInv'
  <2>1. PICK p \in Openers : ProcStep(p)
    BY <1>1 DEF DirNext, ProcStep
  <2> QED BY <1>1, <2>1, TypeStep, OwnStep DEF LockInv
<1>2. ASSUME LockInv, UNCHANGED dirVars PROVE LockInv'
  BY <1>2 DEF dirVars, LockInv, TypeOK, Running, OwnerMade, FileTrue, ReapsOrphans, Reaping, Token
<1> QED BY <1>1, <1>2

(* Directory, file and processes keep their types, and a contender probes  *)
(* only a pid it read from a whole file.                                   *)
THEOREM TypeCorrect == DirSpec => []TypeOK
<1>1. LockInv => TypeOK
  BY DEF LockInv
<1> QED BY <1>1, LockInit, LockNext, PTL DEF DirSpec

(* One process at a time uses the data directory, unless a contender met   *)
(* the lock while it was changing hands: whoever uses it made the          *)
(* directory, and only directories nobody owns are removed.                *)
THEOREM OneHolder == DirSpec => []HoldersExclude
<1>1. LockInv => HoldersExclude
  BY DEF LockInv, OwnerMade, Owning, HoldersExclude
<1> QED BY <1>1, LockInit, LockNext, PTL DEF DirSpec

-----------------------------------------------------------------------------
(* The page.                                                               *)
Row   == [num : Nat, by : Calls, out : BOOLEAN]
Place == {"idle", "poll", "bare", "over"} \cup Attempt \cup Holding

CallType == [pc : Place, kind : {"none", "add", "forget"}, old : BOOLEAN,
             body : SUBSET Row, num : Nat, late : BOOLEAN, gone : BOOLEAN]

PassType == [pc : {"rest", "list", "wipe", "insert"}, body : SUBSET Row]

PageTypeOK ==
  /\ lock \in {NoLock} \cup [by : Calls, whole : BOOLEAN, old : BOOLEAN]
  /\ up \in [Procs -> BOOLEAN]
  /\ call \in [Calls -> CallType]
  /\ fence \subseteq Row /\ facts \subseteq Row /\ bare \subseteq Nat
  /\ db \subseteq Row /\ pass \in PassType
  /\ upsets \subseteq {"raced", "refused", "blind", "rewritten", "revived"}

(* There are only so many rows, so their numbers have a greatest one.      *)
Bounded(rows) == \E b \in Nat : \A f \in rows : f.num <= b

NumbersBounded ==
  /\ Bounded(fence) /\ Bounded(facts) /\ \A c \in Calls : Bounded(call[c].body)
  /\ Bounded(db) /\ Bounded(pass.body)

(* A process that is down makes no call.                                   *)
CallersUp == \A c \in Calls : call[c].pc \notin {"idle", "over"} => up[Pid[c]]

PlaceInv == PageTypeOK /\ NumbersBounded /\ CallersUp

(* Between the decision to take the lock and the end of the release.       *)
Inside == {"open", "fill"} \cup Holding

LockIsHis ==
  /\ \A c, d \in Calls : call[c].pc \in Inside /\ call[d].pc \in Inside => c = d
  /\ \A c \in Calls : call[c].pc = "fill" => lock.by = c
  /\ \A c \in Calls : call[c].pc \in Holding => lock.by = c /\ lock.whole /\ ~ lock.old

(* What the holder knows of the page at each of its places.                *)
Rewritten == "rewritten" \in upsets

Excused   == Rewritten /\ {"blind", "revived"} \cap upsets # {}

ReadIsCurrent ==
  \A c \in Calls : call[c].pc \in {"number", "rename", "strike"} =>
    fence \subseteq call[c].body /\ (~ Rewritten => call[c].body = fence)

NumberIsNew ==
  \A c \in Calls :
    /\ call[c].pc = "rename" => \A g \in call[c].body : g.num < call[c].num
    /\ call[c].pc = "insert" => \A g \in fence : g.num = call[c].num => g.by = c

NumberIsFree ==
  ~ Excused => \A c \in Calls : \A f \in facts :
    /\ call[c].pc = "rename" => f.num # call[c].num
    /\ call[c].pc = "insert" /\ f.num = call[c].num => f.by = c

RowIsWritten ==
  \A c \in Calls :
    call[c].pc = "insert" /\ ~ Rewritten => \E g \in fence : g.num = call[c].num /\ g.by = c

RowIsStruck ==
  \A c \in Calls :
    call[c].pc = "expire" /\ ~ Rewritten => \A g \in fence : g.num = call[c].num => g.out

RefusedOnlyExcused ==
  /\ "refused" \in upsets => Excused
  /\ "revived" \in upsets => Rewritten

(* What the table knows of the page is on the page.                        *)
CopiesInFence == ~ Rewritten => \A f \in db \cup pass.body : Held(f, fence)

FactsInFence ==
  ~ Rewritten =>
    \A f \in facts : \E g \in fence : Same(f, g) /\ (f.out /\ f.num \notin bare => g.out)

PageKept ==
  /\ ReadIsCurrent /\ NumberIsNew /\ NumberIsFree /\ RowIsWritten /\ RowIsStruck
  /\ RefusedOnlyExcused /\ CopiesInFence /\ FactsInFence

FenceInv == PlaceInv /\ (Exclusive => LockIsHis /\ PageKept)

-----------------------------------------------------------------------------
(* The greatest number.                                                    *)
LEMMA NatSetInduction ==
  ASSUME NEW S, 0 \in S, \A n \in Nat : n \in S => n + 1 \in S
  PROVE  Nat \subseteq S
<1> DEFINE T == {0 .. n : n \in Nat \ S}
           R == StrictSubsetOrdering(Nat)
           F == FiniteSubsetsOf(Nat)
<1> SUFFICES ASSUME Nat \ S # {} PROVE FALSE
  OBVIOUS
<1>1. T \subseteq F /\ T # {}
  <2>1. ASSUME NEW n \in Nat PROVE 0 .. n \in F
    <3>1. IsFiniteSet(0 .. n)
      BY FS_Interval
    <3> QED BY <3>1 DEF FiniteSubsetsOf
  <2> QED BY <2>1
<1>2. IsWellFoundedOn(R, F)
  BY FS_StrictSubsetOrderingWellFounded
<1>3. PICK X \in T : \A Y \in T : ~ (<<Y, X>> \in R)
  <2> HIDE DEF R, T, F
  <2> QED BY <1>1, <1>2, WFMin
<1>4. PICK n \in Nat \ S : X = 0 .. n
  BY <1>3
<1>5. n # 0 /\ n - 1 \in Nat /\ n - 1 \notin S
  OBVIOUS
<1>6. <<0 .. (n - 1), 0 .. n>> \in R
  BY <1>5 DEF StrictSubsetOrdering
<1> QED BY <1>3, <1>4, <1>5, <1>6

LEMMA MaxExists ==
  ASSUME NEW S \in SUBSET Nat, S # {}, NEW b \in Nat, \A y \in S : y <= b
  PROVE  Max(S) \in S /\ \A y \in S : y <= Max(S)
<1> DEFINE T == {n \in Nat : (\A y \in S : y <= n) => \E x \in S : \A y \in S : x >= y}
<1>1. 0 \in T
  <2>1. ASSUME \A y \in S : y <= 0 PROVE \E x \in S : \A y \in S : x >= y
    <3>1. \A y \in S : y = 0
      BY <2>1
    <3>2. PICK x \in S : TRUE
      OBVIOUS
    <3> QED BY <3>1, <3>2
  <2> QED BY <2>1
<1>2. ASSUME NEW n \in Nat, n \in T PROVE n + 1 \in T
  <2> SUFFICES ASSUME \A y \in S : y <= n + 1 PROVE \E x \in S : \A y \in S : x >= y
    OBVIOUS
  <2>1. CASE n + 1 \in S
    BY <2>1
  <2>2. CASE n + 1 \notin S
    <3>1. \A y \in S : y <= n
      BY <2>2
    <3> QED BY <1>2, <3>1
  <2> QED BY <2>1, <2>2
<1>3. b \in T
  <2> HIDE DEF T
  <2> QED BY <1>1, <1>2, NatSetInduction
<1>4. \E x \in S : \A y \in S : x >= y
  BY <1>3
<1>5. Max(S) \in S /\ \A y \in S : Max(S) >= y
  BY <1>4 DEF Max
<1> QED BY <1>5

\* Top is at least every number.
LEMMA TopBounds ==
  ASSUME NEW rows, rows \subseteq Row, Bounded(rows)
  PROVE  Top(rows) \in Nat /\ \A f \in rows : f.num <= Top(rows)
<1> DEFINE S == {0} \cup {f.num : f \in rows}
<1>1. PICK b \in Nat : \A f \in rows : f.num <= b
  BY DEF Bounded
<1>2. S \subseteq Nat /\ S # {} /\ \A y \in S : y <= b
  BY <1>1 DEF Row
<1>3. Max(S) \in S /\ \A y \in S : y <= Max(S)
  <2> HIDE DEF S
  <2> QED BY <1>2, MaxExists
<1> QED BY <1>2, <1>3 DEF Top

LEMMA BoundedUnion ==
  ASSUME NEW A, NEW B, A \subseteq Row, B \subseteq Row, Bounded(A), Bounded(B)
  PROVE  Bounded(A \cup B)
<1>1. PICK a \in Nat : \A f \in A : f.num <= a
  BY DEF Bounded
<1>2. PICK b \in Nat : \A f \in B : f.num <= b
  BY DEF Bounded
<1>3. \A f \in A \cup B : f.num <= a + b
  BY <1>1, <1>2 DEF Row
<1> QED BY <1>3 DEF Bounded

LEMMA BoundedRow ==
  ASSUME NEW A, A \subseteq Row, Bounded(A), NEW f \in Row
  PROVE  A \cup {f} \subseteq Row /\ Bounded(A \cup {f})
<1>1. Bounded({f})
  BY DEF Bounded, Row
<1> QED BY <1>1, BoundedUnion

\* Striking changes no number.
LEMMA StruckRows ==
  ASSUME NEW rows, rows \subseteq Row, Bounded(rows), NEW n \in Nat
  PROVE  /\ Struck(rows, n) \subseteq Row /\ Bounded(Struck(rows, n))
         /\ \A f \in rows : \E g \in Struck(rows, n) :
              g.num = f.num /\ g.by = f.by /\ g.out = (f.out \/ f.num = n)
         /\ \A g \in Struck(rows, n) : \E f \in rows :
              g.num = f.num /\ g.by = f.by /\ g.out = (f.out \/ f.num = n)
<1> DEFINE S(f) == [f EXCEPT !.out = f.out \/ f.num = n]
<1>1. Struck(rows, n) = {S(f) : f \in rows}
  BY DEF Struck
<1>2. ASSUME NEW f \in rows
      PROVE  /\ S(f) \in Row
             /\ S(f).num = f.num /\ S(f).by = f.by /\ S(f).out = (f.out \/ f.num = n)
  BY DEF Row
<1> HIDE DEF S
<1>3. Bounded(Struck(rows, n))
  BY <1>1, <1>2 DEF Bounded
<1> QED BY <1>1, <1>2, <1>3

-----------------------------------------------------------------------------
(* Types and places.                                                       *)
\* What a call writes of itself: only the reads of the page its copy of the body,
\* only Number and BeginForget its number.
CallMoved(c) ==
  /\ call' \in [Calls -> CallType]
  /\ \A d \in Calls \ {c} : call'[d] = call[d]
  /\ call'[c].late = call[c].late
  /\ call'[c].body \in {call[c].body, fence, {}}
  /\ up' = up

LEMMA CallMoves ==
  ASSUME PageTypeOK, NumbersBounded, NEW c \in Calls, CallStep(c)
  PROVE  CallMoved(c)
<1> USE DEF PageTypeOK, CallType, Place, Attempt, Holding, Goes
<1>0. ASSUME NEW x \in CallType, call' = [call EXCEPT ![c] = x]
      PROVE  call' \in [Calls -> CallType] /\ call'[c] = x /\ \A d \in Calls \ {c} : call'[d] = call[d]
  <2>1. call \in [Calls -> CallType]
    BY DEF CallType
  <2> HIDE DEF CallType
  <2> QED BY <1>0, <2>1
<1>a. ASSUME NEW x \in CallType, x.late = call[c].late, x.body \in {call[c].body, fence, {}},
             call' = [call EXCEPT ![c] = x], up' = up
      PROVE  CallMoved(c)
  <2> HIDE DEF CallType, PageTypeOK, Place, Attempt, Holding
  <2> QED BY <1>0, <1>a DEF CallMoved
<1>b. call[c] \in CallType /\ {} \in SUBSET Row /\ fence \in SUBSET Row
  BY DEF CallType
<1>1. CASE Begin(c)
  <2> DEFINE x == [call[c] EXCEPT !.pc = "poll", !.kind = "add"]
  <2>1. call' = [call EXCEPT ![c] = x] /\ up' = up
    BY <1>1 DEF Begin
  <2>2. x \in CallType /\ x.late = call[c].late /\ x.body = call[c].body
    <3> HIDE DEF PageTypeOK
    <3> QED BY <1>b
  <2> HIDE DEF x
  <2> QED BY <1>a, <2>1, <2>2
<1>2. ASSUME NEW f \in facts, BeginForget(c, f) PROVE CallMoved(c)
  <2>1. f.num \in Nat /\ up' = up
    BY <1>2 DEF BeginForget, Row
  <2>2. PICK l \in {"poll", "bare"} :
          call' = [call EXCEPT ![c].pc = l, ![c].kind = "forget", ![c].num = f.num]
    BY <1>2 DEF BeginForget
  <2> DEFINE x == [call[c] EXCEPT !.pc = l, !.kind = "forget", !.num = f.num]
  <2>3. call' = [call EXCEPT ![c] = x]
    BY <2>2
  <2>4. x \in CallType /\ x.late = call[c].late /\ x.body = call[c].body
    <3> HIDE DEF PageTypeOK
    <3> QED BY <1>b, <2>1
  <2> HIDE DEF x
  <2> QED BY <1>a, <2>1, <2>3, <2>4
<1>3. CASE Ends(c) /\ up' = up
  BY <1>3 DEF Ends, Over, Unborn, CallMoved
<1>4. CASE Exists(c) \/ Stat(c) \/ Read(c)
  BY <1>3, <1>4 DEF Exists, Stat, Read, Takes, CallMoved
<1>5. CASE Open(c) \/ Fill(c) \/ Check(c) \/ Unlink(c)
  BY <1>3, <1>5 DEF Open, Fill, Check, Unlink, CallMoved
<1>c. ASSUME NEW l \in Place, NEW rows \in {fence, {}}, up' = up,
             call' = [call EXCEPT ![c].pc = l, ![c].body = rows]
      PROVE  CallMoved(c)
  <2> DEFINE x == [call[c] EXCEPT !.pc = l, !.body = rows]
  <2>1. call' = [call EXCEPT ![c] = x]
    BY <1>c
  <2>2. x \in CallType /\ x.late = call[c].late /\ x.body = rows
    <3>1. rows \in SUBSET Row
      BY <1>b, <1>c
    <3> HIDE DEF PageTypeOK, Place, Attempt, Holding
    <3> QED BY <1>b, <3>1
  <2> HIDE DEF x
  <2> QED BY <1>a, <1>c, <2>1, <2>2
<1>6. CASE ReadBody(c)
  BY <1>c, <1>6 DEF ReadBody
<1>7. CASE Number(c)
  <2>0. Top(call[c].body \cup facts) \in Nat /\ Top(call[c].body) \in Nat
    <3>1. call[c].body \subseteq Row /\ Bounded(call[c].body) /\ Bounded(facts)
      BY DEF NumbersBounded
    <3> QED BY <3>1, BoundedUnion, TopBounds
  <2>1. PICK n \in Nat : call' = [call EXCEPT ![c].pc = "rename", ![c].num = n] /\ up' = up
    BY <1>7, <2>0 DEF Number, NumberAfter
  <2> DEFINE x == [call[c] EXCEPT !.pc = "rename", !.num = n]
  <2>2. call' = [call EXCEPT ![c] = x] /\ up' = up
    BY <2>1
  <2>3. x \in CallType /\ x.late = call[c].late /\ x.body = call[c].body
    <3> HIDE DEF PageTypeOK
    <3> QED BY <1>b, <2>1
  <2> HIDE DEF x
  <2> QED BY <1>a, <2>2, <2>3
<1>8. CASE WriteBody(c) \/ Strike(c)
  <2>1. \E l \in {"insert", "release", "expire", "unstruck"} :
          call' = [call EXCEPT ![c].pc = l, ![c].body = {}] /\ up' = up
    BY <1>8 DEF WriteBody, Strike
  <2> QED BY <1>c, <2>1
<1>9. CASE ReadTarget(c)
  <2>1. CASE Goes(c, "unstruck") /\ up' = up
    BY <2>1 DEF CallMoved
  <2>2. CASE call' = [call EXCEPT ![c].pc = "strike", ![c].body = fence] /\ up' = up
    BY <1>c, <2>2
  <2> QED BY <1>9, <2>1, <2>2 DEF ReadTarget
<1>10. CASE Insert(c) \/ Expire(c) \/ ExpireOnly(c)
  BY <1>3, <1>10 DEF Insert, Expire, ExpireOnly, CallMoved
<1> QED BY <1>1, <1>2, <1>4, <1>5, <1>6, <1>7, <1>8, <1>9, <1>10 DEF CallStep

LEMMA CallGoes ==
  ASSUME call \in [Calls -> CallType], NEW c \in Calls, NEW l, Goes(c, l)
  PROVE  /\ call'[c].pc = l /\ call'[c].body = call[c].body /\ call'[c].num = call[c].num
BY DEF Goes, CallType

LEMMA CallEnds ==
  ASSUME call \in [Calls -> CallType], NEW c \in Calls, Ends(c)
  PROVE  call'[c].pc = "over"
<1> HIDE DEF CallType
<1>1. call'[c] = Over(c)
  BY DEF Ends
<1> QED BY <1>1 DEF Over, Unborn

\* What a forget does to the table strikes rows out, or nothing.
LEMMA ExpiresRows ==
  ASSUME PageTypeOK, NumbersBounded, NEW c \in Calls, Expires(c)
  PROVE  /\ facts' \subseteq Row /\ Bounded(facts')
         /\ \A f \in facts' : \E e \in facts :
              /\ f.num = e.num /\ f.by = e.by
              /\ f.out => e.out \/ (facts' # facts /\ e.num = call[c].num)
<1>1. call[c].num \in Nat /\ facts \subseteq Row /\ Bounded(facts)
  BY DEF PageTypeOK, CallType, NumbersBounded
<1>2. CASE facts' = facts
  BY <1>1, <1>2
<1>3. CASE facts' = Struck(facts, call[c].num) /\ facts' # facts
  <2>1. ASSUME NEW f \in facts'
        PROVE  \E e \in facts :
                 /\ f.num = e.num /\ f.by = e.by
                 /\ f.out => e.out \/ (facts' # facts /\ e.num = call[c].num)
    <3>1. \A x \in Struck(facts, call[c].num) : \E e \in facts :
            x.num = e.num /\ x.by = e.by /\ x.out = (e.out \/ e.num = call[c].num)
      <4> DEFINE n == call[c].num
      <4>1. n \in Nat
        BY <1>1
      <4> HIDE DEF n
      <4>2. \A x \in Struck(facts, n) : \E e \in facts :
              x.num = e.num /\ x.by = e.by /\ x.out = (e.out \/ e.num = n)
        BY <1>1, <4>1, StruckRows
      <4> QED BY <4>2 DEF n
    <3>2. PICK e \in facts : f.num = e.num /\ f.by = e.by /\ f.out = (e.out \/ e.num = call[c].num)
      BY <1>3, <2>1, <3>1
    <3> QED BY <1>3, <3>2
  <2> QED BY <1>1, <1>3, <2>1, StruckRows
<1> QED BY <1>2, <1>3 DEF Expires

LEMMA CallKeepsPlaces ==
  ASSUME PlaceInv, NEW c \in Calls, CallStep(c), UNCHANGED cycle
  PROVE  PlaceInv'
<1>0. PageTypeOK /\ NumbersBounded /\ CallersUp
  BY DEF PlaceInv
<1>1. /\ call' \in [Calls -> CallType]
      /\ \A d \in Calls \ {c} : call'[d] = call[d]
      /\ call'[c].body \in {call[c].body, fence, {}}
      /\ up' = up
  BY <1>0, CallMoves DEF CallMoved
<1>2. call[c].num \in Nat /\ call[c].body \subseteq Row
  BY <1>0 DEF PageTypeOK, CallType
<1>3. RowOf(c) \in Row
  BY <1>2 DEF RowOf, Row
<1>4. fence' \subseteq Row /\ Bounded(fence')
  <2>1. CASE fence' = call[c].body \cup {RowOf(c)}
    BY <1>0, <1>2, <1>3, <2>1, BoundedRow DEF NumbersBounded
  <2>2. CASE fence' = Struck(call[c].body, call[c].num)
    BY <1>0, <1>2, <2>2, StruckRows DEF NumbersBounded
  <2>3. CASE UNCHANGED fence
    BY <1>0, <2>3 DEF NumbersBounded, PageTypeOK
  <2> QED BY <2>1, <2>2, <2>3 DEF CallStep, Begin, BeginForget, Exists, Stat, Read, Open, Fill, ReadBody,
            Number, WriteBody, Insert, ReadTarget, Strike, Expire, ExpireOnly, Check, Unlink, page
<1>5. facts' \subseteq Row /\ Bounded(facts')
  <2>1. CASE Insert(c)
    BY <1>0, <1>3, <2>1, BoundedRow DEF Insert, NumbersBounded, PageTypeOK
  <2>2. CASE Expires(c)
    BY <1>0, <2>2, ExpiresRows
  <2>3. CASE UNCHANGED facts
    BY <1>0, <2>3 DEF NumbersBounded, PageTypeOK
  <2> QED BY <2>1, <2>2, <2>3 DEF CallStep, Begin, BeginForget, Exists, Stat, Read, Open, Fill, ReadBody,
            Number, WriteBody, ReadTarget, Strike, Expire, ExpireOnly, Check, Unlink, page
<1>6. lock' \in {NoLock} \cup [by : Calls, whole : BOOLEAN, old : BOOLEAN]
  <2>1. CASE Open(c)
    BY <2>1 DEF Open
  <2>2. CASE Fill(c)
    <3>1. lock' = [by |-> c, whole |-> TRUE, old |-> FALSE] \/ lock' = lock
      BY <2>2 DEF Fill
    <3>2. lock \in {NoLock} \cup [by : Calls, whole : BOOLEAN, old : BOOLEAN]
      BY <1>0 DEF PageTypeOK
    <3>3. [by |-> c, whole |-> TRUE, old |-> FALSE] \in [by : Calls, whole : BOOLEAN, old : BOOLEAN]
      OBVIOUS
    <3> QED BY <3>1, <3>2, <3>3
  <2>3. CASE Unlink(c)
    BY <2>3 DEF Unlink
  <2>4. CASE UNCHANGED lock
    BY <1>0, <2>4 DEF PageTypeOK
  <2> QED BY <2>1, <2>2, <2>3, <2>4 DEF CallStep, Begin, BeginForget, Exists, Stat, Read, ReadBody,
            Number, WriteBody, Insert, ReadTarget, Strike, Expire, ExpireOnly, Check
<1>7. upsets' \subseteq {"raced", "refused", "blind", "rewritten", "revived"}
  BY <1>0 DEF PageTypeOK, CallStep, Begin, BeginForget, Exists, Stat, Read, Open, Fill, ReadBody, Number,
              WriteBody, Insert, ReadTarget, Strike, Expire, ExpireOnly, Check, Unlink, Takes, Notes
<1>8. bare' \subseteq Nat
  BY <1>0, <1>2 DEF PageTypeOK, CallStep, Begin, BeginForget, Exists, Stat, Read, Open, Fill, ReadBody,
              Number, WriteBody, Insert, ReadTarget, Strike, Expire, ExpireOnly, Check, Unlink, page
<1>9. NumbersBounded'
  <2>1. Bounded({})
    BY DEF Bounded
  <2>2. \A d \in Calls : Bounded(call'[d].body)
    BY <1>0, <1>1, <2>1 DEF NumbersBounded
  <2> QED BY <1>0, <1>4, <1>5, <2>2 DEF NumbersBounded, Bounded, cycle
<1>10. CallersUp'
  <2>1. call[c].pc \notin {"idle", "over"} \/ up[Pid[c]]
    BY DEF CallStep, Begin, BeginForget, Exists, Stat, Read, Open, Fill, ReadBody, Number,
           WriteBody, Insert, ReadTarget, Strike, Expire, ExpireOnly, Check, Unlink
  <2> QED BY <1>0, <1>1, <2>1 DEF CallersUp
<1>11. db' \subseteq Row /\ pass' \in PassType
  BY <1>0 DEF PageTypeOK, cycle
<1> QED BY <1>0, <1>1, <1>4, <1>5, <1>6, <1>7, <1>8, <1>9, <1>10, <1>11 DEF PlaceInv, PageTypeOK

\* extract_facts and the import write no page, and of a call only that its row is gone.
PassStep == Import \/ ReadPage \/ List \/ Wipe \/ Refill \/ Abandon

LEMMA RefillRows ==
  ASSUME PageTypeOK, NumbersBounded, Refill
  PROVE  /\ facts' \subseteq Row /\ Bounded(facts')
         /\ \A f \in facts' \ facts :
              ~ f.out /\ \E e \in pass.body : Same(f, e) /\ ~ Taken(e.num)
         /\ facts \subseteq facts'
<1> DEFINE S(f) == [f EXCEPT !.out = FALSE]
           rows == {f \in pass.body : ~ Taken(f.num)}
<1>1. facts' = facts \cup {S(f) : f \in rows}
  BY DEF Refill
<1>2. pass.body \subseteq Row /\ Bounded(pass.body) /\ facts \subseteq Row /\ Bounded(facts)
  BY DEF PageTypeOK, PassType, NumbersBounded
<1>3. ASSUME NEW f \in rows PROVE S(f) \in Row /\ S(f).num = f.num /\ S(f).by = f.by /\ ~ S(f).out
  BY <1>2 DEF Row
<1> HIDE DEF S
<1>4. {S(f) : f \in rows} \subseteq Row /\ Bounded({S(f) : f \in rows})
  BY <1>2, <1>3 DEF Bounded
<1>5. Bounded(facts')
  BY <1>1, <1>2, <1>4, BoundedUnion
<1>6. ASSUME NEW f \in facts' \ facts
      PROVE  ~ f.out /\ \E e \in pass.body : Same(f, e) /\ ~ Taken(e.num)
  <2>1. PICK e \in rows : f = S(e)
    BY <1>1, <1>6
  <2> QED BY <1>3, <2>1 DEF Same
<1> QED BY <1>1, <1>2, <1>4, <1>5, <1>6

LEMMA PassMoves ==
  ASSUME PlaceInv, PassStep
  PROVE  /\ PlaceInv'
         /\ UNCHANGED <<lock, up, fence, bare>>
         /\ \A c \in Calls : /\ call'[c].pc = call[c].pc /\ call'[c].body = call[c].body
                             /\ call'[c].num = call[c].num /\ call'[c].late = call[c].late
<1>0. PageTypeOK /\ NumbersBounded /\ CallersUp
  BY DEF PlaceInv
<1>1. UNCHANGED <<lock, up, fence, bare>>
  BY DEF PassStep, Import, ReadPage, List, Wipe, Refill, Abandon, page
<1>2. /\ call' \in [Calls -> CallType]
      /\ \A c \in Calls : /\ call'[c].pc = call[c].pc /\ call'[c].body = call[c].body
                          /\ call'[c].num = call[c].num /\ call'[c].late = call[c].late
  <2>1. CASE Wipe
    <3>1. \A c \in Calls : \E b \in BOOLEAN : call'[c] = [call[c] EXCEPT !.gone = b]
      BY <2>1 DEF Wipe
    <3>2. call \in [Calls -> CallType] /\ DOMAIN call' = Calls /\ call' = [c \in Calls |-> call'[c]]
      BY <1>0, <2>1 DEF PageTypeOK, Wipe
    <3> HIDE DEF PlaceInv, PassStep
    <3> QED BY <3>1, <3>2 DEF CallType
  <2>2. CASE call' = call
    BY <1>0, <2>2 DEF PageTypeOK
  <2> QED BY <2>1, <2>2 DEF PassStep, Import, ReadPage, List, Refill, Abandon
<1>3. facts' \subseteq Row /\ Bounded(facts')
  <2>1. CASE Refill
    BY <1>0, <2>1, RefillRows
  <2>2. CASE facts' = facts \/ facts' = {}
    BY <1>0, <2>2 DEF PageTypeOK, NumbersBounded, Bounded
  <2> QED BY <2>1, <2>2 DEF PassStep, Import, ReadPage, List, Wipe, Abandon, page
<1>4. /\ db' \subseteq Row /\ Bounded(db')
      /\ pass' \in PassType /\ Bounded(pass'.body)
  <2>1. CASE Import \/ Refill
    BY <1>0, <2>1 DEF Import, Refill, AtRest, PageTypeOK, PassType, NumbersBounded, Bounded
  <2>2. CASE ReadPage
    BY <1>0, <2>2 DEF ReadPage, PageTypeOK, PassType, NumbersBounded, Bounded
  <2>3. CASE List \/ Wipe \/ Abandon
    BY <1>0, <2>3 DEF List, Wipe, Abandon, AtRest, PageTypeOK, PassType, NumbersBounded, Bounded
  <2> QED BY <2>1, <2>2, <2>3 DEF PassStep
<1>5. upsets' \subseteq {"raced", "refused", "blind", "rewritten", "revived"}
  BY <1>0 DEF PageTypeOK, PassStep, Import, ReadPage, List, Wipe, Refill, Abandon, Notes
<1>6. PageTypeOK'
  BY <1>0, <1>1, <1>2, <1>3, <1>4, <1>5 DEF PageTypeOK
<1>7. NumbersBounded'
  BY <1>0, <1>1, <1>2, <1>3, <1>4 DEF NumbersBounded, Bounded
<1>8. CallersUp'
  BY <1>0, <1>1, <1>2 DEF CallersUp
<1> QED BY <1>1, <1>2, <1>6, <1>7, <1>8 DEF PlaceInv

LEMMA PlaceStep == PlaceInv /\ [Next]_vars => PlaceInv'
<1> SUFFICES ASSUME PlaceInv, [Next]_vars PROVE PlaceInv'
  OBVIOUS
<1>0. PageTypeOK /\ NumbersBounded /\ CallersUp /\ Pid \in [Calls -> Procs] /\ NoCall \notin Calls
  BY CallsAssumption DEF PlaceInv
<1>1. CASE Age
  <2>1. lock \in [by : Calls, whole : BOOLEAN, old : BOOLEAN]
    BY <1>0, <1>1 DEF Age, PageTypeOK
  <2>2. \E b \in BOOLEAN : call' = [call EXCEPT ![lock.by].late = b]
    <3>1. call[lock.by].late \in BOOLEAN
      BY <1>0, <2>1 DEF PageTypeOK, CallType
    <3> QED BY <1>1, <3>1 DEF Age
  <2>3. UNCHANGED <<up, page, cycle, upsets>> /\ lock' = [lock EXCEPT !.old = TRUE]
    BY <1>1 DEF Age
  <2>4. /\ call' \in [Calls -> CallType]
        /\ \A d \in Calls : call'[d].pc = call[d].pc /\ call'[d].body = call[d].body
    BY <1>0, <2>1, <2>2 DEF PageTypeOK, CallType
  <2>5. PageTypeOK'
    BY <1>0, <2>1, <2>3, <2>4 DEF PageTypeOK, page, cycle
  <2> QED BY <1>0, <2>3, <2>4, <2>5 DEF PlaceInv, NumbersBounded, CallersUp, page, cycle, Bounded
<1>2. CASE Rewrite
  BY <1>0, <1>2 DEF Rewrite, PlaceInv, PageTypeOK, NumbersBounded, CallersUp, Bounded, Notes, cycle
<1>3. ASSUME NEW p \in Procs, Crash(p) PROVE PlaceInv'
  <2>1. \A d \in Calls : call'[d] = IF Pid[d] = p /\ call[d].pc # "idle" THEN Over(d) ELSE call[d]
    BY <1>3 DEF Crash
  <2>2. \A d \in Calls : \/ call'[d] = call[d] /\ (Pid[d] # p \/ call[d].pc = "idle")
                         \/ call'[d].pc = "over" /\ call'[d].body = {}
    BY <2>1 DEF Over, Unborn
  <2>3. PageTypeOK'
    BY <1>0, <1>3, <2>1 DEF Crash, PageTypeOK, CallType, Over, Unborn, Place, page, cycle
  <2>4. NumbersBounded'
    BY <1>0, <1>3, <2>2 DEF Crash, NumbersBounded, Bounded, page, cycle
  <2>5. CallersUp'
    BY <1>0, <1>3, <2>2 DEF Crash, CallersUp, PageTypeOK
  <2> QED BY <2>3, <2>4, <2>5 DEF PlaceInv
<1>4. ASSUME NEW p \in Procs, Start(p) PROVE PlaceInv'
  BY <1>0, <1>4 DEF Start, PlaceInv, PageTypeOK, NumbersBounded, CallersUp, Bounded, page, cycle
<1>5. CASE UNCHANGED vars
  BY <1>0, <1>5 DEF vars, PlaceInv, PageTypeOK, NumbersBounded, CallersUp, Bounded, page
<1>6. CASE PassStep
  BY <1>6, PassMoves
<1> QED BY <1>1, <1>2, <1>3, <1>4, <1>5, <1>6, CallKeepsPlaces DEF Next, PassStep

-----------------------------------------------------------------------------
(* The exclusion.                                                          *)
LEMMA CallTyped == PageTypeOK => call \in [Calls -> CallType] /\ NoCall \notin Calls
BY CallsAssumption DEF PageTypeOK

\* Who decides to take the lock, while nothing races, finds nobody inside.
LEMMA TakesAlone ==
  ASSUME PlaceInv, LockIsHis, Exclusive', NEW c \in Calls,
         Exists(c) \/ Stat(c) \/ Read(c), Takes(c)
  PROVE  \A d \in Calls \ {c} : call[d].pc \notin Inside
<1>0. /\ call \in [Calls -> CallType] /\ NoCall \notin Calls
      /\ \A d \in Calls : call[d].pc \notin {"idle", "over"} => up[Pid[d]]
  BY CallTyped DEF PlaceInv, CallersUp
<1>1. ~ Races(c)
  BY DEF Takes, Notes, Exclusive
<1> SUFFICES ASSUME NEW d \in Calls \ {c}, call[d].pc \in Holding PROVE FALSE
  BY <1>1 DEF Races, Inside
<1>2. lock.by = d /\ lock.whole /\ ~ lock.old /\ up[Pid[d]]
  BY <1>0 DEF LockIsHis, Holding
<1>3. lock # NoLock
  BY <1>0, <1>2 DEF NoLock
<1>4. CASE Exists(c)
  BY <1>0, <1>3, <1>4 DEF Exists, Takes, Goes, CallType
<1>5. CASE Stat(c)
  BY <1>0, <1>3, <1>5 DEF Stat, Takes, Goes, CallType
<1>6. CASE Read(c)
  <2>1. Alive(c) /\ ~ call[c].old
    BY <1>1, <1>2, <1>3 DEF Alive, Races
  <2>2. call'[c].pc \in {"poll", "over"}
    BY <1>0, <1>6, <2>1, CallGoes, CallEnds DEF Read
  <2>3. call'[c].pc = "open"
    BY <1>0 DEF Takes, Goes, CallType
  <2> QED BY <2>2, <2>3
<1> QED BY <1>4, <1>5, <1>6

\* How a call moves through the lock.
Outside(c)  == call'[c].pc \notin Inside /\ lock' = lock
Entering(c) == call'[c].pc = "open" /\ lock' = lock
Filling(c)  == call[c].pc = "open" /\ call'[c].pc = "fill" /\ lock'.by = c
Filled(c)   == /\ call[c].pc = "fill" /\ call'[c].pc = "held"
               /\ lock' = [by |-> c, whole |-> TRUE, old |-> FALSE]
Working(c)  == call[c].pc \in Holding /\ call'[c].pc \in Holding /\ lock' = lock
Leaving(c)  == call[c].pc = "unlink" /\ call'[c].pc = "over"

LEMMA CallPlaces ==
  ASSUME PlaceInv, LockIsHis, Exclusive', NEW c \in Calls, CallStep(c)
  PROVE  \/ Outside(c)
         \/ Entering(c) /\ \A d \in Calls \ {c} : call[d].pc \notin Inside
         \/ Filling(c) \/ Filled(c) \/ Working(c) \/ Leaving(c)
<1>0. call \in [Calls -> CallType] /\ NoCall \notin Calls
  BY CallTyped DEF PlaceInv
<1> USE DEF Goes, CallType
<1>1. CASE Exists(c) \/ Stat(c) \/ Read(c)
  <2>1. CASE Takes(c)
    BY <1>0, <1>1, <2>1, TakesAlone DEF Takes, Exists, Stat, Read, Entering
  <2>2. CASE ~ Takes(c)
    <3>1. CASE Read(c)
      <4>1. call'[c].pc \in {"poll", "over"} /\ lock' = lock
        BY <1>0, <2>2, <3>1, CallGoes, CallEnds DEF Read
      <4> QED BY <4>1 DEF Outside, Inside, Holding
    <3> QED BY <1>0, <1>1, <2>2, <3>1 DEF Exists, Stat, Outside, Inside, Holding
  <2> QED BY <2>1, <2>2
<1>2. CASE Begin(c) \/ \E f \in facts : BeginForget(c, f)
  <2>1. call'[c].pc \in {"poll", "bare"} /\ lock' = lock
    <3>1. CASE Begin(c)
      BY <1>0, <3>1 DEF Begin
    <3>2. ASSUME NEW f \in facts, BeginForget(c, f) PROVE call'[c].pc \in {"poll", "bare"} /\ lock' = lock
      BY <1>0, <3>2 DEF BeginForget
    <3> QED BY <1>2, <3>1, <3>2
  <2> QED BY <2>1 DEF Outside, Inside, Holding
<1>3. CASE Open(c)
  BY <1>0, <1>3 DEF Open, Filling
<1>4. CASE Fill(c)
  BY <1>0, <1>4 DEF Fill, Filled, LockIsHis
<1>5. CASE ReadBody(c) \/ Number(c) \/ WriteBody(c) \/ Insert(c) \/ ReadTarget(c) \/ Strike(c) \/ Expire(c)
  BY <1>0, <1>5 DEF ReadBody, Number, WriteBody, Insert, ReadTarget, Strike, Expire, Working, Holding
<1>8. CASE ExpireOnly(c)
  <2> HIDE DEF Goes, CallType
  <2>1. CASE call[c].pc = "bare"
    <3>1. call'[c].pc = "over" /\ lock' = lock
      BY <1>0, <1>8, <2>1, CallEnds DEF ExpireOnly
    <3> QED BY <3>1 DEF Outside, Inside, Holding
  <2>2. CASE call[c].pc = "unstruck"
    <3>1. call'[c].pc = "release" /\ lock' = lock
      BY <1>0, <1>8, <2>2, CallGoes DEF ExpireOnly
    <3> QED BY <2>2, <3>1 DEF Working, Holding
  <2> QED BY <1>8, <2>1, <2>2 DEF ExpireOnly
<1>6. CASE Check(c)
  <2>1. call[c].pc \in Holding /\ lock.whole /\ lock.by = c
    BY <1>6 DEF Check, LockIsHis, Holding
  <2> QED BY <1>0, <1>6, <2>1 DEF Check, Working, Holding
<1>7. CASE Unlink(c)
  BY <1>0, <1>7, CallEnds DEF Unlink, Leaving
<1> QED BY <1>1, <1>2, <1>3, <1>4, <1>5, <1>6, <1>7, <1>8 DEF CallStep

\* One call inside, and the lock file is its own.
LEMMA CallKeepsLock ==
  ASSUME PlaceInv, LockIsHis, Exclusive', NEW c \in Calls, CallStep(c)
  PROVE  LockIsHis'
<1>1. \A d \in Calls \ {c} : call'[d] = call[d]
  BY CallMoves DEF PlaceInv, CallMoved
<1> USE DEF LockIsHis, Inside
<1>2. CASE Outside(c)
  BY <1>1, <1>2 DEF Outside
<1>3. CASE Entering(c) /\ \A d \in Calls \ {c} : call[d].pc \notin Inside
  BY <1>1, <1>3 DEF Entering, Holding
<1>4. CASE Filling(c)
  BY <1>1, <1>4 DEF Filling, Holding
<1>5. CASE Filled(c)
  BY <1>1, <1>5 DEF Filled, Holding
<1>6. CASE Working(c)
  BY <1>1, <1>6 DEF Working, Holding
<1>7. CASE Leaving(c)
  BY <1>1, <1>7 DEF Leaving, Holding
<1> QED BY <1>2, <1>3, <1>4, <1>5, <1>6, <1>7, CallPlaces

-----------------------------------------------------------------------------
(* The page under the lock.                                                *)
\* What reads and moves the lock leaves the page as it is known.
LEMMA ElsewhereKeepsPage ==
  ASSUME PageKept, NEW c \in Calls, UNCHANGED <<page, cycle>>,
         \A d \in Calls \ {c} : call'[d] = call[d],
         call'[c].pc \notin {"number", "rename", "strike", "insert", "expire"},
         \A what \in {"refused", "blind", "rewritten", "revived"} : what \in upsets' <=> what \in upsets
  PROVE  PageKept'
<1> USE DEF PageKept, page, cycle
<1>1. Rewritten' = Rewritten /\ Excused' = Excused
  BY DEF Rewritten, Excused
<1>2. ReadIsCurrent' /\ NumberIsNew' /\ RowIsWritten' /\ RowIsStruck'
  BY <1>1 DEF ReadIsCurrent, NumberIsNew, RowIsWritten, RowIsStruck
<1>3. NumberIsFree'
  BY <1>1 DEF NumberIsFree
<1>4. RefusedOnlyExcused' /\ CopiesInFence' /\ FactsInFence'
  BY <1>1 DEF RefusedOnlyExcused, CopiesInFence, FactsInFence
<1> QED BY <1>2, <1>3, <1>4

LEMMA CallKeepsPage ==
  ASSUME PlaceInv, LockIsHis, PageKept, NEW c \in Calls, CallStep(c), UNCHANGED cycle
  PROVE  PageKept'
<1>0. /\ call \in [Calls -> CallType] /\ NoCall \notin Calls
      /\ fence \subseteq Row /\ facts \subseteq Row
      /\ \A d \in Calls \ {c} : call'[d] = call[d]
      /\ PageTypeOK /\ NumbersBounded
      /\ UNCHANGED <<db, pass>>
  BY CallTyped, CallMoves DEF PlaceInv, PageTypeOK, CallMoved, cycle
<1>f. call[c].num \in Nat /\ call[c].body \subseteq Row
  BY <1>0 DEF CallType
<1>h. call[c].pc \in Holding => \A d \in Calls \ {c} : call[d].pc \notin Holding
  BY DEF LockIsHis, Inside
<1>i. call[c].pc \in Holding => \A d \in Calls \ {c} :
        call'[d].pc \notin {"number", "rename", "strike", "insert", "expire"}
  BY <1>0, <1>h DEF Holding
<1>p. /\ ReadIsCurrent /\ NumberIsNew /\ NumberIsFree /\ RowIsWritten /\ RowIsStruck
      /\ RefusedOnlyExcused /\ CopiesInFence /\ FactsInFence
  BY DEF PageKept
<1>1. CASE \/ Begin(c) \/ \E f \in facts : BeginForget(c, f)
           \/ Exists(c) \/ Stat(c) \/ Read(c) \/ Open(c) \/ Fill(c) \/ Check(c) \/ Unlink(c)
  <2>1. UNCHANGED page
    BY <1>1 DEF Begin, BeginForget, Exists, Stat, Read, Open, Fill, Check, Unlink
  <2>2. call'[c].pc \notin {"number", "rename", "strike", "insert", "expire"}
    <3> HIDE DEF CallType
    <3>1. CASE Begin(c)
      BY <1>0, <3>1 DEF Begin, CallType
    <3>2. ASSUME NEW f \in facts, BeginForget(c, f)
          PROVE  call'[c].pc \notin {"number", "rename", "strike", "insert", "expire"}
      BY <1>0, <3>2 DEF BeginForget, CallType
    <3>3. CASE Stat(c)
      BY <1>0, <3>3, CallGoes DEF Stat, Takes, CallType
    <3>4. CASE Exists(c) \/ Read(c) \/ Open(c) \/ Fill(c) \/ Check(c) \/ Unlink(c)
      BY <1>0, <3>4, CallGoes, CallEnds DEF Exists, Read, Open, Fill, Check, Unlink, Takes
    <3> QED BY <1>1, <3>1, <3>2, <3>3, <3>4
  <2>3. upsets' = upsets \/ upsets' = upsets \cup {"raced"}
    BY <1>1 DEF Begin, BeginForget, Exists, Stat, Read, Open, Fill, Check, Unlink, Takes, Notes
  <2> QED BY <1>0, <2>1, <2>2, <2>3, ElsewhereKeepsPage DEF cycle
<1>2. CASE ReadBody(c) \/ ReadTarget(c)
  <2>1. /\ UNCHANGED <<fence, facts, bare, upsets>>
        /\ \/ call'[c].pc \in {"number", "strike"} /\ call'[c].body = fence
           \/ call'[c].pc = "unstruck"
    BY <1>0, <1>2 DEF ReadBody, ReadTarget, Goes, page, CallType
  <2>2. Rewritten' = Rewritten /\ Excused' = Excused
    BY <2>1 DEF Rewritten, Excused
  <2>3. ReadIsCurrent' /\ NumberIsNew' /\ RowIsWritten' /\ RowIsStruck'
    BY <1>0, <1>p, <2>1, <2>2 DEF ReadIsCurrent, NumberIsNew, RowIsWritten, RowIsStruck
  <2>4. NumberIsFree'
    BY <1>0, <1>p, <2>1, <2>2 DEF NumberIsFree
  <2> QED BY <1>0, <1>p, <2>1, <2>2, <2>3, <2>4 DEF PageKept, RefusedOnlyExcused, CopiesInFence, FactsInFence
<1>3. CASE Number(c)
  <2>1. /\ UNCHANGED <<fence, facts, bare>> /\ call[c].pc = "number" /\ call'[c].pc = "rename"
        /\ call'[c].body = call[c].body
    BY <1>0, <1>3 DEF Number, page, CallType
  <2>2. /\ Rewritten' = Rewritten /\ ("refused" \in upsets' <=> "refused" \in upsets)
        /\ ("revived" \in upsets' <=> "revived" \in upsets)
        /\ ("blind" \in upsets => "blind" \in upsets')
    BY <1>3 DEF Number, Notes, Rewritten
  <2>e. Excused => Excused'
    BY <2>2 DEF Excused
  <2>3. /\ Top(call[c].body \cup facts) \in Nat /\ Top(call[c].body) \in Nat
        /\ \A f \in call[c].body \cup facts : f.num <= Top(call[c].body \cup facts)
        /\ \A f \in call[c].body : f.num <= Top(call[c].body)
    BY <1>0, <1>f, BoundedUnion, TopBounds DEF NumbersBounded
  <2>4. PICK t \in Nat :
          /\ call'[c].num = 1 + t
          /\ \A f \in call[c].body : f.num <= t
          /\ (\A f \in facts : f.num <= t) \/ ("blind" \in upsets')
    <3>1. CASE /\ call' = [call EXCEPT ![c].pc = "rename", ![c].num = NumberAfter(c)]
      <4>1. call'[c].num = 1 + Top(call[c].body \cup facts)
        BY <1>0, <3>1 DEF NumberAfter, CallType
      <4> QED BY <2>3, <4>1
    <3>2. CASE /\ call' = [call EXCEPT ![c].pc = "rename", ![c].num = 1 + Top(call[c].body)]
               /\ "blind" \in upsets'
      <4>1. call'[c].num = 1 + Top(call[c].body)
        BY <1>0, <3>2 DEF CallType
      <4> QED BY <2>3, <3>2, <4>1
    <3> QED BY <1>3, <3>1, <3>2 DEF Number, Notes
  <2>5. ASSUME ~ Excused', NEW f \in facts PROVE f.num # call'[c].num
    <3>1. f.num \in Nat
      BY <1>0 DEF Row
    <3>2. CASE f.num <= t
      BY <2>4, <3>1, <3>2
    <3>3. CASE "blind" \in upsets'
      <4>1. ~ Rewritten
        BY <2>2, <2>5, <3>3 DEF Excused
      <4>2. PICK g \in call[c].body : g.num = f.num
        BY <1>p, <2>1, <4>1 DEF ReadIsCurrent, FactsInFence, Same
      <4> QED BY <2>4, <3>1, <4>2
    <3> QED BY <2>4, <3>2, <3>3
  <2>6. \A g \in call'[c].body : g.num < call'[c].num
    <3>1. ASSUME NEW g \in call[c].body PROVE g.num < 1 + t
      <4>1. g.num \in Nat /\ g.num <= t
        BY <1>f, <2>4 DEF Row
      <4> QED BY <4>1
    <3> QED BY <2>1, <2>4, <3>1
  <2>7. ReadIsCurrent' /\ RowIsWritten' /\ RowIsStruck'
    BY <1>0, <1>p, <2>1, <2>2 DEF ReadIsCurrent, RowIsWritten, RowIsStruck
  <2>8. NumberIsNew' /\ NumberIsFree'
    BY <1>0, <1>i, <2>1, <2>5, <2>6 DEF NumberIsNew, NumberIsFree, Holding
  <2>9. RefusedOnlyExcused' /\ CopiesInFence' /\ FactsInFence'
    BY <1>0, <1>p, <2>1, <2>2, <2>e DEF RefusedOnlyExcused, CopiesInFence, FactsInFence
  <2> QED BY <2>7, <2>8, <2>9 DEF PageKept
<1>4. CASE WriteBody(c)
  <2>1. /\ UNCHANGED <<facts, bare, upsets>> /\ call[c].pc = "rename"
        /\ Rewritten' = Rewritten /\ Excused' = Excused
    BY <1>4 DEF WriteBody, Rewritten, Excused
  <2>2. CASE UNCHANGED fence /\ call'[c].pc = "release"
    BY <1>0, <2>1, <2>2, ElsewhereKeepsPage DEF page, cycle
  <2>3. CASE fence' = call[c].body \cup {RowOf(c)} /\ call'[c].pc = "insert" /\ call'[c].num = call[c].num
    <3>1. /\ RowOf(c) \in fence' /\ RowOf(c).num = call[c].num /\ RowOf(c).by = c
      BY <2>3 DEF RowOf
    <3>2. ~ Rewritten => fence \subseteq fence'
      BY <1>p, <2>1, <2>3 DEF ReadIsCurrent
    <3>3. \A g \in fence' : g.num = call[c].num => g.by = c
      <4>1. ASSUME NEW g \in call[c].body PROVE g.num # call[c].num
        <5>1. g.num \in Nat /\ g.num < call[c].num
          BY <1>f, <1>p, <2>1 DEF NumberIsNew, Row
        <5> QED BY <1>f, <5>1
      <4> QED BY <2>3, <3>1, <4>1
    <3>4. ReadIsCurrent' /\ RowIsStruck' /\ RefusedOnlyExcused'
      BY <1>i, <1>p, <2>1, <2>3 DEF ReadIsCurrent, RowIsStruck, RefusedOnlyExcused, Holding
    <3>5. NumberIsNew' /\ RowIsWritten'
      BY <1>i, <2>1, <2>3, <3>1, <3>3 DEF NumberIsNew, RowIsWritten, Holding
    <3>6. NumberIsFree'
      BY <1>i, <1>p, <2>1, <2>3 DEF NumberIsFree, Holding
    <3>7. CopiesInFence' /\ FactsInFence'
      BY <1>0, <1>p, <2>1, <3>2 DEF CopiesInFence, FactsInFence, Held
    <3> QED BY <3>4, <3>5, <3>6, <3>7 DEF PageKept
  <2> QED BY <1>0, <1>4, <2>2, <2>3 DEF WriteBody, CallType
<1>5. CASE Insert(c)
  <2>1. /\ UNCHANGED <<fence, bare>> /\ call[c].pc = "insert" /\ call'[c].pc = "release"
        /\ facts' \in {facts, facts \cup {RowOf(c)}}
        /\ \/ TakenFrom(c) /\ upsets' = upsets \cup {"refused"}
           \/ upsets' = upsets
    BY <1>0, <1>5 DEF Insert, Notes, Goes, CallType
  <2>2. \A d \in Calls : call'[d].pc \notin {"number", "rename", "strike", "insert", "expire"}
    BY <1>i, <2>1 DEF Holding
  <2>3. Rewritten' = Rewritten /\ Excused' = Excused
    BY <2>1 DEF Rewritten, Excused
  <2>4. ReadIsCurrent' /\ NumberIsNew' /\ NumberIsFree' /\ RowIsWritten' /\ RowIsStruck'
    BY <2>2 DEF ReadIsCurrent, NumberIsNew, NumberIsFree, RowIsWritten, RowIsStruck
  <2>5. TakenFrom(c) => Excused
    BY <1>p, <2>1 DEF NumberIsFree, TakenFrom
  <2>6. RefusedOnlyExcused'
    BY <1>p, <2>1, <2>3, <2>5 DEF RefusedOnlyExcused
  <2>7. FactsInFence' /\ CopiesInFence'
    BY <1>0, <1>p, <2>1, <2>3 DEF FactsInFence, CopiesInFence, RowIsWritten, RowOf, Same
  <2> QED BY <2>4, <2>6, <2>7 DEF PageKept
<1>6. CASE Strike(c)
  <2>1. /\ UNCHANGED <<facts, bare, upsets>> /\ call[c].pc = "strike"
        /\ Rewritten' = Rewritten /\ Excused' = Excused
    BY <1>6 DEF Strike, Rewritten, Excused
  <2>2. CASE UNCHANGED fence /\ call'[c].pc = "unstruck"
    BY <1>0, <2>1, <2>2, ElsewhereKeepsPage DEF page, cycle
  <2>3. CASE /\ fence' = Struck(call[c].body, call[c].num)
             /\ call'[c].pc = "expire" /\ call'[c].num = call[c].num
    <3>1. Bounded(call[c].body)
      BY <1>0 DEF NumbersBounded
    <3>2. ASSUME NEW f \in call[c].body PROVE \E g \in fence' : Same(f, g) /\ (f.out => g.out)
      <4>1. \A x \in call[c].body : \E g \in Struck(call[c].body, call[c].num) :
              g.num = x.num /\ g.by = x.by /\ g.out = (x.out \/ x.num = call[c].num)
        BY <1>f, <3>1, StruckRows
      <4>2. PICK g \in fence' : g.num = f.num /\ g.by = f.by /\ g.out = (f.out \/ f.num = call[c].num)
        BY <2>3, <3>2, <4>1
      <4> QED BY <4>2 DEF Same
    <3>3. ASSUME NEW g \in fence', g.num = call[c].num PROVE g.out
      <4>1. \A x \in Struck(call[c].body, call[c].num) : \E f \in call[c].body :
              x.num = f.num /\ x.by = f.by /\ x.out = (f.out \/ f.num = call[c].num)
        BY <1>f, <3>1, StruckRows
      <4>2. PICK f \in call[c].body : g.num = f.num /\ g.by = f.by /\ g.out = (f.out \/ f.num = call[c].num)
        BY <2>3, <3>3, <4>1
      <4> QED BY <3>3, <4>2
    <3>4. ~ Rewritten => \A f \in fence : \E g \in fence' : Same(f, g) /\ (f.out => g.out)
      BY <1>p, <2>1, <3>2 DEF ReadIsCurrent
    <3>5. ReadIsCurrent' /\ NumberIsNew' /\ RowIsWritten' /\ NumberIsFree'
      BY <1>i, <2>1, <2>3 DEF ReadIsCurrent, NumberIsNew, RowIsWritten, NumberIsFree, Holding
    <3>6. RowIsStruck' /\ RefusedOnlyExcused'
      BY <1>i, <1>p, <2>1, <2>3, <3>3 DEF RowIsStruck, RefusedOnlyExcused, Holding
    <3>7. CopiesInFence'
      BY <1>0, <1>p, <2>1, <3>4 DEF CopiesInFence, Held, Same
    <3>8. FactsInFence'
      BY <1>p, <2>1, <3>4 DEF FactsInFence, Same
    <3> QED BY <3>5, <3>6, <3>7, <3>8 DEF PageKept
  <2> QED BY <1>0, <1>6, <2>2, <2>3 DEF Strike, CallType
<1>7. CASE Expire(c) \/ ExpireOnly(c)
  <2>1. /\ UNCHANGED <<fence, upsets>> /\ Expires(c) /\ Rewritten' = Rewritten /\ Excused' = Excused
        /\ call'[c].pc \in {"release", "over"}
        /\ \/ call[c].pc = "expire" /\ bare' = bare
           \/ bare' = IF facts' = facts THEN bare ELSE bare \cup {call[c].num}
    <3>1. call'[c].pc \in {"release", "over"}
      BY <1>0, <1>7, CallGoes, CallEnds DEF Expire, ExpireOnly
    <3> QED BY <1>7, <3>1 DEF Expire, ExpireOnly, Rewritten, Excused
  <2>2. \A f \in facts' : \E e \in facts :
          /\ f.num = e.num /\ f.by = e.by
          /\ f.out => e.out \/ (facts' # facts /\ e.num = call[c].num)
    BY <1>0, <2>1, ExpiresRows
  <2>3. ReadIsCurrent' /\ NumberIsNew' /\ RowIsWritten' /\ RowIsStruck'
    BY <1>0, <1>p, <2>1 DEF ReadIsCurrent, NumberIsNew, RowIsWritten, RowIsStruck
  <2>4. NumberIsFree'
    <3> SUFFICES ASSUME ~ Excused, NEW d \in Calls, NEW f \in facts'
                 PROVE  /\ call'[d].pc = "rename" => f.num # call'[d].num
                        /\ call'[d].pc = "insert" /\ f.num = call'[d].num => f.by = d
      BY <2>1 DEF NumberIsFree
    <3>1. PICK e \in facts : f.num = e.num /\ f.by = e.by
      BY <2>2
    <3>2. CASE d = c
      BY <2>1, <3>2
    <3>3. CASE d # c
      BY <1>0, <1>p, <3>1, <3>3 DEF NumberIsFree
    <3> QED BY <3>2, <3>3
  <2>5. FactsInFence'
    <3> SUFFICES ASSUME ~ Rewritten, NEW f \in facts'
                 PROVE  \E g \in fence : Same(f, g) /\ (f.out /\ f.num \notin bare' => g.out)
      BY <2>1 DEF FactsInFence
    <3>1. PICK e \in facts : /\ f.num = e.num /\ f.by = e.by
                             /\ f.out => e.out \/ (facts' # facts /\ e.num = call[c].num)
      BY <2>2
    <3>2. PICK g \in fence : Same(e, g) /\ (e.out /\ e.num \notin bare => g.out)
      BY <1>p DEF FactsInFence
    <3>3. bare \subseteq bare' /\ Same(f, g)
      BY <2>1, <3>1, <3>2 DEF Same
    <3>4. call[c].pc = "expire" /\ g.num = call[c].num => g.out
      BY <1>p DEF RowIsStruck
    <3>5. call[c].pc # "expire" /\ facts' # facts => call[c].num \in bare'
      BY <2>1
    <3> QED BY <3>1, <3>2, <3>3, <3>4, <3>5 DEF Same
  <2> QED BY <1>0, <1>p, <2>1, <2>3, <2>4, <2>5 DEF PageKept, RefusedOnlyExcused, CopiesInFence
<1> QED BY <1>1, <1>2, <1>3, <1>4, <1>5, <1>6, <1>7 DEF CallStep

\* An import, a wipe or a refill between two steps of a call.
LEMMA PassKeepsPage ==
  ASSUME PlaceInv, PageKept, PassStep
  PROVE  PageKept'
<1>0. /\ PageTypeOK /\ NumbersBounded /\ UNCHANGED <<lock, up, fence, bare>>
      /\ \A c \in Calls : /\ call'[c].pc = call[c].pc /\ call'[c].body = call[c].body
                          /\ call'[c].num = call[c].num
  BY PassMoves DEF PlaceInv
<1>p. /\ ReadIsCurrent /\ NumberIsNew /\ NumberIsFree /\ RowIsWritten /\ RowIsStruck
      /\ RefusedOnlyExcused /\ CopiesInFence /\ FactsInFence
  BY DEF PageKept
<1>1. /\ upsets' = upsets \/ upsets' = upsets \cup {"revived"}
      /\ upsets' # upsets => Refill /\ Missing(fence, {f \in pass.body : ~ Taken(f.num)}) # {}
  BY DEF PassStep, Import, ReadPage, List, Wipe, Refill, Abandon, Notes
<1>2. Rewritten' = Rewritten /\ (Excused => Excused')
  BY <1>1 DEF Rewritten, Excused
<1>3. ReadIsCurrent' /\ NumberIsNew' /\ RowIsWritten' /\ RowIsStruck'
  BY <1>0, <1>p, <1>2 DEF ReadIsCurrent, NumberIsNew, RowIsWritten, RowIsStruck
<1>4. CopiesInFence'
  <2>1. (db' \cup pass'.body) \subseteq (db \cup pass.body \cup fence)
    <3>1. CASE List \/ Wipe \/ Refill \/ Abandon
      <4>1. db' = db /\ pass'.body \in {pass.body, {}}
        BY <1>0, <3>1 DEF List, Wipe, Refill, Abandon, AtRest, PageTypeOK, PassType
      <4> QED BY <4>1
    <3>2. CASE Import \/ ReadPage
      BY <3>2 DEF Import, ReadPage
    <3> QED BY <3>1, <3>2 DEF PassStep
  <2>2. \A f \in fence : Held(f, fence)
    BY DEF Held, Same
  <2>3. \A f : Held(f, fence)' <=> Held(f, fence)
    BY <1>0 DEF Held
  <2> QED BY <1>0, <1>p, <1>2, <2>1, <2>2 DEF CopiesInFence, Held
<1>5. RefusedOnlyExcused'
  <2>1. ASSUME upsets' # upsets PROVE Rewritten
    <3>1. PICK f \in pass.body : ~ Held(f, fence)
      BY <1>1, <2>1 DEF Missing
    <3> QED BY <1>p, <3>1 DEF CopiesInFence
  <2>2. "refused" \in upsets' <=> "refused" \in upsets
    BY <1>1
  <2> QED BY <1>1, <1>2, <1>p, <2>1, <2>2 DEF RefusedOnlyExcused
<1>6. CASE Refill
  <2>1. \A f \in facts' \ facts : ~ f.out /\ \E e \in pass.body : Same(f, e) /\ ~ Taken(e.num)
    BY <1>0, <1>6, RefillRows
  <2>2. FactsInFence'
    <3> SUFFICES ASSUME ~ Rewritten, NEW f \in facts'
                 PROVE  \E g \in fence : Same(f, g) /\ (f.out /\ f.num \notin bare => g.out)
      BY <1>0, <1>2 DEF FactsInFence
    <3>1. CASE f \in facts
      BY <1>p, <3>1 DEF FactsInFence
    <3>2. CASE f \notin facts
      <4>1. PICK e \in pass.body : Same(f, e)
        BY <2>1, <3>2
      <4>2. PICK g \in fence : Same(e, g)
        BY <1>p DEF CopiesInFence, Held
      <4> QED BY <2>1, <3>2, <4>1, <4>2 DEF Same
    <3> QED BY <3>1, <3>2
  <2>3. NumberIsFree'
    <3> SUFFICES ASSUME ~ Excused', NEW c \in Calls, NEW f \in facts'
                 PROVE  /\ call[c].pc = "rename" => f.num # call[c].num
                        /\ call[c].pc = "insert" /\ f.num = call[c].num => f.by = c
      BY <1>0 DEF NumberIsFree
    <3>1. CASE f \in facts
      BY <1>2, <1>p, <3>1 DEF NumberIsFree
    <3>2. CASE f \notin facts
      <4>1. PICK e \in pass.body : Same(f, e) /\ ~ Taken(e.num)
        BY <2>1, <3>2
      <4>2. Held(e, fence)
        <5>1. CASE ~ Rewritten
          BY <1>p, <5>1 DEF CopiesInFence
        <5>2. CASE Rewritten
          <6>1. "revived" \notin upsets'
            BY <1>2, <5>2 DEF Excused
          <6>2. Missing(fence, {x \in pass.body : ~ Taken(x.num)}) = {}
            BY <1>6, <6>1 DEF Refill, Notes
          <6> QED BY <4>1, <6>2 DEF Missing
        <5> QED BY <5>1, <5>2
      <4>3. PICK g \in fence : g.num = f.num /\ g.by = f.by
        BY <4>1, <4>2 DEF Held, Same
      <4>4. ASSUME call[c].pc = "rename" PROVE f.num # call[c].num
        <5>1. g \in call[c].body /\ g.num < call[c].num
          BY <1>p, <4>4 DEF ReadIsCurrent, NumberIsNew
        <5>2. g.num \in Nat /\ call[c].num \in Nat
          BY <1>0 DEF PageTypeOK, CallType, Row
        <5> QED BY <4>3, <5>1, <5>2
      <4>5. call[c].pc = "insert" /\ f.num = call[c].num => f.by = c
        BY <1>p, <4>3 DEF NumberIsNew
      <4> QED BY <4>4, <4>5
    <3> QED BY <3>1, <3>2
  <2> QED BY <1>3, <1>4, <1>5, <2>2, <2>3 DEF PageKept
<1>7. CASE facts' = {} \/ facts' = facts
  <2>1. NumberIsFree'
    BY <1>0, <1>2, <1>p, <1>7 DEF NumberIsFree
  <2>2. FactsInFence'
    BY <1>0, <1>2, <1>p, <1>7 DEF FactsInFence
  <2> QED BY <1>3, <1>4, <1>5, <2>1, <2>2 DEF PageKept
<1> QED BY <1>6, <1>7 DEF PassStep, Import, ReadPage, List, Wipe, Abandon, page

-----------------------------------------------------------------------------
(* The steps of no call.                                                   *)
\* What is not exclusive never is again.
LEMMA ExclusiveBefore == PlaceInv /\ [Next]_vars /\ Exclusive' => Exclusive
<1> SUFFICES ASSUME PlaceInv, [Next]_vars, Exclusive' PROVE Exclusive
  OBVIOUS
<1>0. call \in [Calls -> CallType] /\ NoCall \notin Calls /\ PageTypeOK /\ NumbersBounded
  BY CallTyped DEF PlaceInv
<1>1. upsets \subseteq upsets'
  BY DEF Next, Age, Rewrite, Crash, Start, CallStep, Begin, BeginForget, Exists, Stat, Read, Open, Fill,
         ReadBody, Number, WriteBody, Insert, ReadTarget, Strike, Expire, ExpireOnly, Check, Unlink, Takes,
         Import, ReadPage, List, Wipe, Refill, Abandon, Notes, vars
<1>2. \A c \in Calls : call[c].late => call'[c].late
  <2>1. CASE Age
    BY <1>0, <2>1 DEF Age, CallType
  <2>2. ASSUME NEW p \in Procs, Crash(p) PROVE \A c \in Calls : call[c].late => call'[c].late
    <3>1. \A c \in Calls : call'[c] = IF Pid[c] = p /\ call[c].pc # "idle" THEN Over(c) ELSE call[c]
      BY <2>2 DEF Crash
    <3> QED BY <3>1 DEF Over, Unborn
  <2>3. ASSUME NEW c \in Calls, CallStep(c) PROVE \A d \in Calls : call[d].late => call'[d].late
    <3>1. call'[c].late = call[c].late /\ \A d \in Calls \ {c} : call'[d] = call[d]
      BY <1>0, <2>3, CallMoves DEF CallMoved
    <3> QED BY <3>1
  <2>4. CASE call' = call
    BY <2>4
  <2>5. CASE PassStep
    BY <2>5, PassMoves
  <2> QED BY <2>1, <2>2, <2>3, <2>4, <2>5 DEF Next, PassStep, Rewrite, Start, vars
<1> QED BY <1>1, <1>2 DEF Exclusive

\* Time, crashes and writers that know no fence.
LEMMA OthersKeepFence ==
  ASSUME PlaceInv, LockIsHis, PageKept, Exclusive',
         Age \/ Rewrite \/ (\E p \in Procs : Crash(p) \/ Start(p)) \/ UNCHANGED vars
  PROVE  LockIsHis' /\ PageKept'
<1>0. call \in [Calls -> CallType] /\ NoCall \notin Calls /\ PageTypeOK
  BY CallTyped DEF PlaceInv
<1> USE DEF LockIsHis, PageKept, ReadIsCurrent, NumberIsNew, NumberIsFree, RowIsWritten, RowIsStruck,
            RefusedOnlyExcused, CopiesInFence, FactsInFence, Rewritten, Excused
<1>1. CASE Age
  <2>1. lock \in [by : Calls, whole : BOOLEAN, old : BOOLEAN]
    BY <1>0, <1>1 DEF Age, PageTypeOK
  <2>2. /\ lock'.by = lock.by /\ UNCHANGED <<fence, facts, bare, db, pass, upsets>>
        /\ \A c \in Calls : call'[c].pc = call[c].pc /\ call'[c].body = call[c].body
                           /\ call'[c].num = call[c].num
    BY <1>0, <1>1, <2>1 DEF Age, page, cycle, CallType
  <2>3. call[lock.by].pc \notin Holding
    <3>1. call'[lock.by].late = (call[lock.by].late \/ call[lock.by].pc \in Holding)
      BY <1>0, <1>1, <2>1 DEF Age, CallType
    <3> QED BY <2>1, <3>1 DEF Exclusive
  <2>4. \A c \in Calls : call[c].pc \notin Holding
    BY <2>3
  <2>5. LockIsHis'
    BY <2>2, <2>4
  <2> QED BY <2>2, <2>5
<1>2. CASE Rewrite
  <2>1. UNCHANGED <<lock, call, facts>> /\ fence' = {} /\ upsets' = upsets \cup {"rewritten"}
    BY <1>2 DEF Rewrite, Notes
  <2> QED BY <2>1
<1>3. ASSUME NEW p \in Procs, Crash(p) PROVE LockIsHis' /\ PageKept'
  <2>1. \A c \in Calls : call'[c] = call[c] \/ call'[c].pc = "over"
    <3>1. \A c \in Calls : call'[c] = IF Pid[c] = p /\ call[c].pc # "idle" THEN Over(c) ELSE call[c]
      BY <1>3 DEF Crash
    <3> QED BY <3>1 DEF Over, Unborn
  <2>2. UNCHANGED <<lock, fence, facts, bare, db, pass, upsets>>
    BY <1>3 DEF Crash, page, cycle
  <2>3. LockIsHis'
    BY <2>1, <2>2 DEF Inside, Holding
  <2> QED BY <2>1, <2>2, <2>3
<1>4. CASE (\E p \in Procs : Start(p)) \/ UNCHANGED vars
  <2>1. UNCHANGED <<lock, call, fence, facts, bare, db, pass, upsets>>
    BY <1>4 DEF Start, vars, page, cycle
  <2> QED BY <2>1
<1> QED BY <1>1, <1>2, <1>3, <1>4

LEMMA FenceStep == FenceInv /\ [Next]_vars => FenceInv'
<1> SUFFICES ASSUME FenceInv, [Next]_vars PROVE FenceInv'
  OBVIOUS
<1>1. PlaceInv /\ PlaceInv'
  BY PlaceStep DEF FenceInv
<1>2. ASSUME Exclusive' PROVE LockIsHis' /\ PageKept'
  <2>1. LockIsHis /\ PageKept
    BY <1>1, <1>2, ExclusiveBefore DEF FenceInv
  <2>2. ASSUME NEW c \in Calls, CallStep(c), UNCHANGED cycle PROVE LockIsHis' /\ PageKept'
    BY <1>1, <1>2, <2>1, <2>2, CallKeepsLock, CallKeepsPage
  <2>4. CASE PassStep
    <3>1. LockIsHis'
      BY <1>1, <2>1, <2>4, PassMoves DEF LockIsHis
    <3> QED BY <1>1, <2>1, <2>4, <3>1, PassKeepsPage
  <2>3. CASE Age \/ Rewrite \/ (\E p \in Procs : Crash(p) \/ Start(p)) \/ UNCHANGED vars
    BY <1>1, <1>2, <2>1, <2>3, OthersKeepFence
  <2> QED BY <2>2, <2>3, <2>4 DEF Next, PassStep
<1> QED BY <1>1, <1>2 DEF FenceInv

LEMMA FenceInit == Init => FenceInv
<1> SUFFICES ASSUME Init PROVE FenceInv
  OBVIOUS
<1>1. \A c \in Calls : call[c].pc = "idle" /\ call[c].body = {}
  BY DEF Init, Unborn
<1>2. PageTypeOK
  BY DEF Init, PageTypeOK, CallType, PassType, AtRest, Unborn, Place
<1>3. NumbersBounded
  BY <1>1 DEF Init, NumbersBounded, Bounded, AtRest
<1>4. CallersUp /\ LockIsHis
  BY <1>1 DEF CallersUp, LockIsHis, Inside, Holding
<1>5. PageKept
  BY <1>1 DEF Init, PageKept, ReadIsCurrent, NumberIsNew, NumberIsFree, RowIsWritten, RowIsStruck,
              RefusedOnlyExcused, CopiesInFence, FactsInFence, AtRest
<1> QED BY <1>2, <1>3, <1>4, <1>5 DEF FenceInv, PlaceInv

\* The lock file, the calls and the rows keep their types.
THEOREM PageTypeCorrect == Spec => []PageTypeOK
<1>1. FenceInv => PageTypeOK
  BY DEF FenceInv, PlaceInv
<1> QED BY <1>1, FenceInit, FenceStep, PTL DEF Spec

\* While no two processes took the page's lock at once and nobody worked past its
\* five minutes, the table and the page agree and no number is given twice.
THEOREM FactsAreKept == Spec => []FactsKept
<1>1. FenceInv => FactsKept
  BY DEF FenceInv, PageKept, RefusedOnlyExcused, FactsInFence, Rewritten, Excused, FactsKept
<1> QED BY <1>1, FenceInit, FenceStep, PTL DEF Spec

\* While no two processes took the page's lock at once and nobody worked past its
\* five minutes, one call at a time is between the lock and its release.
PageHasOneWriter ==
  Exclusive => \A c, d \in Calls : call[c].pc \in Holding /\ call[d].pc \in Holding => c = d

\* Pids that are used again, crashes at any step and stale files let no second
\* writer in.
THEOREM OneWriter == Spec => []PageHasOneWriter
<1>1. FenceInv => PageHasOneWriter
  BY DEF FenceInv, LockIsHis, Inside, PageHasOneWriter
<1> QED BY <1>1, FenceInit, FenceStep, PTL DEF Spec
=============================================================================
