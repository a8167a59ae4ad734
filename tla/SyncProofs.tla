----------------------------- MODULE SyncProofs -----------------------------
(* Theorems about Sync, for any files, contents that never import, pages   *)
(* that cannot be deleted, thresholds and bounds.                          *)
EXTENDS Sync, TLAPS

Trees == [Paths -> 0..MaxCommits]
Places == {"idle", "pin", "walk", "drain", "advance", "clearPaths", "clearTarget", "mark",
           "reconcile"}
RunTo(n) == [pc : Places, full : BOOLEAN, skip : BOOLEAN, last : 0..MaxCommits, pin : 0..n,
             deletes : SUBSET Paths, renames : SUBSET (Paths \X Paths),
             imports : SUBSET Paths, pending : SUBSET Paths, failed : SUBSET Paths,
             fixed : SUBSET Paths, chronic : SUBSET Paths, sentinel : BOOLEAN,
             threw : BOOLEAN, misses : 0..MaxMisses]

StoreTyped ==
  /\ pages \in Trees /\ bookmark \in 0..Len(trees)
  /\ target \in [0..MaxCommits -> 0..MaxCommits]
  /\ banked \in [0..MaxCommits -> SUBSET Paths]
  /\ walked \subseteq Paths /\ ledger \in [Paths -> Row]

RepoTyped ==
  /\ trees \in Seq(Trees) /\ Len(trees) \in Commits
  /\ moves \in Seq({NoMove} \cup (Paths \X Paths)) /\ Len(moves) = Len(trees)
  /\ branch \subseteq 1..Len(trees) /\ head \in branch

Counted == faults \in 0..MaxFaults /\ upsets \subseteq {"revert", "rewrite", "misread", "walked", "rename"}

(* A run that is under way has a pin, and banks only while it drains; a    *)
(* rename goes from one path to another.                                   *)
RunPlaced ==
  /\ run.pc # "idle" => run.pin \in 1..Len(trees)
  /\ run.pc # "drain" => run.pending = {}
  /\ run.pc \in {"pin", "clearPaths", "clearTarget"} => ~ run.full
  /\ run.pc \in {"walk", "reconcile"} => run.full
  /\ \A m \in run.renames : m[1] # m[2]

TypeInv == RepoTyped /\ StoreTyped /\ run \in RunTo(Len(trees)) /\ Counted /\ RunPlaced

(* The types as the proofs use them give the type invariant of the model.  *)
LEMMA TypeInvIsTypeOK == TypeInv => TypeOK
BY DEF TypeInv, TypeOK, RepoTyped, StoreTyped, Counted, RunTo, Trees, Places

(* The counters of faults and upsets.                                      *)
LEMMA CountedKept ==
  ASSUME Counted, Fault \/ NoFault,
         Calm \/ \E k \in {"revert", "rewrite", "misread", "walked", "rename"} : Upset(k)
  PROVE  Counted'
<1>1. faults' \in 0..MaxFaults
  BY SyncAssumption DEF Counted, Fault, NoFault
<1>2. upsets' \subseteq {"revert", "rewrite", "misread", "walked", "rename"}
  <2>1. CASE Calm
    BY <2>1 DEF Calm, Counted
  <2>2. ASSUME NEW k \in {"revert", "rewrite", "misread", "walked", "rename"}, Upset(k)
        PROVE  upsets' \subseteq {"revert", "rewrite", "misread", "walked", "rename"}
    BY <2>2 DEF Upset, Counted
  <2> QED  BY <2>1, <2>2
<1> QED  BY <1>1, <1>2 DEF Counted

(* A run without locals.                                                   *)
LEMMA IdleType ==
  /\ \A n \in Nat : Idle \in RunTo(n)
  /\ Idle.pc = "idle" /\ Idle.pending = {} /\ Idle.pin = 0 /\ Idle.renames = {} /\ Idle.deletes = {}
  /\ Idle.fixed = {} /\ Idle.failed = {} /\ Idle.chronic = {} /\ Idle.full = FALSE
BY SyncAssumption DEF Idle, RunTo, Places

(* A commit more.                                                          *)
LEMMA ExtendType ==
  ASSUME TypeInv, NEW tree \in Trees, NEW move \in {NoMove} \cup (Paths \X Paths), Extend(tree, move)
  PROVE  /\ RepoTyped' /\ StoreTyped' /\ run' \in RunTo(Len(trees')) /\ RunPlaced'
         /\ Len(trees') = Len(trees) + 1 /\ head' = Len(trees) + 1
         /\ branch' = branch \cup {Len(trees) + 1}
         /\ trees'[Len(trees) + 1] = tree /\ \A i \in 1..Len(trees) : trees'[i] = trees[i]
<1> USE DEF TypeInv
<1>1. /\ trees' = Append(trees, tree) /\ moves' = Append(moves, move)
      /\ branch' = branch \cup {Len(trees) + 1} /\ head' = Len(trees) + 1
      /\ Len(trees) + 1 <= MaxCommits /\ UNCHANGED <<store, run>>
  BY DEF Extend, Next_commit
<1>2. /\ trees' \in Seq(Trees) /\ Len(trees') = Len(trees) + 1
      /\ trees'[Len(trees) + 1] = tree /\ \A i \in 1..Len(trees) : trees'[i] = trees[i]
  BY <1>1 DEF RepoTyped
<1>3. moves' \in Seq({NoMove} \cup (Paths \X Paths)) /\ Len(moves') = Len(moves) + 1
  BY <1>1 DEF RepoTyped
<1>4. Len(trees) \in Nat /\ Len(trees) >= 1
  BY DEF RepoTyped, Commits
<1>5. RepoTyped'
  <2>1. Len(trees') \in Commits
    BY <1>1, <1>2, <1>4, SyncAssumption DEF Commits
  <2>2. branch' \subseteq 1..Len(trees') /\ head' \in branch'
    <3>1. ASSUME NEW b \in branch'  PROVE b \in 1..Len(trees')
      <4>1. b \in branch \/ b = Len(trees) + 1
        BY <1>1
      <4>2. b \in branch => b \in 1..Len(trees)
        BY DEF RepoTyped
      <4> QED  BY <1>2, <1>4, <4>1, <4>2
    <3> QED  BY <1>1, <3>1
  <2> QED  BY <1>2, <1>3, <2>1, <2>2 DEF RepoTyped
<1>6. StoreTyped'
  BY <1>1, <1>2, <1>4 DEF StoreTyped, store
<1>7. run' \in RunTo(Len(trees'))
  BY <1>1, <1>2, <1>4 DEF RunTo
<1>8. RunPlaced'
  BY <1>1, <1>2, <1>4 DEF RunPlaced
<1> QED  BY <1>1, <1>2, <1>5, <1>6, <1>7, <1>8

(* HEAD going back.                                                        *)
LEMMA RewriteType ==
  ASSUME TypeInv, Rewrite
  PROVE  TypeInv' /\ "rewrite" \in upsets'
<1> USE DEF TypeInv
<1>1. PICK c \in branch \ {head} : head' = c /\ branch' = {b \in branch : b <= c}
  BY DEF Rewrite
<1>2. UNCHANGED <<trees, moves, store, run>> /\ Fault /\ Upset("rewrite")
  BY DEF Rewrite
<1>3. c \in 1..Len(trees) /\ Len(trees) \in Nat
  BY DEF RepoTyped, Commits
<1>4. RepoTyped'
  <2>1. head' \in branch' /\ branch' \subseteq branch
    BY <1>1, <1>3
  <2> QED  BY <1>2, <2>1 DEF RepoTyped
<1>5. StoreTyped'
  BY <1>2 DEF StoreTyped, store
<1>6. Counted'
  BY <1>2, CountedKept
<1> QED  BY <1>2, <1>4, <1>5, <1>6 DEF RunPlaced, Upset

(* The tree of a commit, and the empty one before the first.               *)
LEMMA AtType ==
  ASSUME RepoTyped
  PROVE  /\ \A c \in 0..Len(trees) : At(c) \in Trees
         /\ Live \in Trees /\ head \in 1..Len(trees) /\ At(head) = Live
<1>1. Len(trees) \in Nat /\ \A c \in 1..Len(trees) : trees[c] \in Trees
  BY DEF RepoTyped, Commits
<1>2. [p \in Paths |-> 0] \in Trees
  BY SyncAssumption DEF Trees
<1>3. head \in 1..Len(trees)
  BY DEF RepoTyped
<1> QED  BY <1>1, <1>2, <1>3 DEF At, Live

(* What the diff of two commits gives is made of files.                    *)
LEMMA DiffType ==
  ASSUME NEW a, NEW b
  PROVE  /\ Deleted(a, b) \subseteq Gone(a, b) /\ Gone(a, b) \subseteq Paths
         /\ Renamed(a, b) \subseteq Gone(a, b) \X Added(a, b) /\ Added(a, b) \subseteq Paths
         /\ Imported(a, b) \subseteq Paths
         /\ From(Renamed(a, b)) \subseteq Gone(a, b) /\ To(Renamed(a, b)) \subseteq Paths
         /\ \A m \in Renamed(a, b) : m[1] # m[2]
BY DEF Deleted, Imported, Renamed, Gone, Added, Changed, From, To

(* The three ways a run begins, from its empty locals.                     *)
ToWalk(r, s, c)    == [r EXCEPT !.pc = "walk", !.full = TRUE, !.skip = s, !.pin = c]
ToAdvance(r, l, c) == [r EXCEPT !.pc = "advance", !.last = l, !.pin = c]
ToPin(r, s, l, c, d, m, i) ==
  [r EXCEPT !.pc = "pin", !.skip = s, !.last = l, !.pin = c,
            !.deletes = d, !.renames = m, !.imports = i]

(* What they keep of those locals.                                         *)
LEMMA WalkBegins ==
  ASSUME NEW n, NEW r \in RunTo(n), NEW c \in 0..n, NEW s \in BOOLEAN
  PROVE  LET x == ToWalk(r, s, c)
         IN /\ x \in RunTo(n) /\ x.pc = "walk" /\ x.full /\ x.pin = c /\ x.pending = r.pending
            /\ x.deletes = r.deletes /\ x.renames = r.renames /\ x.imports = r.imports
            /\ x.chronic = r.chronic /\ x.fixed = r.fixed /\ x.failed = r.failed
BY DEF RunTo, Places, ToWalk

(* The same of a run that has nothing to do.                               *)
LEMMA AdvanceBegins ==
  ASSUME NEW n, NEW r \in RunTo(n), NEW l \in 0..MaxCommits, NEW c \in 0..n
  PROVE  LET x == ToAdvance(r, l, c)
         IN /\ x \in RunTo(n) /\ x.pc = "advance" /\ x.last = l /\ x.pin = c
            /\ x.pending = r.pending /\ x.full = r.full /\ x.chronic = r.chronic
            /\ x.deletes = r.deletes /\ x.renames = r.renames /\ x.fixed = r.fixed
BY DEF RunTo, Places, ToAdvance

(* The same of a run with a diff to drain.                                 *)
LEMMA DrainBegins ==
  ASSUME NEW n, NEW r \in RunTo(n), NEW l \in 0..MaxCommits, NEW c \in 0..n, NEW s \in BOOLEAN,
         NEW d \in SUBSET Paths, NEW m \in SUBSET (Paths \X Paths), NEW i \in SUBSET Paths
  PROVE  LET x == ToPin(r, s, l, c, d, m, i)
         IN /\ x \in RunTo(n) /\ x.pc = "pin" /\ x.last = l /\ x.pin = c
            /\ x.deletes = d /\ x.renames = m /\ x.imports = i /\ x.pending = r.pending
            /\ x.full = r.full /\ x.failed = r.failed /\ x.fixed = r.fixed
            /\ x.chronic = r.chronic
BY DEF RunTo, Places, ToPin

(* The run that Resume begins.                                             *)
LEMMA ResumeType ==
  ASSUME TypeInv, NEW skip \in BOOLEAN, NEW pin \in 1..Len(trees), NEW done, bookmark # 0,
         Resume(skip, pin, done)
  PROVE  /\ run' \in RunTo(Len(trees)) /\ run'.pending = {} /\ ~ run'.full
         /\ run'.pc \in {"idle", "advance", "pin"} /\ \A m \in run'.renames : m[1] # m[2]
         /\ run'.pc # "idle" => run'.pin = pin /\ run'.last = bookmark
<1> USE DEF TypeInv
<1>1. bookmark \in 0..MaxCommits /\ Len(trees) \in Nat /\ pin \in 0..Len(trees)
  BY SyncAssumption DEF StoreTyped, RepoTyped, Commits
<1>2. Idle \in RunTo(Len(trees)) /\ Idle.pc = "idle" /\ Idle.pending = {} /\ Idle.full = FALSE
      /\ Idle.renames = {}
  BY <1>1, IdleType
<1>3. CASE run' = Idle
  BY <1>2, <1>3
<1>4. CASE run' = ToAdvance(Idle, bookmark, pin)
  BY <1>1, <1>2, <1>4, AdvanceBegins
<1>5. ASSUME NEW d \in SUBSET Paths, NEW m \in SUBSET (Paths \X Paths), NEW i \in SUBSET Paths,
             run' = ToPin(Idle, skip, bookmark, pin, d, m, i)
      PROVE  /\ run' \in RunTo(Len(trees)) /\ run'.pending = {} /\ ~ run'.full
             /\ run'.pc \in {"idle", "advance", "pin"}
             /\ run'.pin = pin /\ run'.last = bookmark /\ run'.renames = m
  BY <1>1, <1>2, <1>5, DrainBegins
<1>6. /\ Deleted(bookmark, pin) \ done \in SUBSET Paths
      /\ {m \in Renamed(bookmark, pin) : m[2] \notin done} \in SUBSET (Paths \X Paths)
      /\ Imported(bookmark, pin) \ done \in SUBSET Paths
      /\ \A m \in Renamed(bookmark, pin) : m[1] # m[2]
  BY DiffType
<1>7. \/ run' = Idle
      \/ run' = ToAdvance(Idle, bookmark, pin)
      \/ run' = ToPin(Idle, skip, bookmark, pin, Deleted(bookmark, pin) \ done,
                      {m \in Renamed(bookmark, pin) : m[2] \notin done},
                      Imported(bookmark, pin) \ done)
  BY DEF Resume, ToAdvance, ToPin
<1> QED  BY <1>3, <1>4, <1>5, <1>6, <1>7

(* Starting keeps the types.                                               *)
LEMMA StartType ==
  ASSUME TypeInv, NEW skip \in BOOLEAN, StartFull(skip) \/ StartIncremental(skip)
  PROVE  TypeInv' /\ UNCHANGED <<repo, pages, bookmark, walked, ledger>>
<1> USE DEF TypeInv
<1>1. /\ Len(trees) \in Nat /\ bookmark \in 0..MaxCommits
      /\ head \in 1..Len(trees) /\ head \in 0..Len(trees)
  BY SyncAssumption DEF StoreTyped, RepoTyped, Commits
<1>2. CASE StartFull(skip)
  <2>1. run' = ToWalk(Idle, skip, head) /\ UNCHANGED <<repo, store>> /\ Calm /\ NoFault
    BY <1>2 DEF StartFull, ToWalk
  <2>2. Idle \in RunTo(Len(trees)) /\ Idle.pending = {} /\ Idle.renames = {}
    BY <1>1, IdleType
  <2>3. run' \in RunTo(Len(trees)) /\ run'.pc = "walk" /\ run'.full /\ run'.pending = {}
        /\ run'.pin = head /\ run'.renames = {}
    BY <1>1, <2>1, <2>2, WalkBegins
  <2>4. Counted'
    BY <2>1, CountedKept
  <2> QED  BY <1>1, <2>1, <2>3, <2>4 DEF repo, store, RepoTyped, StoreTyped, RunPlaced
<1>3. CASE StartIncremental(skip)
  <2>1. /\ bookmark # 0 /\ UNCHANGED <<repo, pages, bookmark, walked, ledger>>
        /\ StartResumed(skip) \/ StartFresh(skip) \/ StartRepinned(skip)
    BY <1>3 DEF StartIncremental, StartResumed, StartFresh, StartRepinned
  <2>2. /\ target' \in [0..MaxCommits -> 0..MaxCommits]
        /\ banked' \in [0..MaxCommits -> SUBSET Paths]
    <3>1. UNCHANGED <<target, banked>>
          \/ /\ target' \in {target, [target EXCEPT ![bookmark] = 0]}
             /\ banked' \in {banked, [banked EXCEPT ![bookmark] = {}]}
      BY <2>1 DEF StartResumed, StartFresh, StartRepinned
    <3>2. /\ target \in [0..MaxCommits -> 0..MaxCommits]
          /\ banked \in [0..MaxCommits -> SUBSET Paths]
      BY DEF StoreTyped
    <3>3. 0 \in 0..MaxCommits
      BY SyncAssumption
    <3> QED  BY <1>1, <3>1, <3>2, <3>3
  <2>3. Counted'
    <3>1. Fault \/ NoFault
      BY <2>1 DEF StartResumed, StartFresh, StartRepinned
    <3>2. Calm \/ Upset("misread")
      BY <2>1 DEF StartResumed, StartFresh, StartRepinned
    <3> QED  BY <3>1, <3>2, CountedKept
  <2>4. \E pin \in 1..Len(trees), done \in SUBSET Paths : Resume(skip, pin, done)
    <3>1. target[bookmark] \in branch => target[bookmark] \in 1..Len(trees)
      BY DEF RepoTyped
    <3>2. banked[bookmark] \in SUBSET Paths
      BY <1>1 DEF StoreTyped
    <3> QED  BY <1>1, <2>1, <3>1, <3>2 DEF StartResumed, StartFresh, StartRepinned
  <2>5. /\ run' \in RunTo(Len(trees)) /\ run'.pending = {} /\ ~ run'.full
        /\ run'.pc \in {"idle", "advance", "pin"} /\ \A m \in run'.renames : m[1] # m[2]
        /\ (run'.pc # "idle" => run'.pin \in 1..Len(trees))
    BY <2>1, <2>4, ResumeType
  <2> QED  BY <2>1, <2>2, <2>3, <2>5 DEF repo, RepoTyped, StoreTyped, RunPlaced
<1> QED  BY <1>2, <1>3

(* A file whose content the step leaves indexed, or that is gone.          *)
NowIndexed(p) == Live[p] \in {0, pages'[p]}

(* What deletes, renames and imports have in common: they take work off    *)
(* the lists of a drain and mark it done only when the brain has it; the   *)
(* one exception, the failed import of a renamed file, is an upset.        *)
DrainMove ==
  /\ run.pc = "drain" /\ run'.pc = "drain"
  /\ UNCHANGED <<repo, bookmark, target, banked, walked, ledger>>
  /\ run'.full = run.full /\ run'.last = run.last /\ run'.pin = run.pin
  /\ run'.chronic = run.chronic
  /\ run'.deletes \subseteq run.deletes /\ run'.renames \subseteq run.renames
  /\ run.failed \subseteq run'.failed
  /\ upsets' = {} => \A p \in Paths : \/ pages'[p] = pages[p] \/ NowIndexed(p)
                                      \/ p \in run.deletes \cup From(run.renames)
  /\ \A p \in To(run.renames) \cup run.imports :
       p \in To(run'.renames) \cup run'.imports \cup run'.failed \/ NowIndexed(p)
  /\ \A p \in run'.fixed : p \in run.fixed \/ NowIndexed(p)
  /\ upsets' = {} => \A p \in run'.pending : p \in run.pending \cup run.deletes \/ NowIndexed(p)

(* The locals such a step may write.                                       *)
Upd(r, d, m, i, pe, fa, fi, se, th) ==
  [r EXCEPT !.deletes = d, !.renames = m, !.imports = i, !.pending = pe, !.failed = fa,
            !.fixed = fi, !.sentinel = se, !.threw = th]

(* Writing them keeps the type and every other local.                      *)
LEMMA UpdType ==
  ASSUME NEW n, NEW r \in RunTo(n), NEW d \in SUBSET Paths, NEW m \in SUBSET (Paths \X Paths),
         NEW i \in SUBSET Paths, NEW pe \in SUBSET Paths, NEW fa \in SUBSET Paths,
         NEW fi \in SUBSET Paths, NEW se \in BOOLEAN, NEW th \in BOOLEAN
  PROVE  LET x == Upd(r, d, m, i, pe, fa, fi, se, th)
         IN /\ x \in RunTo(n) /\ x.pc = r.pc /\ x.full = r.full /\ x.last = r.last
            /\ x.pin = r.pin /\ x.chronic = r.chronic
            /\ x.deletes = d /\ x.renames = m /\ x.imports = i /\ x.pending = pe
            /\ x.failed = fa /\ x.fixed = fi
BY DEF RunTo, Upd

(* The locals of a typed run.                                              *)
LEMMA RunFields ==
  ASSUME NEW n, NEW r \in RunTo(n)
  PROVE  /\ r.deletes \in SUBSET Paths /\ r.renames \in SUBSET (Paths \X Paths)
         /\ r.imports \in SUBSET Paths /\ r.pending \in SUBSET Paths
         /\ r.failed \in SUBSET Paths /\ r.fixed \in SUBSET Paths /\ r.chronic \in SUBSET Paths
         /\ r.sentinel \in BOOLEAN /\ r.threw \in BOOLEAN /\ r.full \in BOOLEAN
         /\ r.skip \in BOOLEAN /\ r.last \in 0..MaxCommits /\ r.pin \in 0..n /\ r.pc \in Places
BY DEF RunTo

(* A step of the drain that writes its locals and pages keeps the types.   *)
LEMMA DrainType ==
  ASSUME TypeInv, run.pc = "drain", UNCHANGED <<repo, bookmark, target, banked, walked, ledger>>,
         Counted', pages' \in Trees, run' \in RunTo(Len(trees)), run'.pc = "drain",
         run'.pin = run.pin, run'.renames \subseteq run.renames
  PROVE  TypeInv'
BY DEF TypeInv, repo, RepoTyped, StoreTyped, RunPlaced

(* A delete.                                                               *)
LEMMA DeleteMoves ==
  ASSUME TypeInv, NEW p \in Paths, DeletePage(p)
  PROVE  TypeInv' /\ DrainMove
<1>1. /\ run.pc = "drain" /\ p \in run.deletes
      /\ UNCHANGED <<repo, bookmark, target, banked, walked, ledger>> /\ Calm
  BY DEF DeletePage, Draining, Keep, repo
<1>2. Counted'
  BY CountedKept DEF DeletePage, TypeInv
<1>3. run \in RunTo(Len(trees)) /\ pages \in Trees
  BY DEF StoreTyped, TypeInv
<1>4. /\ run.deletes \in SUBSET Paths /\ run.renames \in SUBSET (Paths \X Paths)
      /\ run.imports \in SUBSET Paths /\ run.pending \in SUBSET Paths
      /\ run.failed \in SUBSET Paths /\ run.fixed \in SUBSET Paths
      /\ run.sentinel \in BOOLEAN /\ run.threw \in BOOLEAN
  BY <1>3, RunFields
<1>5. CASE /\ pages' = [pages EXCEPT ![p] = 0]
           /\ run' = [run EXCEPT !.deletes = @ \ {p}, !.pending = @ \cup {p}]
  <2>1. run' = Upd(run, run.deletes \ {p}, run.renames, run.imports, run.pending \cup {p},
                   run.failed, run.fixed, run.sentinel, run.threw)
    BY <1>3, <1>5 DEF RunTo, Upd
  <2>2. pages' \in Trees /\ \A q \in Paths : pages'[q] = pages[q] \/ q \in run.deletes
    BY <1>1, <1>3, <1>5, SyncAssumption DEF Trees
  <2>3. /\ run' \in RunTo(Len(trees)) /\ run'.pc = "drain" /\ run'.full = run.full
        /\ run'.last = run.last /\ run'.pin = run.pin /\ run'.chronic = run.chronic
        /\ run'.deletes = run.deletes \ {p} /\ run'.renames = run.renames
        /\ run'.imports = run.imports /\ run'.pending = run.pending \cup {p}
        /\ run'.failed = run.failed /\ run'.fixed = run.fixed
    BY <1>1, <1>3, <1>4, <2>1, UpdType
  <2> QED  BY <1>1, <1>2, <2>2, <2>3, DrainType DEF DrainMove
<1>6. CASE /\ UNCHANGED pages
           /\ run' = [run EXCEPT !.deletes = @ \ {p}, !.failed = @ \cup {p}]
  <2>1. run' = Upd(run, run.deletes \ {p}, run.renames, run.imports, run.pending,
                   run.failed \cup {p}, run.fixed, run.sentinel, run.threw)
    BY <1>3, <1>6 DEF RunTo, Upd
  <2>2. /\ run' \in RunTo(Len(trees)) /\ run'.pc = "drain" /\ run'.full = run.full
        /\ run'.last = run.last /\ run'.pin = run.pin /\ run'.chronic = run.chronic
        /\ run'.deletes = run.deletes \ {p} /\ run'.renames = run.renames
        /\ run'.imports = run.imports /\ run'.pending = run.pending
        /\ run'.failed = run.failed \cup {p} /\ run'.fixed = run.fixed
    BY <1>1, <1>3, <1>4, <2>1, UpdType
  <2> QED  BY <1>1, <1>2, <1>3, <1>6, <2>2, DrainType DEF DrainMove
<1> QED  BY <1>5, <1>6 DEF DeletePage

(* The pages a rename may leave: the old one moved or dropped, the new one  *)
(* imported.                                                               *)
Taken(f, t) == [Slide(f, t) EXCEPT ![t] = Live[t], ![f] = 0]
Brought(t)  == [pages EXCEPT ![t] = Live[t]]

(* What they hold.                                                         *)
LEMMA SlideType ==
  ASSUME RepoTyped, pages \in Trees, NEW f \in Paths, NEW t \in Paths, f # t
  PROVE  /\ Live[t] \in 0..MaxCommits
         /\ Slide(f, t) \in Trees
         /\ \A q \in Paths \ {f, t} : Slide(f, t)[q] = pages[q]
         /\ Taken(f, t) \in Trees
         /\ \A q \in Paths \ {f, t} : Taken(f, t)[q] = pages[q]
         /\ Taken(f, t)[t] = Live[t]
         /\ Brought(t) \in Trees
         /\ \A q \in Paths \ {t} : Brought(t)[q] = pages[q]
         /\ Brought(t)[t] = Live[t]
<1>1. Live \in Trees /\ 0 \in 0..MaxCommits
  BY AtType, SyncAssumption
<1>2. Slide(f, t) \in Trees /\ \A q \in Paths \ {f, t} : Slide(f, t)[q] = pages[q]
  BY <1>1 DEF Slide, Trees
<1>3. /\ Live[t] \in 0..MaxCommits
      /\ Brought(t) \in Trees
      /\ \A q \in Paths \ {t} : Brought(t)[q] = pages[q]
      /\ Brought(t)[t] = Live[t]
  BY <1>1 DEF Trees, Brought
<1>4. ASSUME NEW s \in Trees, \A q \in Paths \ {f, t} : s[q] = pages[q]
      PROVE  /\ [s EXCEPT ![t] = Live[t], ![f] = 0] \in Trees
             /\ \A q \in Paths \ {f, t} : [s EXCEPT ![t] = Live[t], ![f] = 0][q] = pages[q]
             /\ [s EXCEPT ![t] = Live[t], ![f] = 0][t] = Live[t]
  BY <1>1, <1>4 DEF Trees
<1> QED  BY <1>2, <1>3, <1>4 DEF Taken

(* A rename.                                                               *)
LEMMA RenameMoves ==
  ASSUME TypeInv, NEW f \in Paths, NEW t \in Paths, RenamePage(f, t)
  PROVE  TypeInv' /\ DrainMove
<1>1. /\ run.pc = "drain" /\ run.deletes = {} /\ <<f, t>> \in run.renames /\ f # t
      /\ UNCHANGED <<repo, bookmark, target, banked, walked, ledger>>
  <2>1. <<f, t>> \in run.renames
    BY DEF RenamePage
  <2>2. <<f, t>>[1] # <<f, t>>[2]
    BY <2>1 DEF TypeInv, RunPlaced
  <2> QED  BY <2>1, <2>2 DEF RenamePage, Draining, Keep, repo
<1>2. run \in RunTo(Len(trees)) /\ pages \in Trees /\ RepoTyped
  BY DEF StoreTyped, TypeInv
<1>3. /\ run.deletes \in SUBSET Paths /\ run.renames \in SUBSET (Paths \X Paths)
      /\ run.imports \in SUBSET Paths /\ run.pending \in SUBSET Paths
      /\ run.failed \in SUBSET Paths /\ run.fixed \in SUBSET Paths
      /\ run.sentinel \in BOOLEAN /\ run.threw \in BOOLEAN
  BY <1>2, RunFields
<1> DEFINE rest == run.renames \ {<<f, t>>}
           Kept(pe, fa, se) == Upd(run, run.deletes, rest, run.imports, pe, fa, run.fixed, se,
                                   run.threw)
<1>4. /\ rest \in SUBSET (Paths \X Paths) /\ run.pending \cup {t} \in SUBSET Paths
      /\ run.failed \cup {t} \in SUBSET Paths /\ TRUE \in BOOLEAN
  BY <1>3
<1>5. \A p \in To(run.renames) : p = t \/ p \in To(rest)
  BY <1>1 DEF To
<1>6. f \in From(run.renames)
  BY <1>1 DEF From
<1>7. Live' = Live /\ \A q : NowIndexed(q) <=> Live[q] \in {0, pages'[q]}
  BY <1>1 DEF Live, repo, NowIndexed
<1>8. ASSUME NEW pe \in SUBSET Paths, NEW fa \in SUBSET Paths, NEW se \in BOOLEAN,
             run' = Kept(pe, fa, se)
      PROVE  /\ run' \in RunTo(Len(trees)) /\ run'.pc = "drain" /\ run'.full = run.full
             /\ run'.last = run.last /\ run'.pin = run.pin /\ run'.chronic = run.chronic
             /\ run'.deletes = run.deletes /\ run'.renames = rest
             /\ run'.imports = run.imports /\ run'.pending = pe
             /\ run'.failed = fa /\ run'.fixed = run.fixed
  BY <1>1, <1>2, <1>3, <1>4, <1>8, UpdType
<1>9. /\ Slide(f, t) \in Trees
      /\ \A q \in Paths \ {f, t} : Slide(f, t)[q] = pages[q]
      /\ Taken(f, t) \in Trees
      /\ \A q \in Paths \ {f, t} : Taken(f, t)[q] = pages[q]
      /\ Taken(f, t)[t] = Live[t]
      /\ Brought(t) \in Trees
      /\ \A q \in Paths \ {t} : Brought(t)[q] = pages[q]
      /\ Brought(t)[t] = Live[t]
  BY <1>1, <1>2, SlideType
<1>10. CASE /\ pages' \in Trees /\ \A q \in Paths \ {f, t} : pages'[q] = pages[q]
            /\ NowIndexed(t) /\ Counted'
            /\ run' = Kept(run.pending \cup {t}, run.failed, run.sentinel)
  <2>1. /\ run' \in RunTo(Len(trees)) /\ run'.pc = "drain" /\ run'.full = run.full
        /\ run'.last = run.last /\ run'.pin = run.pin /\ run'.chronic = run.chronic
        /\ run'.deletes = run.deletes /\ run'.renames = rest
        /\ run'.imports = run.imports /\ run'.pending = run.pending \cup {t}
        /\ run'.failed = run.failed /\ run'.fixed = run.fixed
    BY <1>3, <1>4, <1>8, <1>10
  <2>2. TypeInv'
    BY <1>1, <1>10, <2>1, DrainType
  <2> HIDE DEF rest, Kept
  <2> QED  BY <1>1, <1>5, <1>6, <1>10, <2>1, <2>2 DEF DrainMove, rest
<1>11. CASE /\ pages' \in Trees /\ \A q \in Paths \ {t} : pages'[q] = pages[q]
            /\ NowIndexed(t) /\ Counted'
            /\ run' = Kept(run.pending, run.failed, TRUE)
  <2>1. /\ run' \in RunTo(Len(trees)) /\ run'.pc = "drain" /\ run'.full = run.full
        /\ run'.last = run.last /\ run'.pin = run.pin /\ run'.chronic = run.chronic
        /\ run'.deletes = run.deletes /\ run'.renames = rest
        /\ run'.imports = run.imports /\ run'.pending = run.pending
        /\ run'.failed = run.failed /\ run'.fixed = run.fixed
    BY <1>3, <1>4, <1>8, <1>11
  <2>2. TypeInv'
    BY <1>1, <1>11, <2>1, DrainType
  <2> HIDE DEF rest, Kept
  <2> QED  BY <1>1, <1>5, <1>6, <1>11, <2>1, <2>2 DEF DrainMove, rest
<1>12. CASE /\ pages' \in Trees /\ upsets' # {} /\ Counted'
            /\ run' = Kept(run.pending \cup {t}, run.failed \cup {t}, run.sentinel)
  <2>1. /\ run' \in RunTo(Len(trees)) /\ run'.pc = "drain" /\ run'.full = run.full
        /\ run'.last = run.last /\ run'.pin = run.pin /\ run'.chronic = run.chronic
        /\ run'.deletes = run.deletes /\ run'.renames = rest
        /\ run'.imports = run.imports /\ run'.pending = run.pending \cup {t}
        /\ run'.failed = run.failed \cup {t} /\ run'.fixed = run.fixed
    BY <1>3, <1>4, <1>8, <1>12
  <2>2. TypeInv'
    BY <1>1, <1>12, <2>1, DrainType
  <2> HIDE DEF rest, Kept
  <2> QED  BY <1>1, <1>5, <1>6, <1>12, <2>1, <2>2 DEF DrainMove, rest
<1>13. Counted'
  <2>1. (Fault \/ NoFault) /\ (Calm \/ Upset("rename"))
    BY DEF RenamePage
  <2> QED  BY <2>1, CountedKept DEF TypeInv
<1>14. \/ /\ Live[t] = 0 /\ pages' = Slide(f, t)
          /\ run' = Kept(run.pending \cup {t}, run.failed, run.sentinel)
       \/ /\ pages' = Taken(f, t)
          /\ run' = Kept(run.pending \cup {t}, run.failed, run.sentinel)
       \/ /\ pages' = Brought(t)
          /\ run' = Kept(run.pending, run.failed, TRUE)
       \/ /\ pages' = Slide(f, t) /\ Upset("rename")
          /\ run' = Kept(run.pending \cup {t}, run.failed \cup {t}, run.sentinel)
  <2>1. \/ /\ Live[t] = 0 /\ pages' = Slide(f, t)
           /\ run' = [run EXCEPT !.renames = @ \ {<<f, t>>}, !.pending = @ \cup {t}]
        \/ /\ pages' = Taken(f, t)
           /\ run' = [run EXCEPT !.renames = @ \ {<<f, t>>}, !.pending = @ \cup {t}]
        \/ /\ pages' = Brought(t)
           /\ run' = [run EXCEPT !.renames = @ \ {<<f, t>>}, !.sentinel = TRUE]
        \/ /\ pages' = Slide(f, t) /\ Upset("rename")
           /\ run' = [[run EXCEPT !.renames = @ \ {<<f, t>>}, !.pending = @ \cup {t}]
                        EXCEPT !.failed = @ \cup {t}]
    BY DEF RenamePage, Taken, Brought
  <2>2. /\ [run EXCEPT !.renames = @ \ {<<f, t>>}, !.pending = @ \cup {t}]
             = Kept(run.pending \cup {t}, run.failed, run.sentinel)
        /\ [run EXCEPT !.renames = @ \ {<<f, t>>}, !.sentinel = TRUE]
             = Kept(run.pending, run.failed, TRUE)
        /\ [[run EXCEPT !.renames = @ \ {<<f, t>>}, !.pending = @ \cup {t}]
               EXCEPT !.failed = @ \cup {t}]
             = Kept(run.pending \cup {t}, run.failed \cup {t}, run.sentinel)
    BY <1>2 DEF RunTo, Upd
  <2> HIDE DEF Kept
  <2> QED  BY <2>1, <2>2
<1> HIDE DEF rest, Kept
<1>15. CASE Live[t] = 0 /\ pages' = Slide(f, t)
            /\ run' = Kept(run.pending \cup {t}, run.failed, run.sentinel)
  BY <1>7, <1>9, <1>10, <1>13, <1>15
<1>16. CASE /\ pages' = Taken(f, t)
            /\ run' = Kept(run.pending \cup {t}, run.failed, run.sentinel)
  <2>1. pages'[t] = Live[t]
    BY <1>9, <1>16
  <2> QED  BY <1>7, <1>9, <1>10, <1>13, <1>16, <2>1
<1>17. CASE /\ pages' = Brought(t) /\ run' = Kept(run.pending, run.failed, TRUE)
  <2>1. pages'[t] = Live[t]
    BY <1>9, <1>17
  <2> QED  BY <1>7, <1>9, <1>11, <1>13, <1>17, <2>1
<1>18. CASE /\ pages' = Slide(f, t) /\ Upset("rename")
            /\ run' = Kept(run.pending \cup {t}, run.failed \cup {t}, run.sentinel)
  <2>1. upsets' # {}
    BY <1>18 DEF Upset
  <2> QED  BY <1>9, <1>12, <1>13, <1>18, <2>1
<1> QED  BY <1>14, <1>15, <1>16, <1>17, <1>18

(* An import.                                                              *)
LEMMA ImportMoves ==
  ASSUME TypeInv, NEW p \in Paths, ImportPage(p)
  PROVE  TypeInv' /\ DrainMove
<1>1. /\ run.pc = "drain" /\ p \in run.imports
      /\ UNCHANGED <<repo, bookmark, target, banked, walked, ledger>> /\ Calm
  BY DEF ImportPage, Draining, Keep, repo
<1>2. run \in RunTo(Len(trees)) /\ pages \in Trees /\ RepoTyped
  BY DEF StoreTyped, TypeInv
<1>3. /\ run.deletes \in SUBSET Paths /\ run.renames \in SUBSET (Paths \X Paths)
      /\ run.imports \in SUBSET Paths /\ run.pending \in SUBSET Paths
      /\ run.failed \in SUBSET Paths /\ run.fixed \in SUBSET Paths
      /\ run.sentinel \in BOOLEAN /\ run.threw \in BOOLEAN /\ run.full \in BOOLEAN
  BY <1>2, RunFields
<1> DEFINE rest == run.imports \ {p}
           Kept(pe, fa, fi, th) == Upd(run, run.deletes, run.renames, rest, pe, fa, fi,
                                       run.sentinel, th)
<1>4. /\ rest \in SUBSET Paths /\ run.pending \cup {p} \in SUBSET Paths
      /\ run.failed \cup {p} \in SUBSET Paths /\ run.fixed \cup {p} \in SUBSET Paths
      /\ TRUE \in BOOLEAN
  BY <1>3
<1>5. Live' = Live /\ \A q : NowIndexed(q) <=> Live[q] \in {0, pages'[q]}
  BY <1>1 DEF Live, repo, NowIndexed
<1>6. ASSUME NEW pe \in SUBSET Paths, NEW fa \in SUBSET Paths, NEW fi \in SUBSET Paths,
             NEW th \in BOOLEAN, run' = Kept(pe, fa, fi, th)
      PROVE  /\ run' \in RunTo(Len(trees)) /\ run'.pc = "drain" /\ run'.full = run.full
             /\ run'.last = run.last /\ run'.pin = run.pin /\ run'.chronic = run.chronic
             /\ run'.deletes = run.deletes /\ run'.renames = run.renames
             /\ run'.imports = rest /\ run'.pending = pe
             /\ run'.failed = fa /\ run'.fixed = fi
  BY <1>1, <1>2, <1>3, <1>4, <1>6, UpdType
<1>7. Counted'
  <2>1. Fault \/ NoFault
    BY DEF ImportPage
  <2> QED  BY <1>1, <2>1, CountedKept DEF TypeInv
<1>8. /\ Live \in Trees /\ Brought(p) \in Trees /\ Brought(p)[p] = Live[p]
      /\ \A q \in Paths \ {p} : Brought(p)[q] = pages[q]
  BY <1>2, AtType DEF Trees, Brought
<1>9. \/ /\ Live[p] = 0 /\ UNCHANGED pages
         /\ \/ \E th \in BOOLEAN : run' = Kept(run.pending, run.failed \cup {p}, run.fixed, th)
            \/ run' = Kept(run.pending \cup {p}, run.failed, run.fixed \cup {p}, run.threw)
      \/ /\ pages' = Brought(p)
         /\ \/ run' = Kept(run.pending \cup {p}, run.failed, run.fixed, run.threw)
            \/ run' = Kept(run.pending \cup {p}, run.failed, run.fixed \cup {p}, run.threw)
      \/ /\ UNCHANGED pages
         /\ \E th \in BOOLEAN : run' = Kept(run.pending, run.failed \cup {p}, run.fixed, th)
  <2> DEFINE Rest == [run EXCEPT !.imports = @ \ {p}]
             Done == [Rest EXCEPT !.pending = @ \cup {p}]
  <2>1. \/ /\ Live[p] = 0 /\ UNCHANGED pages
           /\ run' \in {[Rest EXCEPT !.failed = @ \cup {p}, !.threw = TRUE],
                        [Done EXCEPT !.fixed = @ \cup {p}]}
        \/ /\ pages' = Brought(p)
           /\ run' \in {Done, [Done EXCEPT !.fixed = @ \cup {p}]}
        \/ /\ UNCHANGED pages
           /\ \E threw \in {run.threw, run.full} :
                run' = [Rest EXCEPT !.failed = @ \cup {p}, !.threw = threw]
    BY DEF ImportPage, Brought
  <2>2. /\ Done = Kept(run.pending \cup {p}, run.failed, run.fixed, run.threw)
        /\ [Done EXCEPT !.fixed = @ \cup {p}]
             = Kept(run.pending \cup {p}, run.failed, run.fixed \cup {p}, run.threw)
        /\ \A th \in BOOLEAN : [Rest EXCEPT !.failed = @ \cup {p}, !.threw = th]
             = Kept(run.pending, run.failed \cup {p}, run.fixed, th)
    BY <1>2 DEF RunTo, Upd
  <2> HIDE DEF Kept, Rest, Done
  <2> QED  BY <1>3, <2>1, <2>2
<1> HIDE DEF Kept
<1>10. ASSUME NEW th \in BOOLEAN, pages' = pages,
              run' = Kept(run.pending, run.failed \cup {p}, run.fixed, th)
       PROVE  TypeInv' /\ DrainMove
  <2>1. /\ run' \in RunTo(Len(trees)) /\ run'.pc = "drain" /\ run'.full = run.full
        /\ run'.last = run.last /\ run'.pin = run.pin /\ run'.chronic = run.chronic
        /\ run'.deletes = run.deletes /\ run'.renames = run.renames
        /\ run'.imports = rest /\ run'.pending = run.pending
        /\ run'.failed = run.failed \cup {p} /\ run'.fixed = run.fixed
    BY ZenonT(60), <1>3, <1>4, <1>6, <1>10
  <2>2. TypeInv'
    BY <1>1, <1>2, <1>7, <1>10, <2>1, DrainType
  <2> QED  BY <1>1, <1>10, <2>1, <2>2 DEF DrainMove
<1>11. ASSUME NEW fi \in {run.fixed, run.fixed \cup {p}},
              pages' = Brought(p) \/ (pages' = pages /\ Live[p] = 0),
              run' = Kept(run.pending \cup {p}, run.failed, fi, run.threw)
       PROVE  TypeInv' /\ DrainMove
  <2>1. fi \in SUBSET Paths
    BY <1>3, <1>4
  <2>2. /\ run' \in RunTo(Len(trees)) /\ run'.pc = "drain" /\ run'.full = run.full
        /\ run'.last = run.last /\ run'.pin = run.pin /\ run'.chronic = run.chronic
        /\ run'.deletes = run.deletes /\ run'.renames = run.renames
        /\ run'.imports = rest /\ run'.pending = run.pending \cup {p}
        /\ run'.failed = run.failed /\ run'.fixed = fi
    BY <1>3, <1>4, <1>6, <1>11, <2>1
  <2>3. pages' \in Trees /\ NowIndexed(p) /\ \A q \in Paths : pages'[q] = pages[q] \/ q = p
    <3>1. CASE pages' = Brought(p)
      <4>1. pages' \in Trees /\ pages'[p] = Live[p] /\ \A q \in Paths \ {p} : pages'[q] = pages[q]
        BY <1>8, <3>1
      <4>2. NowIndexed(p)
        BY <1>5, <4>1
      <4> QED  BY <4>1, <4>2
    <3>2. CASE pages' = pages /\ Live[p] = 0
      BY <1>2, <1>5, <3>2
    <3> QED  BY <1>11, <3>1, <3>2
  <2>4. TypeInv'
    BY <1>1, <1>7, <2>2, <2>3, DrainType
  <2> QED  BY <1>1, <2>2, <2>3, <2>4 DEF DrainMove
<1>12. CASE /\ pages' = pages
            /\ \E th \in BOOLEAN : run' = Kept(run.pending, run.failed \cup {p}, run.fixed, th)
  BY <1>10, <1>12
<1>13. CASE /\ pages' = Brought(p) \/ (pages' = pages /\ Live[p] = 0)
            /\ run' = Kept(run.pending \cup {p}, run.failed, run.fixed, run.threw)
  <2>1. run.fixed \in {run.fixed, run.fixed \cup {p}}
    OBVIOUS
  <2> QED  BY <1>11, <1>13, <2>1
<1>14. CASE /\ pages' = Brought(p) \/ (pages' = pages /\ Live[p] = 0)
            /\ run' = Kept(run.pending \cup {p}, run.failed, run.fixed \cup {p}, run.threw)
  <2>1. run.fixed \cup {p} \in {run.fixed, run.fixed \cup {p}}
    OBVIOUS
  <2> QED  BY <1>11, <1>14, <2>1
<1> HIDE DEF rest
<1> QED  BY <1>9, <1>12, <1>13, <1>14

(* The other locals a step writes.                                         *)
Set(r, pc, im, pe, ch, mi) ==
  [r EXCEPT !.pc = pc, !.imports = im, !.pending = pe, !.chronic = ch, !.misses = mi]

(* Writing them keeps the type and every other local.                      *)
LEMMA SetType ==
  ASSUME NEW n, NEW r \in RunTo(n), NEW pc \in Places, NEW im \in SUBSET Paths,
         NEW pe \in SUBSET Paths, NEW ch \in SUBSET Paths, NEW mi \in 0..MaxMisses
  PROVE  LET x == Set(r, pc, im, pe, ch, mi)
         IN /\ x \in RunTo(n) /\ x.pc = pc /\ x.full = r.full /\ x.last = r.last
            /\ x.pin = r.pin /\ x.chronic = ch /\ x.deletes = r.deletes
            /\ x.renames = r.renames /\ x.imports = im /\ x.pending = pe
            /\ x.failed = r.failed /\ x.fixed = r.fixed /\ x.skip = r.skip
BY DEF RunTo, Set

(* A run as the step leaves it, but for where it is and what it banked.    *)
SameRun ==
  /\ run'.full = run.full /\ run'.last = run.last /\ run'.pin = run.pin
  /\ run'.deletes = run.deletes /\ run'.renames = run.renames
  /\ run'.failed = run.failed /\ run'.fixed = run.fixed /\ run'.skip = run.skip

(* A step that only moves a run on keeps the types of the run.             *)
LEMMA RunMoves ==
  ASSUME TypeInv, UNCHANGED repo, NEW pc \in Places, NEW im \in SUBSET Paths,
         NEW pe \in SUBSET Paths, NEW ch \in SUBSET Paths, NEW mi \in 0..MaxMisses,
         run' = Set(run, pc, im, pe, ch, mi), run.pc # "idle", pc # "drain" => pe = {},
         pc \in {"pin", "clearPaths", "clearTarget"} => ~ run.full,
         pc \in {"walk", "reconcile"} => run.full
  PROVE  /\ RepoTyped' /\ run' \in RunTo(Len(trees')) /\ RunPlaced' /\ SameRun
         /\ run'.pc = pc /\ run'.imports = im /\ run'.pending = pe /\ run'.chronic = ch
         /\ run.pin \in 1..Len(trees) /\ run.pin \in 0..Len(trees)
<1>1. run \in RunTo(Len(trees)) /\ RepoTyped /\ RunPlaced
  BY DEF TypeInv
<1>2. /\ run' \in RunTo(Len(trees)) /\ SameRun
      /\ run'.pc = pc /\ run'.imports = im /\ run'.pending = pe /\ run'.chronic = ch
  BY <1>1, SetType DEF SameRun
<1> QED  BY <1>1, <1>2 DEF repo, RepoTyped, RunPlaced, SameRun

(* A run that ends.                                                        *)
LEMMA RunEnds ==
  ASSUME TypeInv, UNCHANGED repo, run' = Idle
  PROVE  RepoTyped' /\ run' \in RunTo(Len(trees')) /\ RunPlaced' /\ run'.pc = "idle"
<1>1. RepoTyped /\ Len(trees) \in Nat
  BY DEF TypeInv, RepoTyped, Commits
<1> QED  BY <1>1, IdleType DEF repo, RepoTyped, RunPlaced

(* The misses a flush leaves.                                              *)
LEMMA MissesType ==
  ASSUME TypeInv
  PROVE  /\ run.misses \in 0..MaxMisses /\ run.misses \in Nat
         /\ (IF run.misses < MaxMisses THEN 0 ELSE run.misses) \in 0..MaxMisses
         /\ (IF run.misses < MaxMisses THEN run.misses + 1 ELSE run.misses) \in 0..MaxMisses
BY SyncAssumption DEF TypeInv, RunTo

(* Banking paths: of a full import in import-checkpoint.json, else under   *)
(* the last commit.                                                        *)
LEMMA SavedType ==
  ASSUME TypeInv, NEW paths \in SUBSET Paths, Saved(paths)
  PROVE  /\ banked' \in [0..MaxCommits -> SUBSET Paths] /\ walked' \subseteq Paths
         /\ run.full => banked' = banked
         /\ ~ run.full => /\ banked'[run.last] = banked[run.last] \cup paths
                          /\ \A c \in 0..MaxCommits \ {run.last} : banked'[c] = banked[c]
<1>1. /\ run.last \in 0..MaxCommits /\ banked \in [0..MaxCommits -> SUBSET Paths]
      /\ walked \subseteq Paths
  BY DEF TypeInv, RunTo, StoreTyped
<1>2. CASE run.full
  BY <1>1, <1>2 DEF Saved
<1>3. CASE ~ run.full
  BY <1>1, <1>3 DEF Saved
<1> QED  BY <1>2, <1>3

(* The rows after a gate: a failing path has an open row of the commit it  *)
(* failed at, a fixed one has none, any other keeps its own.               *)
LEMMA RecordedType ==
  ASSUME TypeInv, NEW fixed, NEW commit \in Commits
  PROVE  LET rows == Recorded(fixed, run.failed, commit)
         IN /\ rows \in [Paths -> Row]
            /\ \A p \in Paths :
                 /\ p \in run.failed => /\ rows[p].commit = commit /\ rows[p].state = "open"
                                        /\ rows[p] # NoRow
                 /\ p \notin run.failed => rows[p] = IF p \in fixed THEN NoRow ELSE ledger[p]
<1> DEFINE rows == Recorded(fixed, run.failed, commit)
<1>1. ledger \in [Paths -> Row] /\ run.failed \in SUBSET Paths
  BY RunFields DEF TypeInv, StoreTyped
<1>2. ASSUME NEW p \in Paths
      PROVE  /\ rows[p] \in Row
             /\ p \in run.failed => /\ rows[p].commit = commit /\ rows[p].state = "open"
                                    /\ rows[p] # NoRow
             /\ p \notin run.failed => rows[p] = IF p \in fixed THEN NoRow ELSE ledger[p]
  <2> DEFINE row == IF p \in fixed THEN NoRow ELSE ledger[p]
             tries == IF row.state # "open" THEN 1
                      ELSE IF row.attempts < Threshold THEN row.attempts + 1 ELSE Threshold
             next == [state |-> "open", commit |-> commit, attempts |-> tries]
  <2>1. rows[p] = IF p \notin run.failed THEN row ELSE next
    BY DEF Recorded
  <2>2. row \in Row
    BY <1>1 DEF Row
  <2>3. tries \in 1..Threshold
    <3>1. CASE row.state # "open"
      BY <3>1, SyncAssumption
    <3>2. CASE row.state = "open"
      <4>1. row.attempts \in 1..Threshold
        BY <2>2, <3>2 DEF Row, NoRow
      <4> QED  BY <3>2, <4>1, SyncAssumption
    <3> QED  BY <3>1, <3>2
  <2> HIDE DEF tries
  <2>4. next \in Row /\ next.commit = commit /\ next.state = "open" /\ next # NoRow
    BY <2>3 DEF Row, NoRow
  <2> HIDE DEF next, row, rows
  <2>5. rows[p] \in Row
    BY <2>1, <2>2, <2>4
  <2>6. p \in run.failed => rows[p] = next
    BY <2>1
  <2>7. p \notin run.failed => rows[p] = row
    BY <2>1
  <2> QED  BY <2>4, <2>5, <2>6, <2>7 DEF row
<1>3. rows = [p \in Paths |-> rows[p]]
  BY DEF Recorded
<1> HIDE DEF rows
<1>4. rows \in [Paths -> Row]
  BY <1>2, <1>3
<1> QED  BY <1>2, <1>4 DEF rows

(* What the steps outside the drain use of the types.                      *)
LEMMA RunHere ==
  ASSUME TypeInv
  PROVE  /\ run \in RunTo(Len(trees)) /\ run.imports \in SUBSET Paths
         /\ run.pending \in SUBSET Paths /\ run.chronic \in SUBSET Paths /\ {} \in SUBSET Paths
         /\ run.failed \in SUBSET Paths /\ run.misses \in 0..MaxMisses
         /\ run.last \in 0..MaxCommits /\ run.full \in BOOLEAN
         /\ RepoTyped /\ StoreTyped /\ RunPlaced /\ Len(trees) \in Nat
         /\ 0 \in 0..MaxCommits /\ 1..Len(trees) \subseteq 0..MaxCommits
         /\ 1..Len(trees) \subseteq Commits
BY RunFields, MissesType, SyncAssumption DEF TypeInv, RepoTyped, Commits

(* Storing the pin.                                                        *)
LEMMA PinMoves ==
  ASSUME TypeInv, PersistPin
  PROVE  /\ TypeInv' /\ SameRun /\ ~ run.full /\ run.pc = "pin" /\ run'.pc = "drain"
         /\ run'.imports = run.imports /\ run'.pending = {} /\ run'.chronic = run.chronic
         /\ target' = [target EXCEPT ![run.last] = run.pin]
         /\ UNCHANGED <<repo, pages, bookmark, banked, walked, ledger, upsets>>
<1>1. /\ run.pc = "pin" /\ run' = [run EXCEPT !.pc = "drain"]
      /\ target' = [target EXCEPT ![run.last] = run.pin] /\ Calm /\ NoFault
      /\ UNCHANGED <<repo, pages, bookmark, banked, walked, ledger>>
  BY DEF PersistPin, repo
<1>2. run' = Set(run, "drain", run.imports, run.pending, run.chronic, run.misses)
  BY <1>1, RunHere DEF RunTo, Set
<1>3. /\ RepoTyped' /\ run' \in RunTo(Len(trees')) /\ RunPlaced' /\ SameRun /\ run'.pc = "drain"
      /\ run'.imports = run.imports /\ run'.pending = run.pending /\ run'.chronic = run.chronic
      /\ run.pin \in 1..Len(trees)
  BY <1>1, <1>2, RunHere, RunMoves DEF Places
<1>4. run.pending = {} /\ ~ run.full
  BY <1>1, RunHere DEF RunPlaced
<1>5. StoreTyped'
  <2>1. target' \in [0..MaxCommits -> 0..MaxCommits]
    BY <1>1, <1>3, RunHere DEF StoreTyped
  <2> QED  BY <1>1, <2>1, RunHere DEF StoreTyped, repo
<1>6. Counted'
  BY <1>1, CountedKept DEF TypeInv
<1> QED  BY <1>1, <1>3, <1>4, <1>5, <1>6 DEF TypeInv, Calm

(* The files a full import lists.                                          *)
Listed == {p \in Paths : Live[p] # 0} \ walked

(* Listing the files of a full import.                                     *)
LEMMA WalkMoves ==
  ASSUME TypeInv, Walk
  PROVE  /\ TypeInv' /\ SameRun /\ run.full /\ run.pc = "walk" /\ run'.pc = "drain"
         /\ run'.imports = Listed /\ run'.pending = {}
         /\ run'.chronic = run.chronic /\ UNCHANGED <<repo, store>>
         /\ upsets' = {} => upsets = {} /\ Skipped = {}
         /\ upsets \subseteq upsets'
<1>1. /\ run.pc = "walk" /\ NoFault /\ UNCHANGED <<repo, store>>
      /\ run' = [run EXCEPT !.pc = "drain", !.imports = Listed]
      /\ (Calm /\ Skipped = {}) \/ Upset("walked")
  BY DEF Walk, Listed
<1>2. run' = Set(run, "drain", Listed, run.pending, run.chronic,
                 run.misses)
  BY <1>1, RunHere DEF RunTo, Set, Listed
<1>3. Listed \in SUBSET Paths
  BY DEF Listed
<1>4. /\ RepoTyped' /\ run' \in RunTo(Len(trees')) /\ RunPlaced' /\ SameRun /\ run'.pc = "drain"
      /\ run'.imports = Listed /\ run'.pending = run.pending
      /\ run'.chronic = run.chronic
  BY <1>1, <1>2, <1>3, RunHere, RunMoves DEF Places
<1>5. run.pending = {} /\ run.full
  BY <1>1, RunHere DEF RunPlaced
<1>6. StoreTyped'
  BY <1>1, RunHere DEF StoreTyped, repo, store
<1>7. Counted'
  BY <1>1, CountedKept DEF TypeInv
<1>8. (upsets' = {} => upsets = {} /\ Skipped = {}) /\ upsets \subseteq upsets'
  BY <1>1 DEF Calm, Upset
<1> QED  BY <1>1, <1>4, <1>5, <1>6, <1>7, <1>8 DEF TypeInv

(* Banking the paths done so far.                                          *)
LEMMA FlushMoves ==
  ASSUME TypeInv, Flush
  PROVE  /\ TypeInv' /\ SameRun /\ run.pc = "drain" /\ run'.pc = "drain"
         /\ run'.imports = run.imports /\ run'.chronic = run.chronic
         /\ UNCHANGED <<repo, pages, bookmark, target, ledger, upsets>>
         /\ \/ run'.pending = {} /\ Saved(run.pending)
            \/ run'.pending = run.pending /\ UNCHANGED <<banked, walked>>
<1>1. /\ run.pc = "drain" /\ Calm /\ UNCHANGED <<repo, pages, bookmark, target, ledger>>
      /\ \/ /\ Saved(run.pending) /\ NoFault
            /\ run' = [run EXCEPT !.pending = {},
                                  !.misses = IF @ < MaxMisses THEN 0 ELSE @]
         \/ /\ UNCHANGED <<banked, walked>> /\ Fault
            /\ run' = [run EXCEPT !.misses = IF @ < MaxMisses THEN @ + 1 ELSE @]
  BY DEF Flush, Draining, repo
<1>2. \/ /\ Saved(run.pending) /\ NoFault
         /\ run' = Set(run, "drain", run.imports, {}, run.chronic,
                       IF run.misses < MaxMisses THEN 0 ELSE run.misses)
      \/ /\ UNCHANGED <<banked, walked>> /\ Fault
         /\ run' = Set(run, "drain", run.imports, run.pending, run.chronic,
                       IF run.misses < MaxMisses THEN run.misses + 1 ELSE run.misses)
  BY <1>1, RunHere DEF RunTo, Set
<1>3. /\ RepoTyped' /\ run' \in RunTo(Len(trees')) /\ RunPlaced' /\ SameRun /\ run'.pc = "drain"
      /\ run'.imports = run.imports /\ run'.chronic = run.chronic
      /\ \/ run'.pending = {} /\ Saved(run.pending)
         \/ run'.pending = run.pending /\ UNCHANGED <<banked, walked>>
  <2>1. CASE Saved(run.pending) /\ run' = Set(run, "drain", run.imports, {}, run.chronic,
                                              IF run.misses < MaxMisses THEN 0 ELSE run.misses)
    BY <1>1, <2>1, RunHere, MissesType, RunMoves DEF Places
  <2>2. CASE /\ UNCHANGED <<banked, walked>>
             /\ run' = Set(run, "drain", run.imports, run.pending, run.chronic,
                           IF run.misses < MaxMisses THEN run.misses + 1 ELSE run.misses)
    BY <1>1, <2>2, RunHere, MissesType, RunMoves DEF Places
  <2> QED  BY <1>2, <2>1, <2>2
<1>4. StoreTyped'
  <2>1. banked' \in [0..MaxCommits -> SUBSET Paths] /\ walked' \subseteq Paths
    BY <1>3, RunHere, SavedType DEF StoreTyped
  <2> QED  BY <1>1, <2>1, RunHere DEF StoreTyped, repo
<1>5. Counted'
  BY <1>1, CountedKept DEF TypeInv
<1> QED  BY <1>1, <1>3, <1>4, <1>5 DEF TypeInv, Calm

(* A run cut short.                                                        *)
LEMMA StopMoves ==
  ASSUME TypeInv, Stop
  PROVE  /\ TypeInv' /\ run' = Idle /\ run'.pc = "idle" /\ run.pc # "idle"
         /\ UNCHANGED <<repo, pages, bookmark, target, ledger, upsets>>
         /\ \E paths \in SUBSET run.pending : Saved(paths) \/ UNCHANGED banked
<1>1. /\ run.pc # "idle" /\ run' = Idle /\ Calm
      /\ UNCHANGED <<repo, pages, bookmark, target, ledger>>
      /\ Fault \/ NoFault
      /\ \/ \E paths \in {{}, run.pending} : Saved(paths)
         \/ walked' \in {walked, {}} /\ UNCHANGED banked
  BY DEF Stop, repo
<1>2. /\ RepoTyped' /\ run' \in RunTo(Len(trees')) /\ RunPlaced' /\ run'.pc = "idle"
  BY <1>1, RunEnds
<1>3. StoreTyped'
  <2>1. banked' \in [0..MaxCommits -> SUBSET Paths] /\ walked' \subseteq Paths
    <3>1. \/ walked' \in {walked, {}} /\ UNCHANGED banked
          \/ \E paths \in SUBSET Paths : Saved(paths)
      BY <1>1, RunHere
    <3> QED  BY <3>1, RunHere, SavedType DEF StoreTyped
  <2> QED  BY <1>1, <2>1, RunHere DEF StoreTyped, repo
<1>4. Counted'
  BY <1>1, CountedKept DEF TypeInv
<1> QED  BY <1>1, <1>2, <1>3, <1>4 DEF TypeInv, Calm

(* The gate: rows recorded, then the end of the run or the advance.        *)
LEMMA GateMoves ==
  ASSUME TypeInv, Gate
  PROVE  /\ TypeInv' /\ run.pc = "drain" /\ run.deletes = {} /\ run.renames = {}
         /\ run.imports = {} /\ run.pin \in Commits
         /\ UNCHANGED <<repo, pages, bookmark, target, upsets>>
         /\ ledger' = Recorded(Resolved, run.failed, run.pin)
         /\ run.full => banked' = banked
         /\ ~ run.full => \E paths \in SUBSET run.pending : Saved(paths)
         /\ \/ run'.pc = "idle" /\ run' = Idle
            \/ /\ run'.pc = "advance" /\ SameRun /\ run'.imports = {} /\ run'.pending = {}
               /\ run'.chronic \subseteq run.failed
<1>1. /\ run.pc = "drain" /\ run.deletes = {} /\ run.renames = {} /\ run.imports = {}
      /\ UNCHANGED <<repo, pages, bookmark, target>> /\ Calm
      /\ Fault \/ NoFault
      /\ ledger' = Recorded(Resolved, run.failed, run.pin)
      /\ \/ ~ run.full /\ \E paths \in {{}, run.pending} : Saved(paths)
         \/ run.full /\ banked' = banked /\ walked' \in {walked \cup run.pending, {}}
      /\ \E lost \in BOOLEAN : Decide(ledger', lost)
  <2>1. CASE GateIncremental
    <3>1. \E lost \in BOOLEAN : Decide(ledger', lost)
      <4>1. run.sentinel \in BOOLEAN
        BY RunHere, RunFields
      <4>2. (run.sentinel \/ run.pin \notin branch) \in BOOLEAN
        OBVIOUS
      <4> QED  BY <2>1, <4>2 DEF GateIncremental
    <3>2. /\ ~ run.full /\ \E paths \in {{}, run.pending} : Saved(paths)
          /\ Fault \/ NoFault
          /\ ledger' = Recorded(Resolved, run.failed, run.pin)
      BY <2>1 DEF GateIncremental
    <3> QED  BY <3>1, <3>2 DEF Gate, Draining, repo
  <2>2. CASE GateFull
    <3>1. /\ run.full /\ banked' = banked /\ walked' \in {walked \cup run.pending, {}}
          /\ NoFault /\ ledger' = Recorded(Resolved, run.failed, run.pin)
          /\ Decide(ledger', FALSE)
      BY <2>2 DEF GateFull
    <3>2. \E lost \in BOOLEAN : Decide(ledger', lost)
      BY <3>1
    <3> QED  BY <3>1, <3>2 DEF Gate, Draining, repo
  <2> QED  BY <2>1, <2>2 DEF Gate
<1>2. run.pin \in 1..Len(trees) /\ run.pin \in Commits
  BY <1>1, RunHere DEF RunPlaced
<1>3. ledger' \in [Paths -> Row]
  BY <1>1, <1>2, RecordedType
<1>4. banked' \in [0..MaxCommits -> SUBSET Paths] /\ walked' \subseteq Paths
  <2>1. CASE ~ run.full /\ \E paths \in {{}, run.pending} : Saved(paths)
    <3>1. \E paths \in SUBSET Paths : Saved(paths)
      BY <2>1, RunHere
    <3> QED  BY <3>1, SavedType
  <2>2. CASE run.full /\ banked' = banked /\ walked' \in {walked \cup run.pending, {}}
    BY <2>2, RunHere DEF StoreTyped
  <2> QED  BY <1>1, <2>1, <2>2
<1>5. StoreTyped'
  BY <1>1, <1>3, <1>4, RunHere DEF StoreTyped, repo
<1>6. Counted'
  BY <1>1, CountedKept DEF TypeInv
<1>7. PICK lost \in BOOLEAN : Decide(ledger', lost)
  BY <1>1
<1>8. \/ run' = Idle
      \/ \E ch \in SUBSET run.failed :
           run' = [run EXCEPT !.pc = "advance", !.pending = {}, !.chronic = ch]
  <2>1. Chronic(ledger') \in SUBSET run.failed /\ {} \in SUBSET run.failed
    BY DEF Chronic
  <2>2. \/ run' = Idle
        \/ run' = [run EXCEPT !.pc = "advance", !.pending = {}, !.chronic = {}]
        \/ run' = [run EXCEPT !.pc = "advance", !.pending = {}, !.chronic = Chronic(ledger')]
    BY <1>7 DEF Decide
  <2> QED  BY <2>1, <2>2
<1>9. /\ RepoTyped' /\ run' \in RunTo(Len(trees')) /\ RunPlaced'
      /\ \/ run'.pc = "idle" /\ run' = Idle
         \/ /\ run'.pc = "advance" /\ SameRun /\ run'.imports = {} /\ run'.pending = {}
            /\ run'.chronic \subseteq run.failed
  <2>1. CASE run' = Idle
    BY <1>1, <2>1, RunEnds
  <2>2. ASSUME NEW ch \in SUBSET run.failed,
               run' = [run EXCEPT !.pc = "advance", !.pending = {}, !.chronic = ch]
        PROVE  /\ RepoTyped' /\ run' \in RunTo(Len(trees')) /\ RunPlaced'
               /\ run'.pc = "advance" /\ SameRun /\ run'.imports = {} /\ run'.pending = {}
               /\ run'.chronic \subseteq run.failed
    <3>1. run' = Set(run, "advance", run.imports, {}, ch, run.misses)
      BY <2>2, RunHere DEF RunTo, Set
    <3>2. ch \in SUBSET Paths /\ "advance" \in Places
      BY RunHere DEF Places
    <3> QED  BY <1>1, <3>1, <3>2, RunHere, RunMoves
  <2> QED  BY <1>8, <2>1, <2>2
<1>10. ~ run.full => \E paths \in SUBSET run.pending : Saved(paths)
  BY <1>1
<1> QED  BY <1>1, <1>2, <1>5, <1>6, <1>9, <1>10 DEF TypeInv, Calm

(* Moving the bookmark.                                                    *)
LEMMA BookmarkMoves ==
  ASSUME TypeInv, MoveBookmark
  PROVE  /\ TypeInv' /\ SameRun /\ run.pc = "advance" /\ run'.pending = {}
         /\ run'.pc = IF run.full THEN "mark" ELSE "clearPaths"
         /\ bookmark' = run.pin /\ run'.chronic = run.chronic
         /\ UNCHANGED <<repo, pages, target, banked, walked, ledger, upsets>>
<1>1. /\ run.pc = "advance" /\ bookmark' = run.pin /\ Calm /\ NoFault
      /\ run' = [run EXCEPT !.pc = IF run.full THEN "mark" ELSE "clearPaths"]
      /\ UNCHANGED <<repo, pages, target, banked, walked, ledger>>
  BY DEF MoveBookmark, repo
<1> DEFINE pc == IF run.full THEN "mark" ELSE "clearPaths"
<1>2. run' = Set(run, pc, run.imports, run.pending, run.chronic, run.misses)
  BY <1>1, RunHere DEF RunTo, Set
<1>3. /\ pc \in Places /\ run.pending = {}
      /\ pc \in {"pin", "clearPaths", "clearTarget"} => ~ run.full
      /\ pc \notin {"walk", "reconcile"}
  BY <1>1, RunHere DEF RunPlaced, Places
<1> HIDE DEF pc
<1>4. /\ RepoTyped' /\ run' \in RunTo(Len(trees')) /\ RunPlaced' /\ SameRun /\ run'.pc = pc
      /\ run'.pending = run.pending /\ run'.chronic = run.chronic /\ run.pin \in 0..Len(trees)
  BY <1>1, <1>2, <1>3, RunHere, RunMoves
<1>5. StoreTyped'
  BY <1>1, <1>4, RunHere DEF StoreTyped, repo
<1>6. Counted'
  BY <1>1, CountedKept DEF TypeInv
<1> QED  BY <1>1, <1>3, <1>4, <1>5, <1>6 DEF TypeInv, Calm, pc

(* Clearing the banked paths, and the target.                              *)
LEMMA ClearMoves ==
  ASSUME TypeInv, ClearPaths \/ ClearTarget
  PROVE  /\ TypeInv' /\ SameRun /\ ~ run.full /\ run'.chronic = run.chronic
         /\ run.pc \in {"clearPaths", "clearTarget"} /\ run'.pc \in {"clearTarget", "mark"}
         /\ UNCHANGED <<repo, pages, bookmark, walked, ledger, upsets>>
         /\ banked' \in {banked, [banked EXCEPT ![run.last] = {}]}
         /\ target' \in {target, [target EXCEPT ![run.last] = 0]}
         /\ run.pc = "clearPaths" => target' = target
         /\ run.pc = "clearTarget" => banked' = banked
<1>1. /\ Calm /\ UNCHANGED <<repo, pages, bookmark, walked, ledger>>
      /\ Fault \/ NoFault
      /\ \/ /\ run.pc = "clearPaths" /\ run' = [run EXCEPT !.pc = "clearTarget"]
            /\ target' = target /\ banked' \in {banked, [banked EXCEPT ![run.last] = {}]}
         \/ /\ run.pc = "clearTarget" /\ run' = [run EXCEPT !.pc = "mark"]
            /\ banked' = banked /\ target' \in {target, [target EXCEPT ![run.last] = 0]}
  BY DEF ClearPaths, ClearTarget, repo
<1>2. run.pending = {} /\ ~ run.full /\ run.pc # "idle"
  BY <1>1, RunHere DEF RunPlaced
<1>3. \E pc \in {"clearTarget", "mark"} :
        run' = Set(run, pc, run.imports, run.pending, run.chronic, run.misses)
  BY <1>1, RunHere DEF RunTo, Set
<1>4. /\ RepoTyped' /\ run' \in RunTo(Len(trees')) /\ RunPlaced' /\ SameRun
      /\ run'.chronic = run.chronic /\ run'.pc \in {"clearTarget", "mark"}
  BY <1>1, <1>2, <1>3, RunHere, RunMoves DEF Places
<1>5. StoreTyped'
  <2>1. banked' \in [0..MaxCommits -> SUBSET Paths] /\ target' \in [0..MaxCommits -> 0..MaxCommits]
    BY <1>1, RunHere DEF StoreTyped
  <2> QED  BY <1>1, <2>1, RunHere DEF StoreTyped, repo
<1>6. Counted'
  BY <1>1, CountedKept DEF TypeInv
<1> QED  BY <1>1, <1>2, <1>4, <1>5, <1>6 DEF TypeInv, Calm

(* A row that is acknowledged is still a row of its commit.                *)
LEMMA AcknowledgedRow ==
  ASSUME NEW row \in Row
  PROVE  LET x == Acknowledged(row)
         IN /\ x \in Row /\ x.commit = row.commit /\ (x = NoRow <=> row = NoRow)
            /\ x.state = "auto_skipped" => row.state = "auto_skipped"
<1>1. CASE row.state = "open"
  <2>1. Acknowledged(row) = [row EXCEPT !.state = "acknowledged"]
    BY <1>1 DEF Acknowledged, Row, NoRow
  <2> QED  BY <1>1, <2>1 DEF Row, NoRow
<1>2. CASE row.state # "open"
  <2>1. Acknowledged(row) = [row EXCEPT !.state = row.state]
    BY <1>2 DEF Acknowledged
  <2>2. [row EXCEPT !.state = row.state] = row
    BY DEF Row, NoRow
  <2> QED  BY <2>1, <2>2
<1> QED  BY <1>1, <1>2

(* Giving rows up.  A row stays a row, of the commit it had.               *)
LEMMA MarkMoves ==
  ASSUME TypeInv, MarkSkipped
  PROVE  /\ TypeInv' /\ run.pc = "mark"
         /\ \/ run.full /\ run'.pc = "reconcile" /\ SameRun
            \/ ~ run.full /\ run'.pc = "idle" /\ run' = Idle
         /\ UNCHANGED <<repo, pages, bookmark, target, banked, walked, upsets>>
         /\ run'.pc # "idle" => run'.chronic = run.chronic
         /\ \A p \in Paths : /\ ledger'[p].commit = ledger[p].commit
                             /\ ledger'[p] = NoRow <=> ledger[p] = NoRow
                             /\ ledger'[p].state = "auto_skipped" =>
                                  ledger[p].state = "auto_skipped" \/ p \in run.chronic
<1>1. /\ run.pc = "mark" /\ Calm /\ NoFault
      /\ run' = IF run.full THEN [run EXCEPT !.pc = "reconcile"] ELSE Idle
      /\ UNCHANGED <<repo, pages, bookmark, target, banked, walked>>
      /\ ledger' = [p \in Paths |->
           IF ledger[p].state # "open" THEN ledger[p]
           ELSE IF run.skip THEN Acknowledged(ledger[p])
           ELSE IF p \in run.chronic THEN [ledger[p] EXCEPT !.state = "auto_skipped"]
           ELSE ledger[p]]
  BY DEF MarkSkipped, repo
<1>2. ASSUME NEW p \in Paths
      PROVE  /\ ledger'[p] \in Row /\ ledger'[p].commit = ledger[p].commit
             /\ ledger'[p] = NoRow <=> ledger[p] = NoRow
             /\ ledger'[p].state = "auto_skipped" =>
                  ledger[p].state = "auto_skipped" \/ p \in run.chronic
  <2>1. ledger[p] \in Row
    BY RunHere DEF StoreTyped
  <2>2. ASSUME NEW s \in {"acknowledged", "auto_skipped"}, ledger[p].state = "open"
        PROVE  LET x == [ledger[p] EXCEPT !.state = s]
               IN x \in Row /\ x.commit = ledger[p].commit /\ x # NoRow /\ x.state = s
                  /\ ledger[p] # NoRow
    BY <2>1, <2>2 DEF Row, NoRow
  <2>3. CASE ledger'[p] = ledger[p]
    BY <2>1, <2>3
  <2>4. CASE ledger[p].state = "open" /\ ledger'[p] = Acknowledged(ledger[p])
    BY <2>1, <2>4, AcknowledgedRow
  <2>5. CASE /\ ledger[p].state = "open" /\ ledger'[p] = [ledger[p] EXCEPT !.state = "auto_skipped"]
             /\ p \in run.chronic
    BY <2>2, <2>5
  <2> QED  BY <1>1, <2>3, <2>4, <2>5
<1>3. ledger' \in [Paths -> Row]
  BY <1>1, <1>2
<1>4. StoreTyped'
  BY <1>1, <1>3, RunHere DEF StoreTyped, repo
<1>5. Counted'
  BY <1>1, CountedKept DEF TypeInv
<1>6. CASE ~ run.full
  BY <1>1, <1>2, <1>4, <1>5, <1>6, RunEnds DEF TypeInv, Calm
<1>7. CASE run.full
  <2>1. run' = Set(run, "reconcile", run.imports, run.pending, run.chronic, run.misses)
    BY <1>1, <1>7, RunHere DEF RunTo, Set
  <2>2. run.pending = {}
    BY <1>1, RunHere DEF RunPlaced
  <2>3. /\ RepoTyped' /\ run' \in RunTo(Len(trees')) /\ RunPlaced' /\ SameRun
        /\ run'.pc = "reconcile" /\ run'.chronic = run.chronic
    BY <1>1, <1>7, <2>1, <2>2, RunHere, RunMoves DEF Places
  <2> QED  BY <1>1, <1>2, <1>4, <1>5, <1>7, <2>3 DEF TypeInv, Calm
<1> QED  BY <1>6, <1>7

(* Dropping the pages of files that are gone.                              *)
LEMMA ReconcileMoves ==
  ASSUME TypeInv, Reconcile
  PROVE  /\ TypeInv' /\ run.pc = "reconcile" /\ run'.pc = "idle" /\ run' = Idle
         /\ UNCHANGED <<repo, bookmark, target, banked, walked, ledger, upsets>>
         /\ \A p \in Paths : pages'[p] = pages[p] \/ NowIndexed(p)
<1>1. /\ run.pc = "reconcile" /\ run' = Idle /\ Calm
      /\ Fault \/ NoFault
      /\ UNCHANGED <<repo, bookmark, target, banked, walked, ledger>>
      /\ \/ pages' = [p \in Paths |-> IF Live[p] = 0 /\ p \notin Stuck THEN 0 ELSE pages[p]]
         \/ UNCHANGED pages
  BY DEF Reconcile, repo
<1>2. /\ RepoTyped' /\ run' \in RunTo(Len(trees')) /\ RunPlaced' /\ run'.pc = "idle"
  BY <1>1, RunEnds
<1>3. /\ pages' \in Trees
      /\ \A p \in Paths : pages'[p] = pages[p] \/ NowIndexed(p)
  <2>1. pages \in Trees /\ 0 \in 0..MaxCommits
    BY RunHere DEF StoreTyped
  <2> QED  BY <1>1, <2>1 DEF Trees, NowIndexed
<1>4. StoreTyped'
  BY <1>1, <1>3, RunHere DEF StoreTyped, repo
<1>5. Counted'
  BY <1>1, CountedKept DEF TypeInv
<1> QED  BY <1>1, <1>2, <1>3, <1>4, <1>5 DEF TypeInv, Calm

(* The initial state.                                                      *)
LEMMA InitType == Init => TypeInv
<1> SUFFICES ASSUME Init PROVE TypeInv
  OBVIOUS
<1>1. PICK tree \in [Paths -> {0, 1}] : trees = <<tree>>
  BY DEF Init
<1>2. /\ moves = <<NoMove>> /\ branch = {1} /\ head = 1 /\ bookmark = 0 /\ walked = {}
      /\ pages = [p \in Paths |-> 0] /\ target = [c \in 0..MaxCommits |-> 0]
      /\ banked = [c \in 0..MaxCommits |-> {}] /\ ledger = [p \in Paths |-> NoRow]
      /\ run = Idle /\ faults = 0 /\ upsets = {}
  BY DEF Init
<1>3. 0 \in 0..MaxCommits /\ 1 \in Commits /\ tree \in Trees
  BY SyncAssumption DEF Commits, Trees
<1>4. trees \in Seq(Trees) /\ Len(trees) = 1 /\ moves \in Seq({NoMove} \cup (Paths \X Paths))
      /\ Len(moves) = 1
  BY <1>1, <1>2, <1>3
<1>5. RepoTyped
  BY <1>2, <1>3, <1>4 DEF RepoTyped
<1>6. StoreTyped
  BY <1>2, <1>3, <1>4 DEF StoreTyped, Trees, Row
<1>7. Counted
  BY <1>2, SyncAssumption DEF Counted
<1>8. run \in RunTo(Len(trees)) /\ RunPlaced
  BY <1>2, <1>4, IdleType DEF RunPlaced
<1> QED  BY <1>5, <1>6, <1>7, <1>8 DEF TypeInv

(* A commit of an author: a file written, removed, moved or restored.      *)
Committed(tree) == \E move \in {NoMove} \cup (Paths \X Paths) : Extend(tree, move)

(* What authors do is a commit or a rewrite of the history.                *)
LEMMA AuthorMoves ==
  ASSUME TypeInv, Author
  PROVE  /\ Fault \/ NoFault
         /\ \/ /\ Calm
               /\ \/ \E p \in Paths, x \in {0, Len(trees) + 1} :
                       Committed([Live EXCEPT ![p] = x])
                  \/ \E f, t \in Paths :
                       f # t /\ Committed([Live EXCEPT ![f] = 0, ![t] = Len(trees) + 1])
            \/ Upset("revert") /\ \E tree \in Trees : Committed(tree)
            \/ Rewrite
<1>1. CASE \E p \in Paths : Edit(p)
  BY <1>1 DEF Edit, Committed, Next_commit
<1>2. CASE \E p \in Paths : Remove(p)
  BY <1>2 DEF Remove, Committed
<1>3. CASE \E f, t \in Paths : Move(f, t)
  <2>1. PICK f \in Paths, t \in Paths : Move(f, t)
    BY <1>3
  <2>2. f # t /\ Extend([Live EXCEPT ![f] = 0, ![t] = Len(trees) + 1], <<f, t>>) /\ Calm /\ NoFault
    BY <2>1 DEF Move, Next_commit
  <2>3. <<f, t>> \in {NoMove} \cup (Paths \X Paths)
    OBVIOUS
  <2> QED  BY <2>2, <2>3 DEF Committed
<1>4. CASE \E p \in Paths : Restore(p)
  <2>1. PICK p \in Paths : Restore(p)
    BY <1>4
  <2>2. PICK c \in branch : Extend([Live EXCEPT ![p] = trees[c][p]], NoMove)
    BY <2>1 DEF Restore
  <2>3. [Live EXCEPT ![p] = trees[c][p]] \in Trees
    <3>1. Live \in Trees
      BY RunHere, AtType
    <3>2. trees[c] \in Trees
      BY RunHere DEF RepoTyped
    <3> QED  BY <3>1, <3>2 DEF Trees
  <2>4. Upset("revert") /\ Fault
    BY <2>1 DEF Restore
  <2> QED  BY <2>2, <2>3, <2>4 DEF Committed
<1>5. CASE Rewrite
  BY <1>5 DEF Rewrite
<1> QED  BY <1>1, <1>2, <1>3, <1>4, <1>5 DEF Author

(* What an author's commits write is a tree.                               *)
LEMMA CommittedType ==
  ASSUME TypeInv, NEW tree \in Trees, Committed(tree)
  PROVE  /\ RepoTyped' /\ StoreTyped' /\ run' \in RunTo(Len(trees')) /\ RunPlaced'
         /\ Len(trees') = Len(trees) + 1 /\ head' = Len(trees) + 1
         /\ branch' = branch \cup {Len(trees) + 1} /\ Len(trees) \in Nat
         /\ trees'[Len(trees) + 1] = tree /\ UNCHANGED <<store, run>>
         /\ \A i \in 1..Len(trees) : trees'[i] = trees[i]
         /\ 0 \in 0..MaxCommits /\ Len(trees) + 1 \in 0..MaxCommits
<1>1. PICK move \in {NoMove} \cup (Paths \X Paths) : Extend(tree, move)
  BY DEF Committed
<1>2. UNCHANGED <<store, run>> /\ Len(trees) + 1 <= MaxCommits
  BY <1>1 DEF Extend, Next_commit
<1>3. 0 \in 0..MaxCommits /\ Len(trees) + 1 \in 0..MaxCommits /\ Len(trees) \in Nat
  BY <1>2, RunHere, SyncAssumption
<1> QED  BY <1>1, <1>2, <1>3, ExtendType

(* The trees of the authors.                                               *)
LEMMA TreeType ==
  ASSUME TypeInv, Len(trees) + 1 \in 0..MaxCommits
  PROVE  /\ \A p \in Paths, x \in {0, Len(trees) + 1} : [Live EXCEPT ![p] = x] \in Trees
         /\ \A f, t \in Paths : [Live EXCEPT ![f] = 0, ![t] = Len(trees) + 1] \in Trees
BY RunHere, AtType DEF Trees

(* An author keeps the types.                                              *)
LEMMA AuthorType ==
  ASSUME TypeInv, Author
  PROVE  TypeInv'
<1>1. ASSUME NEW tree, Committed(tree)
      PROVE  Len(trees) + 1 \in 0..MaxCommits
  <2>1. Len(trees) + 1 <= MaxCommits
    BY <1>1 DEF Committed, Extend, Next_commit
  <2> QED  BY <2>1, RunHere
<1>2. \/ /\ Calm \/ Upset("revert")
         /\ \E tree \in Trees : Committed(tree)
      \/ Rewrite
  BY <1>1, AuthorMoves, TreeType
<1>3. CASE Rewrite
  BY <1>3, RewriteType
<1>4. CASE (Calm \/ Upset("revert")) /\ \E tree \in Trees : Committed(tree)
  <2>1. PICK tree \in Trees : Committed(tree)
    BY <1>4
  <2>2. Counted'
    BY <1>4, AuthorMoves, CountedKept DEF TypeInv, Rewrite, Upset
  <2> QED  BY <2>1, <2>2, CommittedType DEF TypeInv
<1> QED  BY <1>2, <1>3, <1>4

(* Rows acknowledged from outside a run.                                   *)
LEMMA AcknowledgeMoves ==
  ASSUME TypeInv, AcknowledgeAll
  PROVE  /\ TypeInv' /\ UNCHANGED <<repo, pages, bookmark, target, banked, walked, run, upsets>>
         /\ \A p \in Paths : /\ ledger'[p].commit = ledger[p].commit
                             /\ ledger'[p] = NoRow <=> ledger[p] = NoRow
                             /\ ledger'[p].state = "auto_skipped" =>
                                  ledger[p].state = "auto_skipped"
<1>1. /\ ledger' = [p \in Paths |-> Acknowledged(ledger[p])] /\ Calm /\ Fault
      /\ UNCHANGED <<repo, pages, bookmark, target, banked, walked, run>>
  BY DEF AcknowledgeAll
<1>2. \A p \in Paths : ledger[p] \in Row
  BY RunHere DEF StoreTyped
<1>3. ledger' \in [Paths -> Row]
  BY <1>1, <1>2, AcknowledgedRow
<1>4. Counted'
  BY <1>1, CountedKept DEF TypeInv
<1>5. TypeInv'
  BY <1>1, <1>3, <1>4 DEF TypeInv, RepoTyped, StoreTyped, RunPlaced, repo
<1> QED  BY <1>1, <1>2, <1>5, AcknowledgedRow DEF Calm

(* Every step of a sync keeps the types.                                   *)
LEMMA WorkType ==
  ASSUME TypeInv, Work \/ Stop
  PROVE  TypeInv'
BY PinMoves, WalkMoves, DeleteMoves, ImportMoves, RenameMoves, FlushMoves, GateMoves, BookmarkMoves,
   ClearMoves, MarkMoves, ReconcileMoves, StopMoves DEF Work

(* Every step keeps the types.                                             *)
LEMMA TypeKept == TypeInv /\ [Next]_vars => TypeInv'
<1> SUFFICES ASSUME TypeInv, [Next]_vars PROVE TypeInv'
  OBVIOUS
<1>1. CASE UNCHANGED vars
  BY <1>1 DEF vars, repo, store, TypeInv, RepoTyped, StoreTyped, Counted, RunPlaced
<1>2. CASE Author
  BY <1>2, AuthorType
<1>3. CASE \E skip \in BOOLEAN : StartFull(skip) \/ StartIncremental(skip)
  BY <1>3, StartType
<1>4. CASE Work \/ Stop
  BY <1>4, WorkType
<1>5. CASE AcknowledgeAll
  BY <1>5, AcknowledgeMoves
<1> QED  BY <1>1, <1>2, <1>3, <1>4, <1>5 DEF Next

(* The variables keep their types, for any files, contents, thresholds and *)
(* bounds: no run of performSyncInner or performFullSync, whatever is      *)
(* committed, aborted or fails under it, leaves the store ill-formed.      *)
THEOREM TypeCorrect == Spec => []TypeOK
<1>1. Spec => []TypeInv
  BY InitType, TypeKept, PTL DEF Spec
<1>2. TypeInv => TypeOK
  BY TypeInvIsTypeOK
<1> QED  BY <1>1, <1>2, PTL

-----------------------------------------------------------------------------
(* The order of the bookmark, the pin and the rows given up.  While the    *)
(* history only grows, HEAD is its last commit, a run drains to a pin at   *)
(* or past the bookmark, a stored target lies past the commit it is stored *)
(* under, and what is given up failed at the bookmark or before.           *)
Straight == branch = 1..Len(trees) /\ head = Len(trees)

PinAhead ==
  /\ run.pc = "pin" => run.last < run.pin
  /\ run.pc \in {"pin", "walk", "drain", "advance"} => bookmark <= run.pin
  /\ run.pc \in {"clearPaths", "clearTarget", "mark", "reconcile"} => bookmark = run.pin

TargetsAhead == \A c \in 0..MaxCommits : target[c] = 0 \/ target[c] > c

SkipsBehind ==
  /\ \A p \in Paths : ledger[p].state = "auto_skipped" => ledger[p].commit <= bookmark
  /\ run.pc # "idle" => \A p \in run.chronic : ledger[p].commit <= run.pin

Ordered  == Straight /\ PinAhead /\ TargetsAhead /\ SkipsBehind
OrderInv == "rewrite" \notin upsets => Ordered

(* No step takes an upset back.                                            *)
LEMMA UpsetsGrow ==
  ASSUME TypeInv, [Next]_vars
  PROVE  upsets \subseteq upsets'
<1>1. CASE UNCHANGED vars
  BY <1>1 DEF vars
<1>2. CASE Author
  <2>1. Calm \/ \E k : Upset(k)
    BY <1>2, AuthorMoves DEF Rewrite
  <2> QED  BY <2>1 DEF Calm, Upset
<1>3. CASE \E skip \in BOOLEAN : StartFull(skip) \/ StartIncremental(skip)
  BY <1>3 DEF StartFull, StartIncremental, StartResumed, StartFresh, StartRepinned, Calm, Upset
<1>4. CASE PersistPin \/ Walk \/ Flush \/ Gate \/ MoveBookmark \/ ClearPaths \/ ClearTarget
           \/ MarkSkipped \/ Reconcile \/ Stop \/ AcknowledgeAll
  BY <1>4, PinMoves, WalkMoves, FlushMoves, GateMoves, BookmarkMoves, ClearMoves, MarkMoves,
     ReconcileMoves, StopMoves, AcknowledgeMoves
<1>5. CASE \E p \in Paths : DeletePage(p) \/ ImportPage(p)
  BY <1>5 DEF DeletePage, ImportPage, Calm
<1>6. CASE \E f, t \in Paths : RenamePage(f, t)
  BY <1>6 DEF RenamePage, Calm, Upset
<1> QED  BY <1>1, <1>2, <1>3, <1>4, <1>5, <1>6 DEF Next, Work

(* The run that Resume begins, in full.                                    *)
LEMMA ResumeMoves ==
  ASSUME TypeInv, NEW skip \in BOOLEAN, NEW pin \in 1..Len(trees), NEW done, bookmark # 0,
         Resume(skip, pin, done)
  PROVE  \/ run' = Idle /\ run'.pc = "idle"
         \/ /\ run'.pc = "advance" /\ run'.last = bookmark /\ run'.pin = pin /\ bookmark # head
            /\ ~ run'.full /\ run'.chronic = {} /\ run'.deletes = {} /\ run'.renames = {}
            /\ run'.fixed = {} /\ run'.pending = {}
            /\ Deleted(bookmark, pin) = {} /\ Imported(bookmark, pin) = {}
            /\ To(Renamed(bookmark, pin)) = {}
         \/ /\ run'.pc = "pin" /\ run'.last = bookmark /\ run'.pin = pin /\ bookmark # head
            /\ ~ run'.full /\ run'.chronic = {} /\ run'.fixed = {} /\ run'.failed = {}
            /\ run'.pending = {}
            /\ run'.deletes = Deleted(bookmark, pin) \ done
            /\ run'.renames = {m \in Renamed(bookmark, pin) : m[2] \notin done}
            /\ run'.imports = Imported(bookmark, pin) \ done
<1>1. bookmark \in 0..MaxCommits /\ Len(trees) \in Nat /\ pin \in 0..Len(trees)
  BY RunHere DEF StoreTyped
<1>2. /\ Idle \in RunTo(Len(trees)) /\ Idle.pc = "idle" /\ Idle.pending = {} /\ Idle.full = FALSE
      /\ Idle.renames = {} /\ Idle.deletes = {} /\ Idle.fixed = {} /\ Idle.failed = {}
      /\ Idle.chronic = {}
  BY <1>1, IdleType
<1> DEFINE d == Deleted(bookmark, pin) \ done
           m == {r \in Renamed(bookmark, pin) : r[2] \notin done}
           i == Imported(bookmark, pin) \ done
<1>3. d \in SUBSET Paths /\ m \in SUBSET (Paths \X Paths) /\ i \in SUBSET Paths
  BY DiffType
<1>4. \/ run' = Idle
      \/ /\ bookmark # head /\ run' = ToAdvance(Idle, bookmark, pin)
         /\ Deleted(bookmark, pin) = {} /\ Imported(bookmark, pin) = {}
         /\ To(Renamed(bookmark, pin)) = {}
      \/ bookmark # head /\ run' = ToPin(Idle, skip, bookmark, pin, d, m, i)
  BY DEF Resume, ToAdvance, ToPin
<1> HIDE DEF d, m, i
<1>5. CASE run' = Idle
  BY <1>2, <1>5
<1>6. CASE run' = ToAdvance(Idle, bookmark, pin)
  <2>1. /\ run'.pc = "advance" /\ run'.last = bookmark /\ run'.pin = pin
        /\ run'.pending = {} /\ ~ run'.full /\ run'.chronic = {}
        /\ run'.deletes = {} /\ run'.renames = {} /\ run'.fixed = {}
    BY <1>1, <1>2, <1>6, AdvanceBegins
  <2>2. run' # Idle /\ run' # ToPin(Idle, skip, bookmark, pin, d, m, i)
    <3>1. ToPin(Idle, skip, bookmark, pin, d, m, i).pc = "pin"
      BY <1>1, <1>2, <1>3, DrainBegins
    <3> QED  BY <1>2, <2>1, <3>1
  <2> QED  BY <1>4, <2>1, <2>2
<1>7. CASE run' = ToPin(Idle, skip, bookmark, pin, d, m, i)
  <2>1. /\ run'.pc = "pin" /\ run'.last = bookmark /\ run'.pin = pin
        /\ run'.deletes = d /\ run'.renames = m /\ run'.imports = i /\ run'.pending = {}
        /\ ~ run'.full /\ run'.failed = {} /\ run'.fixed = {} /\ run'.chronic = {}
    BY <1>1, <1>2, <1>3, <1>7, DrainBegins
  <2>2. bookmark # head
    <3>1. run' # Idle
      BY <1>2, <2>1
    <3> QED  BY <1>4, <3>1
  <2> QED  BY <2>1, <2>2 DEF d, m, i
<1> QED  BY <1>4, <1>5, <1>6, <1>7

(* What a start reads and writes.                                          *)
LEMMA StartMoves ==
  ASSUME TypeInv, NEW skip \in BOOLEAN, StartIncremental(skip)
  PROVE  /\ bookmark # 0 /\ run.pc = "idle" /\ UNCHANGED <<repo, pages, bookmark, walked, ledger>>
         /\ \E pin \in 1..Len(trees), done \in SUBSET Paths :
              /\ Resume(skip, pin, done)
              /\ \/ /\ pin = target[bookmark] /\ done \in {{}, banked[bookmark]}
                    /\ UNCHANGED <<target, banked, upsets>>
                 \/ /\ pin = head /\ done = {} /\ UNCHANGED <<target, banked>>
                    /\ target[bookmark] = 0 \/ upsets' # {}
                 \/ /\ pin = head /\ done = {} /\ target[bookmark] \notin branch \cup {0}
                    /\ target' \in {target, [target EXCEPT ![bookmark] = 0]}
                    /\ banked' \in {banked, [banked EXCEPT ![bookmark] = {}]}
<1>1. /\ bookmark # 0 /\ run.pc = "idle" /\ UNCHANGED <<repo, pages, bookmark, walked, ledger>>
      /\ StartResumed(skip) \/ StartFresh(skip) \/ StartRepinned(skip)
  BY DEF StartIncremental, StartResumed, StartFresh, StartRepinned
<1>2. /\ head \in 1..Len(trees) /\ branch \subseteq 1..Len(trees)
      /\ banked[bookmark] \in SUBSET Paths /\ {} \in SUBSET Paths
  <2>1. bookmark \in 0..MaxCommits
    BY RunHere DEF StoreTyped
  <2> QED  BY <2>1, RunHere DEF RepoTyped, StoreTyped
<1>3. CASE StartResumed(skip)
  BY <1>1, <1>2, <1>3 DEF StartResumed, Calm
<1>4. CASE StartFresh(skip)
  BY <1>1, <1>2, <1>4 DEF StartFresh, Calm, Upset
<1>5. CASE StartRepinned(skip)
  BY <1>1, <1>2, <1>5 DEF StartRepinned, Calm
<1> QED  BY <1>1, <1>3, <1>4, <1>5

(* Starting keeps the order.                                               *)
LEMMA StartOrder ==
  ASSUME TypeInv, Ordered, NEW skip \in BOOLEAN, StartFull(skip) \/ StartIncremental(skip)
  PROVE  Ordered'
<1>1. /\ head = Len(trees) /\ Straight /\ TargetsAhead /\ SkipsBehind /\ Len(trees) \in Nat
      /\ bookmark \in 0..Len(trees) /\ bookmark \in 0..MaxCommits
  BY RunHere DEF Ordered, Straight, StoreTyped
<1>2. CASE StartFull(skip)
  <2>1. run' = ToWalk(Idle, skip, head) /\ UNCHANGED <<repo, store>>
    BY <1>2 DEF StartFull, ToWalk
  <2>2. Idle \in RunTo(Len(trees)) /\ Idle.chronic = {} /\ head \in 0..Len(trees)
    BY <1>1, IdleType
  <2>3. run'.pc = "walk" /\ run'.pin = head /\ run'.chronic = {}
    BY <1>1, <2>1, <2>2, WalkBegins
  <2> QED  BY <1>1, <2>1, <2>3 DEF Ordered, Straight, PinAhead, TargetsAhead, SkipsBehind, repo, store
<1>3. CASE StartIncremental(skip)
  <2>1. bookmark # 0 /\ UNCHANGED <<repo, pages, bookmark, walked, ledger>>
    BY <1>3, StartMoves
  <2>2. \E pin \in 1..Len(trees), done \in SUBSET Paths :
          Resume(skip, pin, done) /\ (pin = head \/ pin = target[bookmark])
    BY <1>3, StartMoves
  <2>3. PICK pin \in 1..Len(trees), done \in SUBSET Paths :
          Resume(skip, pin, done) /\ (pin = head \/ pin = target[bookmark])
    BY <2>2
  <2>4. target' \in {target, [target EXCEPT ![bookmark] = 0]}
    BY <1>3, StartMoves
  <2>5. \/ run'.pc = "idle"
        \/ run'.pc \in {"pin", "advance"} /\ run'.last = bookmark /\ run'.pin = pin
           /\ bookmark # head /\ run'.chronic = {}
    BY <2>1, <2>3, ResumeMoves
  <2>6. run'.pc # "idle" => bookmark < pin
    BY <1>1, <2>3, <2>5 DEF TargetsAhead
  <2>7. TargetsAhead'
    BY <1>1, <2>4, RunHere DEF TargetsAhead, StoreTyped
  <2> QED  BY <1>1, <2>1, <2>5, <2>6, <2>7 DEF Ordered, Straight, PinAhead, SkipsBehind, repo
<1> QED  BY <1>2, <1>3

(* The steps of a drain keep it: they write no bookmark, target or row.    *)
LEMMA DrainOrder ==
  ASSUME TypeInv, Ordered, DrainMove
  PROVE  Ordered'
BY DEF Ordered, Straight, PinAhead, TargetsAhead, SkipsBehind, DrainMove, repo

(* The other steps of a run keep it.                                       *)
LEMMA WorkOrder ==
  ASSUME TypeInv, Ordered, Work \/ Stop
  PROVE  Ordered'
<1>1. CASE PersistPin
  <2>1. TargetsAhead'
    <3>1. run.last < run.pin /\ target' = [target EXCEPT ![run.last] = run.pin]
      BY <1>1, PinMoves DEF Ordered, PinAhead
    <3> QED  BY <3>1, RunHere DEF Ordered, TargetsAhead, StoreTyped
  <2>2. bookmark <= run.pin
    BY <1>1, PinMoves DEF Ordered, PinAhead
  <2> QED  BY <1>1, <2>1, <2>2, PinMoves DEF Ordered, Straight, PinAhead, SkipsBehind, SameRun, repo
<1>2. CASE Walk
  BY <1>2, WalkMoves DEF Ordered, Straight, PinAhead, TargetsAhead, SkipsBehind, SameRun, repo, store
<1>3. CASE \E p \in Paths : DeletePage(p) \/ ImportPage(p)
  BY <1>3, DeleteMoves, ImportMoves, DrainOrder
<1>4. CASE \E f, t \in Paths : RenamePage(f, t)
  BY <1>4, RenameMoves, DrainOrder
<1>5. CASE Flush
  BY <1>5, FlushMoves DEF Ordered, Straight, PinAhead, TargetsAhead, SkipsBehind, SameRun, repo
<1>6. CASE Gate
  <2>1. /\ run.pc = "drain" /\ UNCHANGED <<repo, pages, bookmark, target, upsets>>
        /\ ledger' = Recorded(Resolved, run.failed, run.pin) /\ run.pin \in Commits
        /\ \/ run'.pc = "idle"
           \/ run'.pc = "advance" /\ SameRun /\ run'.chronic \subseteq run.failed
    BY <1>6, GateMoves
  <2>2. \A p \in Paths :
          /\ p \in run.failed => ledger'[p].commit = run.pin /\ ledger'[p].state = "open"
          /\ p \notin run.failed => ledger'[p] \in {NoRow, ledger[p]}
    BY <2>1, RecordedType
  <2>3. SkipsBehind'
    <3>1. ASSUME NEW p \in Paths, ledger'[p].state = "auto_skipped"
          PROVE  ledger'[p].commit <= bookmark'
      BY <2>1, <2>2, <3>1 DEF Ordered, SkipsBehind, NoRow
    <3>2. ASSUME NEW p \in run'.chronic, run'.pc # "idle"
          PROVE  ledger'[p].commit <= run'.pin
      <4>1. p \in run.failed /\ run'.pin = run.pin /\ p \in Paths
        BY <2>1, <3>2, RunHere DEF SameRun
      <4> QED  BY <2>1, <2>2, <4>1 DEF Commits
    <3> QED  BY <3>1, <3>2 DEF SkipsBehind
  <2> QED  BY <2>1, <2>3 DEF Ordered, Straight, PinAhead, TargetsAhead, SameRun, repo
<1>7. CASE MoveBookmark
  <2>1. SkipsBehind'
    <3>1. bookmark <= run.pin /\ run.pin \in Nat /\ bookmark \in Nat
      BY <1>7, BookmarkMoves, RunHere DEF Ordered, PinAhead, RunPlaced, StoreTyped
    <3>2. \A p \in Paths : ledger[p].state = "auto_skipped" => ledger[p].commit \in Nat
      BY RunHere DEF StoreTyped, Row, NoRow, Commits
    <3> QED  BY <1>7, <3>1, <3>2, BookmarkMoves DEF Ordered, SkipsBehind, SameRun
  <2> QED  BY <1>7, <2>1, BookmarkMoves DEF Ordered, Straight, PinAhead, TargetsAhead, SameRun, repo
<1>8. CASE ClearPaths \/ ClearTarget
  <2>1. TargetsAhead'
    <3>1. target' \in {target, [target EXCEPT ![run.last] = 0]}
      BY <1>8, ClearMoves
    <3> QED  BY <3>1, RunHere DEF Ordered, TargetsAhead, StoreTyped
  <2> QED  BY <1>8, <2>1, ClearMoves DEF Ordered, Straight, PinAhead, SkipsBehind, SameRun, repo
<1>9. CASE MarkSkipped
  <2>1. SkipsBehind'
    <3>1. bookmark = run.pin
      BY <1>9, MarkMoves DEF Ordered, PinAhead
    <3> QED  BY <1>9, <3>1, MarkMoves, RunHere DEF Ordered, SkipsBehind, SameRun
  <2> QED  BY <1>9, <2>1, MarkMoves DEF Ordered, Straight, PinAhead, TargetsAhead, SameRun, repo
<1>10. CASE Reconcile
  BY <1>10, ReconcileMoves DEF Ordered, Straight, PinAhead, TargetsAhead, SkipsBehind, repo
<1>11. CASE Stop
  BY <1>11, StopMoves DEF Ordered, Straight, PinAhead, TargetsAhead, SkipsBehind, repo
<1> QED  BY <1>1, <1>2, <1>3, <1>4, <1>5, <1>6, <1>7, <1>8, <1>9, <1>10, <1>11 DEF Work

(* Commits keep it; a rewrite is the upset excluded.                       *)
LEMMA AuthorOrder ==
  ASSUME TypeInv, Ordered, Author
  PROVE  Ordered' \/ "rewrite" \in upsets'
<1>1. CASE Rewrite
  BY <1>1, RewriteType
<1>2. ASSUME NEW tree \in Trees, Committed(tree)
      PROVE  Ordered'
  <2>1. /\ branch' = branch \cup {Len(trees) + 1} /\ head' = Len(trees) + 1
        /\ Len(trees') = Len(trees) + 1 /\ Len(trees) \in Nat /\ UNCHANGED <<store, run>>
    BY <1>2, CommittedType
  <2>2. Straight'
    <3>1. branch' = 1..(Len(trees) + 1)
      BY <2>1 DEF Ordered, Straight
    <3> QED  BY <2>1, <3>1 DEF Straight
  <2> QED  BY <2>1, <2>2 DEF Ordered, PinAhead, TargetsAhead, SkipsBehind, store
<1>3. ASSUME NEW tree, Committed(tree)
      PROVE  Len(trees) + 1 \in 0..MaxCommits
  <2>1. Len(trees) + 1 <= MaxCommits
    BY <1>3 DEF Committed, Extend, Next_commit
  <2> QED  BY <2>1, RunHere
<1>4. Rewrite \/ \E tree \in Trees : Committed(tree)
  BY <1>3, AuthorMoves, TreeType
<1> QED  BY <1>1, <1>2, <1>4

(* Every step keeps the order while the history only grows.                *)
LEMMA OrderKept == TypeInv /\ OrderInv /\ [Next]_vars => OrderInv'
<1> SUFFICES ASSUME TypeInv, OrderInv, [Next]_vars, "rewrite" \notin upsets'
             PROVE  Ordered'
  BY DEF OrderInv
<1>1. Ordered
  BY UpsetsGrow DEF OrderInv
<1>2. CASE UNCHANGED vars
  BY <1>1, <1>2 DEF vars, repo, store, Ordered, Straight, PinAhead, TargetsAhead, SkipsBehind
<1>3. CASE Author
  BY <1>1, <1>3, AuthorOrder
<1>4. CASE \E skip \in BOOLEAN : StartFull(skip) \/ StartIncremental(skip)
  BY <1>1, <1>4, StartOrder
<1>5. CASE Work \/ Stop
  BY <1>1, <1>5, WorkOrder
<1>6. CASE AcknowledgeAll
  <2>1. Straight' /\ PinAhead' /\ TargetsAhead'
    BY <1>1, <1>6, AcknowledgeMoves DEF Ordered, Straight, PinAhead, TargetsAhead, repo
  <2>2. run.chronic \subseteq Paths
    BY RunHere
  <2>3. SkipsBehind'
    BY <1>1, <1>6, <2>2, AcknowledgeMoves DEF Ordered, SkipsBehind
  <2> QED  BY <2>1, <2>3 DEF Ordered
<1> QED  BY <1>2, <1>3, <1>4, <1>5, <1>6 DEF Next

(* The first state is in order.                                            *)
LEMMA InitOrder == Init => OrderInv
<1> SUFFICES ASSUME Init PROVE Ordered
  BY DEF OrderInv
<1>1. Len(trees) = 1 /\ head = 1 /\ branch = {1}
  BY DEF Init
<1>2. branch = 1..Len(trees)
  BY <1>1
<1>3. run.pc = "idle" /\ target = [c \in 0..MaxCommits |-> 0]
      /\ ledger = [p \in Paths |-> NoRow]
  BY IdleType DEF Init
<1> QED  BY <1>1, <1>2, <1>3 DEF Ordered, Straight, PinAhead, TargetsAhead, SkipsBehind, NoRow

(* A file is given up in the ledger only after the bookmark has passed the *)
(* commit it failed at: autoSkipFailures runs after the bookmark moved,    *)
(* whatever crashed between the two in earlier runs.                       *)
THEOREM SkipsAreBehind == Spec => []SkipsFollowBookmark
<1>1. Spec => [](TypeInv /\ OrderInv)
  BY InitType, TypeKept, InitOrder, OrderKept, PTL DEF Spec
<1>2. TypeInv /\ OrderInv => SkipsFollowBookmark
  BY DEF OrderInv, Ordered, SkipsBehind, SkipsFollowBookmark
<1> QED  BY <1>1, <1>2, PTL

-----------------------------------------------------------------------------
(* Why no file is lost.  A file is settled at a commit when the brain has  *)
(* its content or the commit has another, so that a diff from that commit  *)
(* shows it.                                                               *)
Settled(p, c) == Live[p] \in {0, pages[p]} \/ At(c)[p] # Live[p]

(* A content stays from the commit that wrote it on.                       *)
History ==
  \A k \in 1..Len(trees) : \A p \in Paths :
    At(k)[p] # 0 => At(k)[p] <= k /\ \A i \in At(k)[p]..k : At(i)[p] = At(k)[p]

(* The checkpoint: nothing is stored past the bookmark, no path without a  *)
(* target, and what is banked is settled at the target.                    *)
Stored ==
  /\ \A c \in 0..MaxCommits : target[c] <= Len(trees)
  /\ \A c \in 0..MaxCommits : c > bookmark => banked[c] = {} /\ target[c] = 0
  /\ target[bookmark] = 0 => banked[bookmark] = {}
  /\ target[bookmark] # 0 => \A p \in banked[bookmark] : Settled(p, target[bookmark])

(* A run: it drains from the bookmark to the stored target, what it        *)
(* deletes is gone at the pin, and what it has done is settled there.      *)
Drawn ==
  /\ ~ run.full /\ run.pc \in {"pin", "drain", "advance"} =>
       run.last = bookmark /\ run.last < run.pin
  /\ run.pc \in {"clearPaths", "clearTarget"} => run.last < bookmark
  /\ run.pc = "pin" => target[bookmark] \in {0, run.pin}
  /\ run.pc = "drain" /\ ~ run.full => target[bookmark] = run.pin

Worked ==
  /\ run.full => run.deletes = {} /\ run.renames = {}
  /\ ~ run.full => \A p \in run.deletes \cup From(run.renames) : At(run.pin)[p] = 0
  /\ ~ run.full /\ run.pc \in {"pin", "drain"} =>
       \A p \in run.fixed \cup run.pending : Settled(p, run.pin)

(* The files: what a run has left to do, what it may advance past, and     *)
(* what the bookmark has passed.                                           *)
LeftOver ==
  run.pc \in {"pin", "drain"} =>
    \A p \in Paths : \/ p \in To(run.renames) \cup run.imports \cup run.failed
                     \/ Settled(p, run.pin)
                     \/ ~ run.full /\ ledger[p] # NoRow
Ready  == run.pc = "advance" => \A p \in Paths : Settled(p, run.pin) \/ ledger[p] # NoRow
Passed == \A p \in Paths : Settled(p, bookmark) \/ ledger[p] # NoRow

Tracks   == History /\ Stored /\ Drawn /\ Worked /\ LeftOver /\ Ready /\ Passed
TrackInv == upsets = {} => Tracks

(* A content that is there at two commits is there at every one between.   *)
LEMMA Stays ==
  ASSUME TypeInv, History, NEW p \in Paths, NEW a \in 0..Len(trees), NEW k \in 0..Len(trees),
         NEW b \in 0..Len(trees), a <= k, k <= b, At(a)[p] # 0, At(a)[p] = At(b)[p]
  PROVE  At(k)[p] = At(b)[p]
<1>1. Len(trees) \in Nat /\ At(0)[p] = 0
  BY RunHere DEF At
<1>2. a \in 1..Len(trees) /\ b \in 1..Len(trees)
  BY <1>1
<1>3. At(a)[p] \in 0..MaxCommits
  BY RunHere, AtType DEF Trees
<1>4. At(a)[p] <= a
  BY <1>2 DEF History
<1>5. k \in At(b)[p]..b
  BY <1>1, <1>3, <1>4
<1> QED  BY <1>2, <1>5 DEF History

(* What is settled at a commit was settled at the commits before it.       *)
LEMMA SettledEarlier ==
  ASSUME TypeInv, Ordered, History, NEW p \in Paths, NEW a \in 0..Len(trees),
         NEW k \in 0..Len(trees), a <= k, Settled(p, k)
  PROVE  Settled(p, a)
<1>1. /\ head \in 0..Len(trees) /\ k <= head /\ At(head)[p] = Live[p]
  BY RunHere, AtType DEF Ordered, Straight
<1>2. CASE Live[p] \in {0, pages[p]}
  BY <1>2 DEF Settled
<1>3. CASE Live[p] # 0 /\ At(a)[p] = Live[p]
  BY <1>1, <1>3, Stays DEF Settled
<1> QED  BY <1>2, <1>3 DEF Settled

(* A commit of an author leaves every file settled where it was: what it   *)
(* writes no earlier commit has.                                           *)
LEMMA AuthorTracks ==
  ASSUME TypeInv, Ordered, Tracks, Author, upsets' = {}
  PROVE  Tracks'
<1> SUFFICES ASSUME NEW n, n = Len(trees) + 1  PROVE Tracks'
  OBVIOUS
<1>1. PICK tree \in Trees : Committed(tree) /\ \A p \in Paths : tree[p] \in {0, Live[p], n}
  <2>1. /\ \/ \E p \in Paths, x \in {0, n} : Committed([Live EXCEPT ![p] = x])
           \/ \E f, t \in Paths : f # t /\ Committed([Live EXCEPT ![f] = 0, ![t] = n])
    BY AuthorMoves DEF Upset, Rewrite
  <2>2. Live \in Trees
    BY RunHere, AtType
  <2>3. ASSUME NEW tree, Committed(tree)
        PROVE  n \in 0..MaxCommits
    <3>1. n <= MaxCommits
      BY <2>3 DEF Committed, Extend, Next_commit
    <3> QED  BY <3>1, RunHere
  <2>4. ASSUME NEW p \in Paths, NEW x \in {0, n}, Committed([Live EXCEPT ![p] = x])
        PROVE  \E tree \in Trees : Committed(tree) /\ \A q \in Paths : tree[q] \in {0, Live[q], n}
    <3>1. [Live EXCEPT ![p] = x] \in Trees
      BY <2>3, <2>4, TreeType
    <3>2. \A q \in Paths : [Live EXCEPT ![p] = x][q] \in {0, Live[q], n}
      BY <2>2 DEF Trees
    <3> QED  BY <2>4, <3>1, <3>2
  <2>5. ASSUME NEW f \in Paths, NEW t \in Paths, Committed([Live EXCEPT ![f] = 0, ![t] = n])
        PROVE  \E tree \in Trees : Committed(tree) /\ \A q \in Paths : tree[q] \in {0, Live[q], n}
    <3>1. [Live EXCEPT ![f] = 0, ![t] = n] \in Trees
      BY <2>3, <2>5, TreeType
    <3>2. \A q \in Paths : [Live EXCEPT ![f] = 0, ![t] = n][q] \in {0, Live[q], n}
      BY <2>2 DEF Trees
    <3> QED  BY <2>5, <3>1, <3>2
  <2> QED  BY <2>1, <2>4, <2>5
<1>2. /\ Len(trees') = n /\ head' = n /\ Len(trees) \in Nat /\ trees'[n] = tree
      /\ UNCHANGED <<store, run>> /\ \A i \in 1..Len(trees) : trees'[i] = trees[i]
  BY <1>1, CommittedType
<1>3. Live' = tree /\ \A c \in 0..Len(trees) : At(c)' = At(c)
  BY <1>2 DEF Live, At
<1>4. At(n)' = tree /\ head = Len(trees) /\ head \in 1..Len(trees) /\ Live = At(head)
  BY <1>2, RunHere, AtType DEF At, Ordered, Straight
<1>5. \A c \in 1..Len(trees), p \in Paths : At(c)[p] \in Nat /\ At(c)[p] <= c /\ At(c)[p] < n
  <2> TAKE c \in 1..Len(trees), p \in Paths
  <2>1. At(c)[p] \in 0..MaxCommits
    BY RunHere, AtType DEF Trees
  <2>2. At(c)[p] # 0 => At(c)[p] <= c
    BY DEF Tracks, History
  <2> QED  BY <1>2, <2>1, <2>2
<1>6. \A c \in 0..Len(trees), p \in Paths : Settled(p, c) => Settled(p, c)'
  <2> SUFFICES ASSUME NEW c \in 0..Len(trees), NEW p \in Paths, Settled(p, c)
               PROVE  tree[p] \in {0, pages[p]} \/ At(c)[p] # tree[p]
    BY <1>2, <1>3 DEF Settled, store
  <2>1. CASE tree[p] = Live[p]
    BY <2>1 DEF Settled
  <2>2. CASE tree[p] = n
    <3>1. c = 0 => At(c)[p] = 0
      BY DEF At
    <3> QED  BY <1>2, <1>5, <2>2, <3>1
  <2> QED  BY <1>1, <2>1, <2>2
<1>7. History'
  <2> SUFFICES ASSUME NEW k \in 1..n, NEW p \in Paths, At(k)'[p] # 0
               PROVE  At(k)'[p] <= k /\ \A i \in At(k)'[p]..k : At(i)'[p] = At(k)'[p]
    BY <1>2 DEF History
  <2>1. CASE k \in 1..Len(trees)
    <3>1. At(k)' = At(k) /\ At(k)[p] # 0
      BY <1>3, <2>1
    <3>2. At(k)[p] <= k /\ \A i \in At(k)[p]..k : At(i)[p] = At(k)[p]
      BY <2>1, <3>1 DEF Tracks, History
    <3>3. \A i \in At(k)[p]..k : i \in 0..Len(trees)
      BY <1>2, <1>5, <2>1
    <3> QED  BY <1>3, <3>1, <3>2, <3>3
  <2>2. CASE k = n /\ tree[p] = n
    BY <1>2, <1>4, <2>2
  <2>3. CASE k = n /\ tree[p] = Live[p]
    <3>1. /\ At(n)'[p] = At(head)[p] /\ At(head)[p] # 0
          /\ At(head)[p] \in Nat /\ At(head)[p] <= head
          /\ \A i \in At(head)[p]..head : At(i)[p] = At(head)[p]
      BY <1>4, <1>5, <2>3 DEF Tracks, History
    <3>2. \A i \in At(head)[p]..n : i = n \/ (i \in At(head)[p]..head /\ i \in 0..Len(trees))
      BY <1>2, <1>4, <3>1
    <3>3. \A i \in At(head)[p]..n : At(i)'[p] = At(head)[p]
      BY <1>3, <3>1, <3>2
    <3> QED  BY <1>2, <1>4, <2>3, <3>1, <3>3
  <2> QED  BY <1>1, <1>2, <1>4, <2>1, <2>2, <2>3
<1>8. /\ bookmark \in 0..Len(trees) /\ bookmark \in 0..MaxCommits
      /\ \A c \in 0..MaxCommits : target[c] \in 0..MaxCommits /\ target[c] <= Len(trees)
      /\ run.pin \in 0..Len(trees) /\ banked[bookmark] \subseteq Paths
      /\ run.fixed \subseteq Paths /\ run.pending \subseteq Paths
  <2>1. bookmark \in 0..MaxCommits
    BY RunHere DEF StoreTyped
  <2> QED  BY <2>1, RunHere, RunFields DEF StoreTyped, Tracks, Stored
<1>9. Stored'
  <2>1. \A p \in banked[bookmark] : Settled(p, target[bookmark]) => Settled(p, target[bookmark])'
    BY SMTT(40), <1>2, <1>6, <1>8 DEF Settled, At, Live, store
  <2>2. UNCHANGED <<target, banked, bookmark>> /\ Len(trees) <= Len(trees')
    BY <1>2 DEF store
  <2> QED  BY <1>8, <2>1, <2>2 DEF Tracks, Stored
<1>10. Drawn'
  BY <1>2 DEF Tracks, Drawn, store
<1>11. Worked'
  <2>1. \A p \in run.fixed \cup run.pending : Settled(p, run.pin) => Settled(p, run.pin)'
    BY <1>2, <1>6, <1>8 DEF Settled, At, Live, store
  <2>2. At(run.pin)' = At(run.pin) /\ run' = run
    BY <1>2, <1>3, <1>8
  <2> QED  BY <2>1, <2>2 DEF Tracks, Worked
<1>12. LeftOver' /\ Ready' /\ Passed'
  <2>1. /\ \A p \in Paths : Settled(p, run.pin) => Settled(p, run.pin)'
        /\ \A p \in Paths : Settled(p, bookmark) => Settled(p, bookmark)'
    BY <1>2, <1>6, <1>8 DEF Settled, At, Live, store
  <2>2. UNCHANGED <<run, ledger, bookmark>>
    BY <1>2 DEF store
  <2> QED  BY <2>1, <2>2 DEF Tracks, LeftOver, Ready, Passed
<1> QED  BY <1>7, <1>9, <1>10, <1>11, <1>12 DEF Tracks

(* A file no diff from the bookmark to the pin shows is settled at the pin *)
(* when it was settled at the bookmark.                                    *)
LEMMA NotShown ==
  ASSUME TypeInv, NEW p \in Paths, NEW a \in 0..Len(trees), NEW k \in 0..Len(trees),
         p \notin Imported(a, k) \cup To(Renamed(a, k)), Settled(p, a)
  PROVE  Settled(p, k)
<1>1. At(a)[p] = At(k)[p] \/ At(k)[p] = 0
  BY DEF Imported, Added, Changed
<1> QED  BY <1>1 DEF Settled

(* Starting loses no file: a fresh diff shows what is not settled at the   *)
(* bookmark, and what a resumed run leaves out is banked and settled.      *)
LEMMA StartTracks ==
  ASSUME TypeInv, Ordered, Tracks, NEW skip \in BOOLEAN,
         StartFull(skip) \/ StartIncremental(skip), upsets' = {}
  PROVE  Tracks'
<1>1. /\ Len(trees) \in Nat /\ bookmark \in 0..Len(trees) /\ bookmark \in 0..MaxCommits
      /\ head \in 1..Len(trees) /\ head = Len(trees) /\ branch = 1..Len(trees)
      /\ UNCHANGED <<repo, pages, bookmark, walked, ledger>>
  BY StartType, RunHere, AtType DEF StoreTyped, Ordered, Straight
<1>2. /\ target \in [0..MaxCommits -> 0..MaxCommits] /\ banked \in [0..MaxCommits -> SUBSET Paths]
      /\ target[bookmark] \in 0..Len(trees)
  BY <1>1, RunHere DEF Tracks, Stored, StoreTyped
<1>3. History' /\ Passed'
  BY <1>1 DEF Tracks, History, Passed, Settled, At, Live, repo
<1>4. CASE StartFull(skip)
  <2>1. run' = ToWalk(Idle, skip, head) /\ UNCHANGED <<repo, store>>
    BY <1>4 DEF StartFull, ToWalk
  <2>2. /\ Idle \in RunTo(Len(trees)) /\ head \in 0..Len(trees)
        /\ Idle.deletes = {} /\ Idle.renames = {}
    BY <1>1, IdleType
  <2>3. run'.pc = "walk" /\ run'.full /\ run'.deletes = {} /\ run'.renames = {}
    BY <1>1, <2>1, <2>2, WalkBegins
  <2>4. Stored'
    BY <2>1 DEF Tracks, Stored, Settled, At, Live, repo, store
  <2> QED  BY <1>3, <2>3, <2>4 DEF Tracks, Drawn, Worked, LeftOver, Ready
<1>5. CASE StartIncremental(skip)
  <2>1. PICK pin \in 1..Len(trees), done \in SUBSET Paths :
          /\ Resume(skip, pin, done)
          /\ \/ /\ pin = target[bookmark] /\ done \in {{}, banked[bookmark]}
                /\ UNCHANGED <<target, banked, upsets>>
             \/ /\ pin = head /\ done = {} /\ UNCHANGED <<target, banked>>
                /\ target[bookmark] = 0 \/ upsets' # {}
             \/ /\ pin = head /\ done = {} /\ target[bookmark] \notin branch \cup {0}
                /\ target' \in {target, [target EXCEPT ![bookmark] = 0]}
                /\ banked' \in {banked, [banked EXCEPT ![bookmark] = {}]}
    BY <1>5, StartMoves
  <2>2. /\ bookmark # 0 /\ target[bookmark] \in {0, pin} /\ UNCHANGED <<target, banked>>
        /\ pin = head \/ pin = target[bookmark]
        /\ done = {} \/ (pin = target[bookmark] /\ done = banked[bookmark])
    <3>1. target[bookmark] \in branch \cup {0}
      BY <1>1, <1>2
    <3> QED  BY <1>5, <2>1, <3>1, StartMoves
  <2>3. Stored'
    BY <1>1, <2>2 DEF Tracks, Stored, Settled, At, Live, repo
  <2>4. \A p \in done : Settled(p, pin)
    BY <2>1, <2>2 DEF Tracks, Stored
  <2>5. bookmark # head => bookmark < pin
    BY <1>1, <2>1, <2>2 DEF Ordered, TargetsAhead
  <2>6. \A p \in Paths : \/ p \in Imported(bookmark, pin) \cup To(Renamed(bookmark, pin))
                         \/ Settled(p, pin) \/ ledger[p] # NoRow
    <3> SUFFICES ASSUME NEW p \in Paths, ledger[p] = NoRow,
                        p \notin Imported(bookmark, pin) \cup To(Renamed(bookmark, pin))
                 PROVE  Settled(p, pin)
      OBVIOUS
    <3>1. Settled(p, bookmark) /\ pin \in 0..Len(trees)
      BY <1>1 DEF Tracks, Passed
    <3> QED  BY <1>1, <3>1, NotShown
  <2>7. \A p \in Paths : Settled(p, pin) => Live'[p] \in {0, pages'[p]} \/ At(pin)'[p] # Live'[p]
    BY <1>1 DEF Settled, At, Live, repo
  <2>8. CASE run' = Idle /\ run'.pc = "idle"
    BY <1>3, <2>3, <2>8, IdleType DEF Tracks, Drawn, Worked, LeftOver, Ready, From
  <2>9. CASE /\ run'.pc = "advance" /\ run'.last = bookmark /\ run'.pin = pin /\ bookmark # head
             /\ ~ run'.full /\ run'.deletes = {} /\ run'.renames = {}
             /\ Imported(bookmark, pin) = {} /\ To(Renamed(bookmark, pin)) = {}
    <3>1. Ready'
      <4>1. \A p \in Paths : Settled(p, pin) \/ ledger[p] # NoRow
        BY <2>6, <2>9
      <4> QED  BY <1>1, <2>7, <2>9, <4>1 DEF Ready, Settled, At, Live
    <3> QED  BY <1>1, <1>3, <2>3, <2>5, <2>9, <3>1 DEF Tracks, Drawn, Worked, LeftOver, From
  <2>10. CASE /\ run'.pc = "pin" /\ run'.last = bookmark /\ run'.pin = pin /\ bookmark # head
              /\ ~ run'.full /\ run'.fixed = {} /\ run'.pending = {}
              /\ run'.deletes = Deleted(bookmark, pin) \ done
              /\ run'.renames = {m \in Renamed(bookmark, pin) : m[2] \notin done}
              /\ run'.imports = Imported(bookmark, pin) \ done
    <3>1. LeftOver'
      <4>1. \A p \in To(Renamed(bookmark, pin)) : p \in To(run'.renames) \/ p \in done
        BY <2>10 DEF To
      <4>2. \A p \in Paths : \/ p \in To(run'.renames) \cup run'.imports
                             \/ Settled(p, pin) \/ ledger[p] # NoRow
        BY <2>4, <2>6, <2>10, <4>1
      <4> QED  BY <1>1, <2>7, <2>10, <4>2 DEF LeftOver, Settled, At, Live
    <3>2. Worked'
      <4>1. \A p \in run'.deletes \cup From(run'.renames) : At(pin)[p] = 0
        <5>1. run'.deletes \cup From(run'.renames) \subseteq Gone(bookmark, pin)
          BY <2>10, DiffType DEF From
        <5> QED  BY <5>1 DEF Gone
      <4>2. \A p \in run'.deletes \cup From(run'.renames) : At(pin)'[p] = 0
        BY <1>1, <4>1 DEF At, repo
      <4> QED  BY <2>10, <4>2 DEF Worked, At
    <3> QED  BY <1>1, <1>3, <2>2, <2>3, <2>5, <2>10, <3>1, <3>2 DEF Tracks, Drawn, Ready
  <2> QED  BY <2>1, <2>2, <2>8, <2>9, <2>10, ResumeMoves
<1> QED  BY <1>4, <1>5

(* A step that leaves the repository and the bookmark alone, and every     *)
(* page as it was or up to date.                                           *)
Quiet == UNCHANGED <<repo, bookmark>> /\ \A p \in Paths : pages'[p] = pages[p] \/ NowIndexed(p)

(* It keeps the history and every settled file.                            *)
LEMMA QuietKeeps ==
  ASSUME Quiet, History
  PROVE  /\ History'
         /\ \A p \in Paths : \A c : Settled(p, c) => Live'[p] \in {0, pages'[p]} \/ At(c)'[p] # Live'[p]
BY DEF Quiet, History, Settled, At, Live, repo, NowIndexed

(* Storing the pin.                                                        *)
LEMMA PinTracks ==
  ASSUME TypeInv, Ordered, Tracks, PersistPin
  PROVE  Tracks'
<1>1. /\ SameRun /\ ~ run.full /\ run.pc = "pin" /\ run'.pc = "drain"
      /\ run'.imports = run.imports /\ run'.pending = {}
      /\ target' = [target EXCEPT ![run.last] = run.pin]
      /\ UNCHANGED <<repo, pages, bookmark, banked, walked, ledger>>
  BY PinMoves
<1>2. /\ run.last = bookmark /\ run.last < run.pin /\ target[bookmark] \in {0, run.pin}
      /\ run.last \in 0..MaxCommits /\ run.pin \in 1..Len(trees)
      /\ target \in [0..MaxCommits -> 0..MaxCommits]
  BY <1>1, RunHere DEF Tracks, Drawn, RunPlaced, StoreTyped
<1>3. target'[bookmark] = run.pin /\ \A c \in 0..MaxCommits : c # bookmark => target'[c] = target[c]
  BY <1>1, <1>2
<1>4. Stored'
  <2>1. \A p \in banked[bookmark] : Settled(p, run.pin)
    BY <1>2 DEF Tracks, Stored
  <2>2. \A c \in 0..MaxCommits : target'[c] <= Len(trees) /\ (c > bookmark => target'[c] = 0)
    BY <1>2, <1>3, RunHere DEF Tracks, Stored
  <2>3. \A p \in banked'[bookmark'] : Settled(p, target[bookmark])'
    BY <1>1, <1>3, <2>1 DEF Settled, At, Live, repo
  <2> QED  BY <1>1, <1>2, <1>3, <2>2, <2>3 DEF Tracks, Stored, repo
<1>5. History' /\ Passed' /\ LeftOver' /\ Ready'
  BY <1>1 DEF Tracks, History, Passed, LeftOver, Ready, Settled, At, Live, repo, SameRun, To
<1>6. Drawn' /\ Worked'
  BY <1>1, <1>2, <1>3 DEF Tracks, Drawn, Worked, Settled, At, Live, repo, SameRun, From
<1> QED  BY <1>4, <1>5, <1>6 DEF Tracks

(* Listing the files of a full import: a file it leaves out is settled,    *)
(* or the list of import-checkpoint.json was wrong about it.               *)
LEMMA WalkTracks ==
  ASSUME TypeInv, Ordered, Tracks, Walk, upsets' = {}
  PROVE  Tracks'
<1>1. /\ SameRun /\ run.full /\ run'.pc = "drain" /\ run'.imports = Listed
      /\ UNCHANGED <<repo, store>> /\ Skipped = {}
  BY WalkMoves
<1>2. \A p \in Paths : p \in Listed \/ Live[p] \in {0, pages[p]}
  BY <1>1 DEF Listed, Skipped
<1>3. History' /\ Passed' /\ Stored' /\ Ready'
  BY <1>1 DEF Tracks, History, Passed, Stored, Ready, Settled, At, Live, repo, store
<1>4. LeftOver'
  BY <1>1, <1>2 DEF LeftOver, Settled, Live, repo, store
<1>5. Drawn' /\ Worked'
  BY <1>1 DEF Tracks, Drawn, Worked, SameRun
<1> QED  BY <1>3, <1>4, <1>5 DEF Tracks

(* A step of the drain.                                                    *)
LEMMA DrainTracks ==
  ASSUME TypeInv, TypeInv', Ordered, Tracks, DrainMove, upsets' = {}
  PROVE  Tracks'
<1>1. /\ run.pc = "drain" /\ run'.pc = "drain"
      /\ UNCHANGED <<repo, bookmark, target, banked, walked, ledger>>
      /\ run'.full = run.full /\ run'.last = run.last /\ run'.pin = run.pin
      /\ run'.deletes \subseteq run.deletes /\ run'.renames \subseteq run.renames
      /\ run.failed \subseteq run'.failed
      /\ \A p \in Paths : \/ pages'[p] = pages[p] \/ NowIndexed(p)
                          \/ p \in run.deletes \cup From(run.renames)
      /\ \A p \in To(run.renames) \cup run.imports :
           p \in To(run'.renames) \cup run'.imports \cup run'.failed \/ NowIndexed(p)
      /\ \A p \in run'.fixed : p \in run.fixed \/ NowIndexed(p)
      /\ \A p \in run'.pending : p \in run.pending \cup run.deletes \/ NowIndexed(p)
  BY DEF DrainMove
<1>2. /\ run.pin \in 0..Len(trees) /\ bookmark \in 0..Len(trees) /\ bookmark <= run.pin
      /\ bookmark \in 0..MaxCommits
      /\ banked[bookmark] \subseteq Paths /\ target[bookmark] \in 0..Len(trees)
      /\ run'.pending \subseteq Paths /\ run'.fixed \subseteq Paths
  <2>1. /\ bookmark \in 0..MaxCommits /\ run.pin \in 0..Len(trees) /\ bookmark \in 0..Len(trees)
        /\ bookmark <= run.pin
    BY <1>1, RunHere, RunFields DEF StoreTyped, Ordered, PinAhead
  <2>2. run'.pending \subseteq Paths /\ run'.fixed \subseteq Paths
    BY RunFields DEF TypeInv
  <2> QED  BY <2>1, <2>2, RunHere DEF StoreTyped, Tracks, Stored
<1>3. \A p \in run.deletes \cup From(run.renames) : At(run.pin)[p] = 0 /\ ~ run.full
  BY DEF Tracks, Worked, From
<1> DEFINE Still(p, c) == Live'[p] \in {0, pages'[p]} \/ At(c)[p] # Live'[p]
<1>4. /\ Live' = Live /\ \A c : At(c)' = At(c)
      /\ \A p, c : NowIndexed(p) => Still(p, c)
  BY <1>1 DEF Live, At, repo, NowIndexed
<1>5. \A p \in Paths : Settled(p, run.pin) => Still(p, run.pin)
  BY <1>1, <1>3, <1>4 DEF Settled, NowIndexed
<1>6. \A p \in Paths : Settled(p, bookmark) => Still(p, bookmark)
  <2> SUFFICES ASSUME NEW p \in Paths, Settled(p, bookmark) PROVE Still(p, bookmark)
    OBVIOUS
  <2>1. CASE pages'[p] = pages[p] \/ NowIndexed(p)
    BY <1>4, <2>1 DEF Settled, NowIndexed
  <2>2. CASE p \in run.deletes \cup From(run.renames)
    <3>1. Settled(p, run.pin)'
      BY <1>1, <1>3, <2>2, <1>4 DEF Settled, At
    <3>2. At(run.pin)[p] = 0
      BY <1>3, <2>2
    <3>3. Live[p] # 0 => At(bookmark)[p] # Live[p]
      <4> SUFFICES ASSUME Live[p] # 0, At(bookmark)[p] = Live[p] PROVE FALSE
        OBVIOUS
      <4>1. head \in 0..Len(trees) /\ run.pin <= head /\ At(head)[p] = Live[p]
        BY <1>2, RunHere, AtType DEF Ordered, Straight
      <4> QED  BY <1>2, <3>2, <4>1, Stays DEF Tracks
    <3> QED  BY <1>4, <3>3
  <2> QED  BY <1>1, <2>1, <2>2
<1> HIDE DEF Still
<1>7. \A p, c : Still(p, c) => Live'[p] \in {0, pages'[p]} \/ At(c)'[p] # Live'[p]
  BY <1>4 DEF Still
<1>8. History'
  BY <1>1, <1>4 DEF Tracks, History, repo
<1>9. Passed'
  <2>1. \A p \in Paths : Still(p, bookmark) \/ ledger[p] # NoRow
    BY <1>6 DEF Tracks, Passed
  <2> QED  BY <1>1, <1>7, <2>1 DEF Passed, Settled, At
<1>10. Stored'
  <2>1. target[bookmark] # 0 => \A p \in banked[bookmark] : Still(p, target[bookmark])
    <3>1. CASE run.full
      <4>1. \A p \in Paths : pages'[p] = pages[p] \/ NowIndexed(p)
        BY <1>1, <1>3, <3>1
      <4>2. \A p \in Paths : \A c : Settled(p, c) => Still(p, c)
        BY <1>4, <4>1 DEF Settled, Still, NowIndexed
      <4> QED  BY <1>2, <4>2 DEF Tracks, Stored
    <3>2. CASE ~ run.full
      <4>1. target[bookmark] = run.pin
        BY <1>1, <3>2 DEF Tracks, Drawn
      <4> QED  BY <1>2, <1>5, <4>1 DEF Tracks, Stored
    <3> QED  BY <3>1, <3>2
  <2>2. target'[bookmark'] # 0 => \A p \in banked'[bookmark'] : Settled(p, target[bookmark])'
    BY <1>1, <1>7, <2>1 DEF Settled, At
  <2> QED  BY <1>1, <2>2 DEF Tracks, Stored, repo
<1>11. LeftOver'
  <2>1. \A p \in Paths : \/ p \in To(run'.renames) \cup run'.imports \cup run'.failed
                         \/ Still(p, run.pin)
                         \/ ~ run.full /\ ledger[p] # NoRow
    BY <1>1, <1>4, <1>5 DEF Tracks, LeftOver
  <2> QED  BY <1>1, <1>7, <2>1 DEF LeftOver, Settled, At
<1>12. Worked'
  <2>1. \A p \in run.deletes \cup From(run.renames) : Still(p, run.pin)
    BY <1>3, <1>4 DEF Still
  <2>2. ~ run.full => \A p \in run'.fixed \cup run'.pending : Still(p, run.pin)
    BY <1>1, <1>2, <1>4, <1>5, <2>1 DEF Tracks, Worked
  <2>3. run.full => run'.deletes = {} /\ run'.renames = {}
    BY <1>1 DEF Tracks, Worked
  <2>4. ~ run.full => \A p \in run'.deletes \cup From(run'.renames) : At(run.pin)'[p] = 0
    <3>1. run'.deletes \cup From(run'.renames) \subseteq run.deletes \cup From(run.renames)
      BY <1>1 DEF From
    <3>2. \A p \in run'.deletes \cup From(run'.renames) : At(run.pin)[p] = 0
      BY <1>3, <3>1
    <3> QED  BY <1>1, <3>2 DEF At, repo
  <2> QED  BY <1>1, <1>7, <2>2, <2>3, <2>4 DEF Worked, Settled, At, repo
<1>13. Drawn' /\ Ready'
  BY <1>1 DEF Tracks, Drawn, Ready
<1> QED  BY <1>8, <1>9, <1>10, <1>11, <1>12, <1>13 DEF Tracks

(* Banking what is done: it is settled at the stored target.               *)
LEMMA BankTracks ==
  ASSUME TypeInv, Ordered, Tracks, UNCHANGED <<repo, pages, bookmark, target>>,
         \/ banked' = banked
         \/ \E paths \in SUBSET run.pending : ~ run.full /\ Saved(paths)
  PROVE  Stored' /\ History'
<1>1. CASE banked' = banked
  BY <1>1 DEF Tracks, Stored, History, Settled, At, Live, repo
<1>2. ASSUME NEW paths \in SUBSET run.pending, ~ run.full, Saved(paths)
      PROVE  Stored' /\ History'
  <2>1. paths \in SUBSET Paths
    BY RunHere
  <2>2. /\ banked'[run.last] = banked[run.last] \cup paths
        /\ \A c \in 0..MaxCommits \ {run.last} : banked'[c] = banked[c]
    BY <1>2, <2>1, SavedType
  <2>3. CASE run.pc = "drain"
    <3>1. /\ run.last = bookmark /\ target[bookmark] = run.pin /\ bookmark \in 0..MaxCommits
          /\ run.pin \in 1..Len(trees)
      BY <1>2, <2>3, RunHere DEF Tracks, Drawn, RunPlaced
    <3>2. \A p \in banked[bookmark] \cup paths : Settled(p, target[bookmark])
      <4>1. \A p \in paths : Settled(p, run.pin)
        BY <1>2, <2>3 DEF Tracks, Worked
      <4>2. target[bookmark] # 0
        BY <3>1
      <4> QED  BY <3>1, <4>1, <4>2 DEF Tracks, Stored
    <3>3. \A p \in banked'[bookmark'] : Settled(p, target[bookmark])'
      BY <2>2, <3>1, <3>2 DEF Settled, At, Live, repo
    <3>4. \A c \in 0..MaxCommits : c > bookmark => banked'[c] = {}
      BY <2>2, <3>1, RunHere DEF Tracks, Stored, StoreTyped
    <3> QED  BY <3>1, <3>3, <3>4 DEF Tracks, Stored, History, At, repo
  <2>4. CASE run.pc # "drain"
    <3>1. paths = {}
      BY <2>4, RunHere DEF RunPlaced
    <3>2. \A c \in 0..MaxCommits : banked'[c] = banked[c]
      BY <2>2, <3>1
    <3>3. bookmark \in 0..MaxCommits
      BY RunHere DEF StoreTyped
    <3> QED  BY <3>2, <3>3 DEF Tracks, Stored, History, Settled, At, Live, repo
  <2> QED  BY <2>3, <2>4
<1> QED  BY <1>1, <1>2

(* A flush.                                                                *)
LEMMA FlushTracks ==
  ASSUME TypeInv, Ordered, Tracks, Flush
  PROVE  Tracks'
<1>1. /\ SameRun /\ run.pc = "drain" /\ run'.pc = "drain" /\ run'.imports = run.imports
      /\ UNCHANGED <<repo, pages, bookmark, target, ledger>>
      /\ \/ run'.pending = {} /\ Saved(run.pending)
         \/ run'.pending = run.pending /\ UNCHANGED <<banked, walked>>
  BY FlushMoves
<1>2. Stored' /\ History'
  <2>1. \/ banked' = banked
        \/ \E paths \in SUBSET run.pending : ~ run.full /\ Saved(paths)
    BY <1>1 DEF Saved
  <2> QED  BY <1>1, <2>1, BankTracks
<1>3. Passed' /\ LeftOver' /\ Ready'
  BY <1>1 DEF Tracks, Passed, LeftOver, Ready, Settled, At, Live, repo, SameRun, To
<1>4. Drawn' /\ Worked'
  BY <1>1 DEF Tracks, Drawn, Worked, Settled, At, Live, repo, SameRun, From
<1> QED  BY <1>2, <1>3, <1>4 DEF Tracks

(* A run that is over is behind no file.                                   *)
LEMMA IdleTracks ==
  ASSUME run' = Idle
  PROVE  Drawn' /\ Worked' /\ LeftOver' /\ Ready'
<1>1. Idle.pc = "idle" /\ Idle.full = FALSE /\ Idle.deletes = {} /\ Idle.renames = {}
  BY IdleType
<1> QED  BY <1>1 DEF Drawn, Worked, LeftOver, Ready, From

(* A run cut short.                                                        *)
LEMMA StopTracks ==
  ASSUME TypeInv, Ordered, Tracks, Stop
  PROVE  Tracks'
<1>1. /\ run' = Idle /\ UNCHANGED <<repo, pages, bookmark, target, ledger>>
      /\ \E paths \in SUBSET run.pending : Saved(paths) \/ UNCHANGED banked
  BY StopMoves
<1>2. Stored' /\ History'
  <2>1. \/ banked' = banked
        \/ \E paths \in SUBSET run.pending : ~ run.full /\ Saved(paths)
    BY <1>1 DEF Saved
  <2> QED  BY <1>1, <2>1, BankTracks
<1>3. Passed'
  BY <1>1 DEF Tracks, Passed, Settled, At, Live, repo
<1> QED  BY <1>1, <1>2, <1>3, IdleTracks DEF Tracks

(* The gate drops a row only when the file is settled at the pin, and what *)
(* is not settled there has a row.                                         *)
LEMMA GateSettles ==
  ASSUME TypeInv, Ordered, Tracks, Gate
  PROVE  \A p \in Paths : /\ Settled(p, run.pin) \/ ledger'[p] # NoRow
                          /\ ledger[p] # NoRow /\ ledger'[p] = NoRow => Settled(p, run.pin)
<1>1. /\ run.pc = "drain" /\ run.deletes = {} /\ run.renames = {} /\ run.imports = {}
      /\ run.pin \in Commits /\ ledger' = Recorded(Resolved, run.failed, run.pin)
  BY GateMoves
<1> SUFFICES ASSUME NEW p \in Paths, ledger'[p] = NoRow
             PROVE  Settled(p, run.pin)
  OBVIOUS
<1>2. p \notin run.failed /\ (p \in Resolved \/ ledger[p] = NoRow)
  BY <1>1, RecordedType
<1>3. \/ Settled(p, run.pin)
      \/ ~ run.full /\ ledger[p] # NoRow
  BY <1>1, <1>2 DEF Tracks, LeftOver, To
<1>4. CASE ~ run.full /\ p \in Resolved
  <2>1. p \in run.fixed \/ p \in Gone(run.last, run.pin)
    BY <1>4, DiffType DEF Resolved
  <2>2. CASE p \in run.fixed
    BY <1>1, <1>4, <2>2 DEF Tracks, Worked
  <2>3. CASE p \in Gone(run.last, run.pin)
    BY <2>3 DEF Gone, Settled
  <2> QED  BY <2>1, <2>2, <2>3
<1> QED  BY <1>2, <1>3, <1>4

(* The gate.                                                               *)
LEMMA GateTracks ==
  ASSUME TypeInv, Ordered, Tracks, Gate
  PROVE  Tracks'
<1>1. /\ run.pc = "drain" /\ run.deletes = {} /\ run.renames = {}
      /\ UNCHANGED <<repo, pages, bookmark, target>>
      /\ run.full => banked' = banked
      /\ ~ run.full => \E paths \in SUBSET run.pending : Saved(paths)
      /\ run' = Idle \/ (run'.pc = "advance" /\ SameRun)
  BY GateMoves
<1>2. Stored' /\ History'
  BY <1>1, BankTracks
<1>3. /\ run.pin \in 0..Len(trees) /\ bookmark \in 0..Len(trees) /\ bookmark <= run.pin
  BY <1>1, RunHere, RunFields DEF StoreTyped, Ordered, PinAhead
<1>4. Passed'
  <2>1. \A p \in Paths : Settled(p, bookmark) \/ ledger'[p] # NoRow
    BY <1>3, GateSettles, SettledEarlier DEF Tracks
  <2> QED  BY <1>1, <2>1 DEF Passed, Settled, At, Live, repo
<1>5. CASE run' = Idle
  BY <1>2, <1>4, <1>5, IdleTracks DEF Tracks
<1>6. CASE run'.pc = "advance" /\ SameRun
  <2>1. Ready'
    BY <1>1, <1>6, GateSettles DEF Ready, Settled, At, Live, repo, SameRun
  <2>2. Drawn' /\ Worked' /\ LeftOver'
    BY <1>1, <1>6 DEF Tracks, Drawn, Worked, LeftOver, SameRun, From
  <2> QED  BY <1>2, <1>4, <2>1, <2>2 DEF Tracks
<1> QED  BY <1>1, <1>5, <1>6

(* Moving the bookmark passes no file: what is not settled at the pin has  *)
(* a row.                                                                  *)
LEMMA BookmarkTracks ==
  ASSUME TypeInv, Ordered, Tracks, MoveBookmark
  PROVE  Tracks'
<1>1. /\ SameRun /\ run.pc = "advance" /\ bookmark' = run.pin
      /\ run'.pc = IF run.full THEN "mark" ELSE "clearPaths"
      /\ UNCHANGED <<repo, pages, target, banked, walked, ledger>>
  BY BookmarkMoves
<1>2. /\ bookmark <= run.pin /\ run.pin \in 0..MaxCommits /\ bookmark \in 0..MaxCommits
      /\ ~ run.full => run.last < run.pin
  BY <1>1, RunHere, RunFields DEF StoreTyped, Ordered, PinAhead, Tracks, Drawn
<1>3. History'
  BY <1>1 DEF Tracks, History, At, repo
<1>4. Passed'
  BY <1>1 DEF Tracks, Ready, Passed, Settled, At, Live, repo
<1>5. Stored'
  <2>1. CASE run.pin = bookmark
    BY <1>1, <2>1 DEF Tracks, Stored, Settled, At, Live, repo
  <2>2. CASE run.pin > bookmark
    <3>1. target[run.pin] = 0 /\ banked[run.pin] = {}
      BY <1>2, <2>2 DEF Tracks, Stored
    <3>2. \A c \in 0..MaxCommits : c > run.pin => c > bookmark
      BY <1>2
    <3> QED  BY <1>1, <3>1, <3>2 DEF Tracks, Stored, repo
  <2> QED  BY <1>2, <2>1, <2>2
<1>6. Drawn' /\ Worked' /\ LeftOver' /\ Ready'
  BY <1>1, <1>2 DEF Tracks, Drawn, Worked, LeftOver, Ready, SameRun, From, At, repo
<1> QED  BY <1>3, <1>4, <1>5, <1>6 DEF Tracks

(* Clearing the checkpoint of the commit the bookmark left.                *)
LEMMA ClearTracks ==
  ASSUME TypeInv, Ordered, Tracks, ClearPaths \/ ClearTarget
  PROVE  Tracks'
<1>1. /\ SameRun /\ ~ run.full
      /\ run.pc \in {"clearPaths", "clearTarget"} /\ run'.pc \in {"clearTarget", "mark"}
      /\ UNCHANGED <<repo, pages, bookmark, walked, ledger>>
      /\ banked' \in {banked, [banked EXCEPT ![run.last] = {}]}
      /\ target' \in {target, [target EXCEPT ![run.last] = 0]}
  BY ClearMoves
<1>2. /\ run.last < bookmark /\ run.last \in 0..MaxCommits /\ bookmark \in 0..MaxCommits
      /\ target \in [0..MaxCommits -> 0..MaxCommits]
      /\ banked \in [0..MaxCommits -> SUBSET Paths]
  BY <1>1, RunHere DEF Tracks, Drawn, StoreTyped
<1>3. /\ target'[bookmark] = target[bookmark] /\ banked'[bookmark] = banked[bookmark]
      /\ \A c \in 0..MaxCommits : /\ target'[c] \in {0, target[c]}
                                  /\ banked'[c] \in {{}, banked[c]}
  <2>1. run.last # bookmark
    BY <1>2
  <2>2. target'[bookmark] = target[bookmark] /\ \A c \in 0..MaxCommits : target'[c] \in {0, target[c]}
    BY <1>1, <1>2, <2>1
  <2>3. banked'[bookmark] = banked[bookmark] /\ \A c \in 0..MaxCommits : banked'[c] \in {{}, banked[c]}
    <3>1. CASE banked' = banked
      BY <3>1
    <3>2. CASE banked' = [banked EXCEPT ![run.last] = {}]
      BY <1>2, <2>1, <3>2
    <3> QED  BY <1>1, <3>1, <3>2
  <2> QED  BY <2>2, <2>3
<1>4. Stored'
  <2>1. target[bookmark] # 0 => \A p \in banked'[bookmark'] : Settled(p, target[bookmark])'
    BY <1>1, <1>3 DEF Tracks, Stored, Settled, At, Live, repo
  <2>2. \A c \in 0..MaxCommits : /\ target'[c] <= Len(trees)
                                 /\ c > bookmark => banked'[c] = {} /\ target'[c] = 0
    BY <1>3, RunHere DEF Tracks, Stored
  <2> QED  BY <1>1, <1>3, <2>1, <2>2 DEF Tracks, Stored, repo
<1>5. History' /\ Passed' /\ LeftOver' /\ Ready'
  BY <1>1 DEF Tracks, History, Passed, LeftOver, Ready, Settled, At, Live, repo
<1>6. Drawn' /\ Worked'
  BY <1>1, <1>2 DEF Tracks, Drawn, Worked, At, repo, SameRun, From
<1> QED  BY <1>4, <1>5, <1>6 DEF Tracks

(* Giving rows up drops none.                                              *)
LEMMA MarkTracks ==
  ASSUME TypeInv, Ordered, Tracks, MarkSkipped
  PROVE  Tracks'
<1>1. /\ run.pc = "mark" /\ UNCHANGED <<repo, pages, bookmark, target, banked, walked>>
      /\ \/ run'.pc = "reconcile" /\ run.full /\ SameRun
         \/ run' = Idle
      /\ \A p \in Paths : ledger'[p] = NoRow <=> ledger[p] = NoRow
  BY MarkMoves
<1>2. History' /\ Passed' /\ Stored'
  BY <1>1 DEF Tracks, History, Passed, Stored, Settled, At, Live, repo
<1>3. CASE run' = Idle
  BY <1>2, <1>3, IdleTracks DEF Tracks
<1>4. CASE run'.pc = "reconcile" /\ run.full /\ SameRun
  <2>1. Drawn' /\ Worked' /\ LeftOver' /\ Ready'
    BY <1>4 DEF Tracks, Drawn, Worked, LeftOver, Ready, SameRun
  <2> QED  BY <1>2, <2>1 DEF Tracks
<1> QED  BY <1>1, <1>3, <1>4

(* Acknowledging rows drops none either.                                   *)
LEMMA AcknowledgeTracks ==
  ASSUME TypeInv, Ordered, Tracks, AcknowledgeAll
  PROVE  Tracks'
<1>1. /\ UNCHANGED <<repo, pages, bookmark, target, banked, walked, run>>
      /\ \A p \in Paths : ledger'[p] = NoRow <=> ledger[p] = NoRow
  BY AcknowledgeMoves
<1>2. History' /\ Passed' /\ Stored'
  BY <1>1 DEF Tracks, History, Passed, Stored, Settled, At, Live, repo
<1>3. Drawn' /\ Worked' /\ LeftOver' /\ Ready'
  BY <1>1 DEF Tracks, Drawn, Worked, LeftOver, Ready, Settled, At, Live, repo
<1> QED  BY <1>2, <1>3 DEF Tracks

(* Dropping the pages of files that are gone leaves every file settled.    *)
LEMMA ReconcileTracks ==
  ASSUME TypeInv, Ordered, Tracks, Reconcile
  PROVE  Tracks'
<1>1. /\ run' = Idle /\ UNCHANGED <<repo, bookmark, target, banked, walked, ledger>>
      /\ \A p \in Paths : pages'[p] = pages[p] \/ NowIndexed(p)
  BY ReconcileMoves
<1>2. /\ History'
      /\ \A p \in Paths : \A c : Settled(p, c) => Live'[p] \in {0, pages'[p]} \/ At(c)'[p] # Live'[p]
  BY <1>1, QuietKeeps DEF Tracks, Quiet
<1>3. Passed'
  BY <1>1, <1>2 DEF Tracks, Passed, Settled, At
<1>4. bookmark \in 0..MaxCommits /\ banked[bookmark] \subseteq Paths
  BY RunHere DEF StoreTyped
<1>5. Stored'
  BY <1>1, <1>2, <1>4 DEF Tracks, Stored, Settled, At, repo
<1> QED  BY <1>1, <1>2, <1>3, <1>5, IdleTracks DEF Tracks

(* Every step of a sync that is no upset loses no file.                    *)
LEMMA WorkTracks ==
  ASSUME TypeInv, Ordered, Tracks, Work \/ Stop, upsets' = {}
  PROVE  Tracks'
<1>1. CASE \E p \in Paths : DeletePage(p) \/ ImportPage(p)
  BY <1>1, DeleteMoves, ImportMoves, DrainTracks
<1>2. CASE \E f, t \in Paths : RenamePage(f, t)
  BY <1>2, RenameMoves, DrainTracks
<1> QED  BY <1>1, <1>2, PinTracks, WalkTracks, FlushTracks, GateTracks, BookmarkTracks, ClearTracks,
            MarkTracks, ReconcileTracks, StopTracks DEF Work

(* No step loses a file while none of the upsets has happened.             *)
LEMMA TracksKept == TypeInv /\ OrderInv /\ TrackInv /\ [Next]_vars => TrackInv'
<1> SUFFICES ASSUME TypeInv, OrderInv, TrackInv, [Next]_vars, upsets' = {}
             PROVE  Tracks'
  BY DEF TrackInv
<1>1. Ordered /\ Tracks
  BY UpsetsGrow DEF OrderInv, TrackInv
<1>2. CASE UNCHANGED vars
  BY <1>1, <1>2 DEF vars, repo, store, Tracks, History, Stored, Drawn, Worked, LeftOver, Ready,
     Passed, Settled, At, Live
<1>3. CASE Author
  BY <1>1, <1>3, AuthorTracks
<1>4. CASE \E skip \in BOOLEAN : StartFull(skip) \/ StartIncremental(skip)
  BY <1>1, <1>4, StartTracks
<1>5. CASE Work \/ Stop
  BY <1>1, <1>5, WorkTracks
<1>6. CASE AcknowledgeAll
  BY <1>1, <1>6, AcknowledgeTracks
<1> QED  BY <1>2, <1>3, <1>4, <1>5, <1>6 DEF Next

(* Before the first sync every file differs from the empty tree.           *)
LEMMA InitTracks == Init => TrackInv
<1> SUFFICES ASSUME Init PROVE Tracks
  BY DEF TrackInv
<1>1. PICK tree \in [Paths -> {0, 1}] : trees = <<tree>>
  BY DEF Init
<1>2. /\ Len(trees) = 1 /\ head = 1 /\ bookmark = 0 /\ At(1) = tree /\ At(0) = [p \in Paths |-> 0]
      /\ target = [c \in 0..MaxCommits |-> 0] /\ banked = [c \in 0..MaxCommits |-> {}]
      /\ pages = [p \in Paths |-> 0] /\ Live = tree
  BY <1>1 DEF Init, At, Live
<1>3. run.pc = "idle" /\ run.full = FALSE /\ run.deletes = {} /\ run.renames = {}
  BY IdleType DEF Init
<1>4. History
  BY <1>1, <1>2 DEF History
<1>5. Stored
  BY <1>2, SyncAssumption DEF Stored
<1>6. Passed
  BY <1>1, <1>2 DEF Passed, Settled
<1> QED  BY <1>3, <1>4, <1>5, <1>6 DEF Tracks, Drawn, Worked, LeftOver, Ready, From

(* The invariants together.                                                *)
LEMMA SyncInvariant == Spec => [](TypeInv /\ OrderInv /\ TrackInv)
BY InitType, TypeKept, InitOrder, OrderKept, InitTracks, TracksKept, PTL DEF Spec

(* A file the brain does not hold is shown by the next diff or has a row   *)
(* in the ledger: through crashes, aborts, failed flushes, lost clears and *)
(* commits that land in the middle of a run, the bookmark of               *)
(* performSyncInner never passes a file unnoticed, unless one of the five  *)
(* upsets happens.                                                         *)
THEOREM NoFileIsLost == Spec => []EveryFileTracked
<1>1. TypeInv /\ OrderInv /\ TrackInv => EveryFileTracked
  BY DEF TrackInv, Tracks, Passed, Settled, EveryFileTracked, Tracked
<1> QED  BY <1>1, SyncInvariant, PTL

(* What loadOpCheckpoint makes a resumed run leave out is done.            *)
THEOREM BankedStaysDone == Spec => []BankedIsDone
<1>1. TypeInv /\ OrderInv /\ TrackInv => BankedIsDone
  BY DEF TrackInv, Tracks, Stored, Settled, BankedIsDone
<1> QED  BY <1>1, SyncInvariant, PTL

(* _recordAndClear drops the row of a file only when the brain has the     *)
(* file, or the file changed after the commit the run drained to.          *)
THEOREM RowsAreKept == Spec => RowsClearWhenIndexed
<1> DEFINE Kept == \A p \in Paths :
                     /\ upsets = {} /\ ledger[p] # NoRow /\ ledger'[p] = NoRow
                     => Live[p] \in {0, pages[p]} \/ trees[run.pin][p] # Live[p]
<1>1. TypeInv /\ OrderInv /\ TrackInv /\ [Next]_vars => [Kept]_vars
  <2> SUFFICES ASSUME TypeInv, OrderInv, TrackInv, [Next]_vars, NEW p \in Paths,
                      upsets = {}, ledger[p] # NoRow, ledger'[p] = NoRow
               PROVE  Live[p] \in {0, pages[p]} \/ trees[run.pin][p] # Live[p]
    OBVIOUS
  <2>1. Ordered /\ Tracks
    BY DEF OrderInv, TrackInv
  <2>2. CASE Gate
    <3>1. Settled(p, run.pin) /\ run.pin \in Commits
      BY <2>1, <2>2, GateSettles, GateMoves
    <3> QED  BY <3>1, RunHere DEF Settled, At, Commits
  <2>3. CASE UNCHANGED ledger
    BY <2>3
  <2>4. CASE MarkSkipped
    BY <2>4, MarkMoves
  <2>5. CASE AcknowledgeAll
    BY <2>5, AcknowledgeMoves
  <2>6. Gate \/ MarkSkipped \/ AcknowledgeAll \/ UNCHANGED ledger
    <3>1. CASE UNCHANGED vars
      BY <3>1 DEF vars, store
    <3>2. CASE Author
      BY <3>2 DEF Author, Edit, Remove, Move, Restore, Rewrite, Extend, store
    <3>3. CASE \E skip \in BOOLEAN : StartFull(skip) \/ StartIncremental(skip)
      BY <3>3, StartType
    <3>4. CASE PersistPin \/ Walk \/ Flush \/ MoveBookmark \/ ClearPaths \/ ClearTarget
               \/ Reconcile \/ Stop
      BY <3>4, PinMoves, WalkMoves, FlushMoves, BookmarkMoves, ClearMoves, ReconcileMoves,
         StopMoves DEF store
    <3>5. CASE \E q \in Paths : DeletePage(q) \/ ImportPage(q)
      BY <3>5 DEF DeletePage, ImportPage, Keep
    <3>6. CASE \E f, t \in Paths : RenamePage(f, t)
      BY <3>6 DEF RenamePage, Keep
    <3> QED  BY <3>1, <3>2, <3>3, <3>4, <3>5, <3>6 DEF Next, Work
  <2> QED  BY <2>2, <2>3, <2>4, <2>5, <2>6
<1> QED  BY <1>1, SyncInvariant, PTL DEF Spec, RowsClearWhenIndexed
=============================================================================
