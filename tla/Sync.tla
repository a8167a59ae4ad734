-------------------------------- MODULE Sync --------------------------------
(***************************************************************************)
(* The git-to-brain sync of one source: performSyncInner and               *)
(* performFullSync of commands/sync.ts, with the resumable checkpoint of   *)
(* core/op-checkpoint.ts, the import checkpoint of core/import-checkpoint  *)
(* and the failure ledger of core/sync-failure-ledger.ts.  The per-source  *)
(* lock (module DbLock) lets one sync run at a time; the repository moves  *)
(* under it at every moment, because other tools commit to it.             *)
(*                                                                         *)
(* A commit is its number.  The content of a file is the number of the     *)
(* commit that wrote it, 0 when there is no file (and no page).  A page is *)
(* named by the path it was imported from.  Everything but "run" is        *)
(* durable: a crash forgets "run" and nothing else.                        *)
(***************************************************************************)
EXTENDS Integers, Sequences, FiniteSets

CONSTANTS Paths,        \* the syncable files of the source
          Poison,       \* commits whose contents never import (a parse error)
          Stuck,        \* paths whose page can never be deleted
          Threshold,    \* consecutive failures that make a file chronic
          MaxMisses,    \* consecutive failed flushes that end a run
          MaxCommits,   \* bound: commits ever made
          MaxFaults     \* bound: crashes, aborts, transient failures, commits
                        \* that turn the history back, and acknowledgements
                        \* from outside a run

ASSUME SyncAssumption ==
  /\ Threshold \in Nat \ {0} /\ MaxMisses \in Nat \ {0}
  /\ MaxCommits \in Nat \ {0} /\ MaxFaults \in Nat
  /\ Poison \subseteq Nat /\ Stuck \subseteq Paths

VARIABLES
  trees,     \* the tree of every commit ever made
  moves,     \* for every commit, the rename it made, or NoMove
  branch,    \* the commits HEAD descends from, itself included
  head,      \* HEAD
  pages,     \* the content indexed for every path
  bookmark,  \* last_commit of the source, 0 before the first sync
  target,    \* checkpoint: the pinned target stored under each last_commit
  banked,    \* checkpoint: the paths banked under each last_commit
  walked,    \* import-checkpoint.json: paths a full import has done
  ledger,    \* sync-failures.jsonl: the row of every path
  run,       \* the locals of the running sync
  faults,    \* counts what MaxFaults bounds
  upsets     \* which of the events under "Upset" have happened

repo    == <<trees, moves, branch, head>>
store   == <<pages, bookmark, target, banked, walked, ledger>>
vars    == <<repo, store, run, faults, upsets>>

Commits == 1..MaxCommits
NoMove  == <<>>
NoRow   == [state |-> "none", attempts |-> 0, commit |-> 0]
Row     == {NoRow} \cup [state    : {"open", "acknowledged", "auto_skipped"},
                         attempts : 1..Threshold,
                         commit   : Commits]

Idle == [pc |-> "idle", full |-> FALSE, skip |-> FALSE, last |-> 0, pin |-> 0,
         deletes |-> {}, renames |-> {}, imports |-> {}, pending |-> {},
         failed |-> {}, fixed |-> {}, chronic |-> {}, sentinel |-> FALSE,
         threw |-> FALSE, misses |-> 0]

At(c) == IF c = 0 THEN [p \in Paths |-> 0] ELSE trees[c]
Live  == trees[head]

-----------------------------------------------------------------------------
(* Faults are bounded so that a behaviour has finitely many of them.       *)
Fault   == faults < MaxFaults /\ faults' = faults + 1
NoFault == UNCHANGED faults

(* An upset is an event after which the code can lose track of a file; the *)
(* properties name the upsets they exclude.                                *)
Upset(kind) == upsets' = upsets \cup {kind}
Calm        == UNCHANGED upsets

-----------------------------------------------------------------------------
(* The repository.  New commits reach HEAD from the tools that write to    *)
(* it, or from a pull at the start of a run.                               *)
Next_commit == Len(trees) + 1

Extend(tree, move) ==
  /\ Next_commit <= MaxCommits
  /\ trees'  = Append(trees, tree)
  /\ moves'  = Append(moves, move)
  /\ branch' = branch \cup {Next_commit}
  /\ head'   = Next_commit
  /\ UNCHANGED <<store, run>>

Edit(p) ==
  /\ Extend([Live EXCEPT ![p] = Next_commit], NoMove)
  /\ Calm /\ NoFault

Remove(p) ==
  /\ Live[p] # 0
  /\ Extend([Live EXCEPT ![p] = 0], NoMove)
  /\ Calm /\ NoFault

Move(f, t) ==
  /\ Live[f] # 0 /\ Live[t] = 0 /\ f # t
  /\ Extend([Live EXCEPT ![f] = 0, ![t] = Next_commit], <<f, t>>)
  /\ Calm /\ NoFault

(* A commit that brings an earlier content of a file back (git revert).    *)
Restore(p) ==
  /\ \E c \in branch :
       /\ trees[c][p] \notin {0, Live[p]}
       /\ Extend([Live EXCEPT ![p] = trees[c][p]], NoMove)
  /\ Upset("revert") /\ Fault

(* HEAD goes back to an ancestor: a reset, or a force-push pulled in.      *)
Rewrite ==
  /\ \E c \in branch \ {head} :
       /\ head'   = c
       /\ branch' = {b \in branch : b <= c}
  /\ Upset("rewrite") /\ Fault
  /\ UNCHANGED <<trees, moves, store, run>>

-----------------------------------------------------------------------------
(* computeSyncDelta: the manifest of the endpoints' trees.                 *)
Gone(a, b)    == {p \in Paths : At(a)[p] # 0 /\ At(b)[p] = 0}
Added(a, b)   == {p \in Paths : At(a)[p] = 0 /\ At(b)[p] # 0}
Changed(a, b) == {p \in Paths : At(a)[p] # 0 /\ At(b)[p] # 0 /\ At(a)[p] # At(b)[p]}

(* git -M pairs a file that went with one that came when the content is    *)
(* that of the move; a file is the source of one rename at most.           *)
Renamed(a, b) ==
  {m \in Gone(a, b) \X Added(a, b) :
     /\ moves[At(b)[m[2]]] = m
     /\ \A t \in Added(a, b) : moves[At(b)[t]] = <<m[1], t>> => At(b)[t] <= At(b)[m[2]]}

From(renames) == {m[1] : m \in renames}
To(renames)   == {m[2] : m \in renames}

Deleted(a, b)  == Gone(a, b) \ From(Renamed(a, b))
Imported(a, b) == (Added(a, b) \ To(Renamed(a, b))) \cup Changed(a, b)

-----------------------------------------------------------------------------
(* The start of a run: the bookmark, HEAD and the checkpoint are read.     *)

(* --full, a first sync, or a bookmark git cannot diff against any more.   *)
StartFull(skip) ==
  /\ run.pc = "idle"
  /\ run' = [Idle EXCEPT !.pc = "walk", !.full = TRUE, !.skip = skip, !.pin = head]
  /\ Calm /\ NoFault
  /\ UNCHANGED <<repo, store>>

(* Resolve the pin and the paths already done.  A checkpoint that cannot   *)
(* be read counts as none (loadOpCheckpoint returns []).                   *)
Resume(skip, pin, done) ==
  LET last == bookmark
      idle == last = head
      none == Deleted(last, pin) \cup Imported(last, pin) \cup To(Renamed(last, pin)) = {}
  IN run' =
       IF idle THEN Idle
       ELSE IF none THEN [Idle EXCEPT !.pc = "advance", !.last = last, !.pin = pin]
       ELSE [Idle EXCEPT !.pc = "pin", !.skip = skip, !.last = last, !.pin = pin,
               !.deletes = Deleted(last, pin) \ done,
               !.renames = {m \in Renamed(last, pin) : m[2] \notin done},
               !.imports = Imported(last, pin) \ done]

StartResumed(skip) ==
  /\ target[bookmark] \in branch
  /\ \/ Resume(skip, target[bookmark], banked[bookmark]) /\ NoFault
     \/ Resume(skip, target[bookmark], {}) /\ Fault
  /\ Calm
  /\ UNCHANGED <<pages, bookmark, target, banked, walked, ledger>>

StartFresh(skip) ==
  /\ Resume(skip, head, {})
  /\ \/ target[bookmark] = 0 /\ Calm /\ NoFault
     \/ target[bookmark] # 0 /\ Upset("misread") /\ Fault
  /\ UNCHANGED <<pages, bookmark, target, banked, walked, ledger>>

StartRepinned(skip) ==
  /\ target[bookmark] \notin branch \cup {0}
  /\ Resume(skip, head, {})
  /\ \/ /\ banked' = [banked EXCEPT ![bookmark] = {}]
        /\ target' = [target EXCEPT ![bookmark] = 0]
        /\ NoFault
     \/ /\ banked' \in {banked, [banked EXCEPT ![bookmark] = {}]}
        /\ target' \in {target, [target EXCEPT ![bookmark] = 0]}
        /\ Fault
  /\ Calm
  /\ UNCHANGED <<pages, bookmark, walked, ledger>>

StartIncremental(skip) ==
  /\ run.pc = "idle" /\ bookmark # 0
  /\ StartResumed(skip) \/ StartFresh(skip) \/ StartRepinned(skip)
  /\ UNCHANGED repo

(* The pin is stored before anything is drained.                           *)
PersistPin ==
  /\ run.pc = "pin"
  /\ target' = [target EXCEPT ![run.last] = run.pin]
  /\ run' = [run EXCEPT !.pc = "drain"]
  /\ Calm /\ NoFault
  /\ UNCHANGED <<repo, pages, bookmark, banked, walked, ledger>>

(* collectSyncableFiles of a full import, less what import-checkpoint.json *)
(* says an earlier full import has done.                                   *)
Skipped == {p \in walked : Live[p] \notin {0, pages[p]}}

Walk ==
  /\ run.pc = "walk"
  /\ run' = [run EXCEPT !.pc = "drain",
                        !.imports = {p \in Paths : Live[p] # 0} \ walked]
  /\ IF Skipped = {} THEN Calm ELSE Upset("walked")
  /\ NoFault
  /\ UNCHANGED <<repo, store>>

-----------------------------------------------------------------------------
(* The drain: deletes, then renames, then imports by parallel workers.     *)
(* A path is marked completed in memory and banked by a later flush.       *)
Draining == run.pc = "drain"

Keep == UNCHANGED <<repo, bookmark, target, banked, walked, ledger>>

DeletePage(p) ==
  /\ Draining /\ p \in run.deletes
  /\ Keep /\ Calm
  /\ \/ /\ p \notin Stuck
        /\ pages' = [pages EXCEPT ![p] = 0]
        /\ run' = [run EXCEPT !.deletes = @ \ {p}, !.pending = @ \cup {p}]
        /\ NoFault
     \/ /\ run' = [run EXCEPT !.deletes = @ \ {p}, !.failed = @ \cup {p}]
        /\ IF p \in Stuck THEN NoFault ELSE Fault
        /\ UNCHANGED pages

(* updateSlug moves the old page when it exists and the new name is free.  *)
Slid(f, t) == pages[f] # 0 /\ pages[t] = 0
Slide(f, t) == IF Slid(f, t) THEN [pages EXCEPT ![f] = 0, ![t] = pages[f]] ELSE pages

RenamePage(f, t) ==
  /\ Draining /\ run.deletes = {} /\ <<f, t>> \in run.renames
  /\ Keep
  /\ LET done == [run EXCEPT !.renames = @ \ {<<f, t>>}, !.pending = @ \cup {t}]
     IN \/ \* the destination is gone from disk: nothing to import
           /\ Live[t] = 0
           /\ pages' = Slide(f, t) /\ run' = done /\ Calm /\ NoFault
        \/ \* imported; a rename that fell back to an add drops the old page
           /\ Live[t] \notin Poison \cup {0}
           /\ Slid(f, t) \/ pages[f] = 0 \/ f \notin Stuck
           /\ pages' = [Slide(f, t) EXCEPT ![t] = Live[t], ![f] = 0]
           /\ run' = done /\ Calm /\ NoFault
        \/ \* imported, but the old page could not be dropped
           /\ Live[t] \notin Poison \cup {0} /\ ~Slid(f, t) /\ pages[f] # 0
           /\ pages' = [pages EXCEPT ![t] = Live[t]]
           /\ run' = [run EXCEPT !.renames = @ \ {<<f, t>>}, !.sentinel = TRUE]
           /\ IF f \in Stuck THEN NoFault ELSE Fault
           /\ Calm
        \/ \* the import failed; the destination is marked completed all the same
           /\ Live[t] # 0
           /\ IF Live[t] \in Poison THEN NoFault ELSE Fault
           /\ pages' = Slide(f, t)
           /\ run' = [done EXCEPT !.failed = @ \cup {t}]
           /\ Upset("rename")

ImportPageBankFirst(p) ==                                               \* mutant
  /\ Draining /\ run.deletes = {} /\ run.renames = {} /\ p \in run.imports
  /\ Keep /\ Calm
  /\ \/ /\ Live[p] \notin Poison \cup {0}
        /\ pages' = [pages EXCEPT ![p] = Live[p]] /\ NoFault
     \/ UNCHANGED pages /\ IF Live[p] \in Poison \cup {0} THEN NoFault ELSE Fault
  /\ run' = [run EXCEPT !.imports = @ \ {p}, !.pending = @ \cup {p}]

(* importOnePath reads the file of the live tree, not of the pin.          *)
ImportPage(p) ==
  /\ Draining /\ run.deletes = {} /\ run.renames = {} /\ p \in run.imports
  /\ Keep /\ Calm
  /\ LET rest == [run EXCEPT !.imports = @ \ {p}]
         done == [rest EXCEPT !.pending = @ \cup {p}]
     IN \/ \* gone from disk: skipped by a sync, an error of a full import
           /\ Live[p] = 0
           /\ run' = IF run.full THEN [rest EXCEPT !.failed = @ \cup {p}, !.threw = TRUE]
                     ELSE [done EXCEPT !.fixed = @ \cup {p}]
           /\ NoFault /\ UNCHANGED pages
        \/ \* imported, or skipped because the content is indexed already
           /\ Live[p] \notin Poison \cup {0}
           /\ pages' = [pages EXCEPT ![p] = Live[p]]
           /\ run' = IF pages[p] = Live[p] THEN done ELSE [done EXCEPT !.fixed = @ \cup {p}]
           /\ NoFault
        \/ \* failed, with an exception or with a skip that carries an error
           /\ Live[p] # 0
           /\ IF Live[p] \in Poison THEN NoFault ELSE Fault
           /\ \E threw \in {run.threw, run.full} :
                run' = [rest EXCEPT !.failed = @ \cup {p}, !.threw = threw]
           /\ UNCHANGED pages

Saved(paths) ==
  IF run.full THEN walked' = walked \cup paths /\ UNCHANGED banked
  ELSE banked' = [banked EXCEPT ![run.last] = @ \cup paths] /\ UNCHANGED walked

(* flushCheckpoint, or the periodic save of the full import.               *)
Flush ==
  /\ Draining /\ run.pending # {}
  /\ Calm
  /\ \/ /\ Saved(run.pending)
        /\ run' = [run EXCEPT !.pending = {}, !.misses = IF @ < MaxMisses THEN 0 ELSE @]
        /\ NoFault
     \/ /\ ~run.full
        /\ run' = [run EXCEPT !.misses = IF @ < MaxMisses THEN @ + 1 ELSE @]
        /\ Fault
        /\ UNCHANGED <<banked, walked>>
  /\ UNCHANGED <<repo, pages, bookmark, target, ledger>>

(* Every file of a full import is done and none was an error: it clears    *)
(* its checkpoint, and then returns to the gate.                           *)
WalkedOut == Draining /\ run.full /\ run.imports = {} /\ ~run.threw

(* A crash, an abort by timeout, stall watchdog or signal (which banks     *)
(* what it can), or a checkpoint given up as dead.                         *)
Stop ==
  /\ run.pc # "idle"
  /\ run' = Idle
  /\ \/ run.misses < MaxMisses /\ Fault /\ \E paths \in {{}, run.pending} : Saved(paths)
     \/ WalkedOut /\ Fault /\ walked' = {} /\ UNCHANGED banked
     \/ run.misses = MaxMisses /\ NoFault /\ UNCHANGED <<banked, walked>>
  /\ Calm
  /\ UNCHANGED <<repo, pages, bookmark, target, ledger>>

-----------------------------------------------------------------------------
(* applySyncFailureGate: record and clear, decide, advance, then skip.     *)

(* _recordAndClear: rows of fixed paths go, an open row of a failing path  *)
(* counts one more attempt, any other failing path gets a fresh row.       *)
RecordedAfresh(fixed, failed, commit) ==                                 \* mutant
  [p \in Paths |->
     IF p \in failed THEN [state |-> "open", commit |-> commit, attempts |-> 1]
     ELSE IF p \in fixed THEN NoRow ELSE ledger[p]]

Recorded(fixed, failed, commit) ==
  [p \in Paths |->
     LET row == IF p \in fixed THEN NoRow ELSE ledger[p] IN
     IF p \notin failed THEN row
     ELSE [state |-> "open", commit |-> commit,
           attempts |-> IF row.state # "open" THEN 1
                        ELSE IF row.attempts < Threshold THEN row.attempts + 1 ELSE Threshold]]

ResolvedAll == Paths \ run.failed                                        \* mutant
Resolved ==
  IF run.full THEN Paths \ run.failed
  ELSE run.fixed \cup Deleted(run.last, run.pin) \cup From(Renamed(run.last, run.pin))

Chronic(rows) == {p \in run.failed : rows[p].attempts >= Threshold}

(* decideGateAction *)
Advances(rows, sentinel) ==
  /\ ~sentinel
  /\ run.skip \/ run.failed = Chronic(rows)

Decide(rows, sentinel) ==
  run' = IF ~Advances(rows, sentinel) THEN Idle
         ELSE [run EXCEPT !.pc = "advance", !.pending = {},
                          !.chronic = IF run.skip THEN {} ELSE Chronic(rows)]

MarksEarly(rows, sentinel) ==                                            \* mutant
  [p \in Paths |-> IF Advances(rows, sentinel) /\ p \in Chronic(rows)
                   THEN [rows[p] EXCEPT !.state = "auto_skipped"] ELSE rows[p]]

GateMarksEarly ==                                                        \* mutant
  /\ ~run.full /\ run.misses < MaxMisses
  /\ Saved(run.pending) /\ NoFault
  /\ LET rows == Recorded(Resolved, run.failed, run.pin)
         lost == run.sentinel \/ run.pin \notin branch
     IN ledger' = MarksEarly(rows, lost) /\ Decide(rows, lost)

(* The drain is over: the last flush, the check that the pin is still an   *)
(* ancestor of HEAD, and the gate.                                         *)
GateIncremental ==
  /\ ~run.full /\ run.misses < MaxMisses
  /\ \/ Saved(run.pending) /\ NoFault
     \/ Saved({}) /\ run.pending # {} /\ Fault
  /\ ledger' = Recorded(Resolved, run.failed, run.pin)
  /\ Decide(ledger', run.sentinel \/ run.pin \notin branch)

GateFull ==
  /\ run.full
  /\ walked' = IF run.threw THEN walked \cup run.pending ELSE {}
  /\ ledger' = Recorded(Resolved, run.failed, run.pin)
  /\ Decide(ledger', FALSE)
  /\ NoFault /\ UNCHANGED banked

Gate ==
  /\ Draining /\ run.deletes = {} /\ run.renames = {} /\ run.imports = {}
  /\ GateIncremental \/ GateFull
  /\ Calm
  /\ UNCHANGED <<repo, pages, bookmark, target>>

(* advance(): the bookmark, then the two halves of the checkpoint, each a  *)
(* statement of its own; a failed clear is swallowed.                      *)
MoveBookmarkToHead ==                                                    \* mutant
  /\ run.pc = "advance"
  /\ bookmark' = head
  /\ run' = [run EXCEPT !.pc = IF run.full THEN "mark" ELSE "clearPaths"]
  /\ Calm /\ NoFault
  /\ UNCHANGED <<repo, pages, target, banked, walked, ledger>>

MoveBookmark ==
  /\ run.pc = "advance"
  /\ bookmark' = run.pin
  /\ run' = [run EXCEPT !.pc = IF run.full THEN "mark" ELSE "clearPaths"]
  /\ Calm /\ NoFault
  /\ UNCHANGED <<repo, pages, target, banked, walked, ledger>>

ClearPaths ==
  /\ run.pc = "clearPaths"
  /\ \/ banked' = [banked EXCEPT ![run.last] = {}] /\ NoFault
     \/ UNCHANGED banked /\ Fault
  /\ run' = [run EXCEPT !.pc = "clearTarget"]
  /\ Calm
  /\ UNCHANGED <<repo, pages, bookmark, target, walked, ledger>>

ClearTarget ==
  /\ run.pc = "clearTarget"
  /\ \/ target' = [target EXCEPT ![run.last] = 0] /\ NoFault
     \/ UNCHANGED target /\ Fault
  /\ run' = [run EXCEPT !.pc = "mark"]
  /\ Calm
  /\ UNCHANGED <<repo, pages, bookmark, banked, walked, ledger>>

Acknowledged(row) == [row EXCEPT !.state = IF @ = "open" THEN "acknowledged" ELSE @]

(* acknowledgeFailures for --skip-failed, autoSkipFailures for the valve.  *)
MarkSkipped ==
  /\ run.pc = "mark"
  /\ ledger' = [p \in Paths |->
       IF ledger[p].state # "open" THEN ledger[p]
       ELSE IF run.skip THEN Acknowledged(ledger[p])
       ELSE IF p \in run.chronic THEN [ledger[p] EXCEPT !.state = "auto_skipped"]
       ELSE ledger[p]]
  /\ run' = IF run.full THEN [run EXCEPT !.pc = "reconcile"] ELSE Idle
  /\ Calm /\ NoFault
  /\ UNCHANGED <<repo, pages, bookmark, target, banked, walked>>

(* A full sync drops the pages whose file is gone, as far as it can; the   *)
(* mass-delete valve or a failed delete leaves some.                       *)
Reconcile ==
  /\ run.pc = "reconcile"
  /\ \/ pages' = [p \in Paths |-> IF Live[p] = 0 /\ p \notin Stuck THEN 0 ELSE pages[p]] /\ NoFault
     \/ UNCHANGED pages /\ Fault
  /\ run' = Idle
  /\ Calm
  /\ UNCHANGED <<repo, bookmark, target, banked, walked, ledger>>

-----------------------------------------------------------------------------
(* gbrain sync --skip-failed acknowledges every open row before it asks    *)
(* for the lock, whatever the sync that holds it is doing.                 *)
AcknowledgeAll ==
  /\ \E p \in Paths : ledger[p].state = "open"
  /\ ledger' = [p \in Paths |-> Acknowledged(ledger[p])]
  /\ Calm /\ Fault
  /\ UNCHANGED <<repo, pages, bookmark, target, banked, walked, run>>

-----------------------------------------------------------------------------
Init ==
  /\ \E tree \in [Paths -> {0, 1}] : trees = <<tree>>
  /\ moves = <<NoMove>>
  /\ branch = {1} /\ head = 1
  /\ pages = [p \in Paths |-> 0]
  /\ bookmark = 0
  /\ target = [c \in 0..MaxCommits |-> 0]
  /\ banked = [c \in 0..MaxCommits |-> {}]
  /\ walked = {}
  /\ ledger = [p \in Paths |-> NoRow]
  /\ run = Idle /\ faults = 0 /\ upsets = {}

Author ==
  \/ \E p \in Paths : Edit(p) \/ Remove(p) \/ Restore(p)
  \/ \E f, t \in Paths : Move(f, t)
  \/ Rewrite

(* What a running sync does next when nothing stops it.                    *)
Work ==
  \/ PersistPin \/ Walk
  \/ \E p \in Paths : DeletePage(p) \/ ImportPage(p)
  \/ \E f, t \in Paths : RenamePage(f, t)
  \/ Flush \/ Gate
  \/ MoveBookmark \/ ClearPaths \/ ClearTarget \/ MarkSkipped \/ Reconcile

Next ==
  \/ Author
  \/ \E skip \in BOOLEAN : StartFull(skip) \/ StartIncremental(skip)
  \/ Work
  \/ Stop
  \/ AcknowledgeAll

(* The scheduler keeps starting syncs, and a sync runs on to its end.      *)
Fairness ==
  /\ WF_vars(StartIncremental(FALSE))
  /\ WF_vars(bookmark = 0 /\ StartFull(FALSE))
  /\ WF_vars(Work \/ Stop)

Spec == Init /\ [][Next]_vars /\ Fairness

-----------------------------------------------------------------------------
TypeOK ==
  /\ trees \in Seq([Paths -> 0..MaxCommits]) /\ Len(trees) \in Commits
  /\ Len(moves) = Len(trees)
  /\ branch \subseteq 1..Len(trees) /\ head \in branch
  /\ pages \in [Paths -> 0..MaxCommits]
  /\ bookmark \in 0..Len(trees)
  /\ target \in [0..MaxCommits -> 0..MaxCommits]
  /\ banked \in [0..MaxCommits -> SUBSET Paths]
  /\ walked \subseteq Paths
  /\ ledger \in [Paths -> Row]
  /\ run \in [pc : {"idle", "pin", "walk", "drain", "advance", "clearPaths",
                    "clearTarget", "mark", "reconcile"},
              full : BOOLEAN, skip : BOOLEAN, last : 0..MaxCommits, pin : 0..Len(trees),
              deletes : SUBSET Paths, renames : SUBSET (Paths \X Paths),
              imports : SUBSET Paths, pending : SUBSET Paths, failed : SUBSET Paths,
              fixed : SUBSET Paths, chronic : SUBSET Paths, sentinel : BOOLEAN,
              threw : BOOLEAN, misses : 0..MaxMisses]
  /\ faults \in 0..MaxFaults
  /\ upsets \subseteq {"revert", "rewrite", "misread", "walked", "rename"}

(* A file is tracked when the brain holds its content, or the next diff    *)
(* from the bookmark shows it, or the ledger has a row for it.             *)
Tracked(p) ==
  \/ Live[p] \in {0, pages[p]}
  \/ At(bookmark)[p] # Live[p]
  \/ ledger[p] # NoRow

EveryFileTracked == upsets = {} => \A p \in Paths : Tracked(p)

(* What a resumed run skips is really done: it holds the content of the    *)
(* pin, or the file has changed since and the next diff will show it.      *)
BankedIsDone ==
  upsets = {} =>
    \A p \in banked[bookmark] :
      target[bookmark] # 0 => Live[p] \in {0, pages[p]} \/ At(target[bookmark])[p] # Live[p]

(* A row of the ledger is dropped only when the brain holds the content of *)
(* the file, or the file has changed since the commit the run drained to.  *)
RowsClearWhenIndexed ==
  [][\A p \in Paths :
       /\ upsets = {} /\ ledger[p] # NoRow /\ ledger'[p] = NoRow
       => Live[p] \in {0, pages[p]} \/ trees[run.pin][p] # Live[p]]_vars

(* The valve marks a file auto-skipped only after the bookmark has passed  *)
(* the commit it failed at; a row the operator acknowledges may be ahead.  *)
SkipsFollowBookmark ==
  "rewrite" \notin upsets =>
    \A p \in Paths : ledger[p].state = "auto_skipped" => ledger[p].commit <= bookmark

(* Once the repository is quiet, the faults are over and nobody            *)
(* acknowledges rows from outside a run, the bookmark reaches HEAD and     *)
(* stays there, unless the page of a file that is gone, at HEAD or at the  *)
(* pinned target, cannot be deleted.                                       *)
Wedged == \E p \in Stuck : /\ At(bookmark)[p] # 0
                           /\ \E c \in {head, target[bookmark]} \ {0} : At(c)[p] = 0
Converges == <>[](bookmark = head \/ Wedged)
=============================================================================
