----------------------------- MODULE PgliteLock -----------------------------
(***************************************************************************)
(* The lock on a PGLite data directory (core/pglite-lock.ts): a directory  *)
(* made by mkdir and a file in it that names the holder.  Every call into  *)
(* the file system is a step of its own; processes crash, exit and start   *)
(* again under the pid they had.                                           *)
(***************************************************************************)
EXTENDS Naturals

CONSTANTS
  Openers,        \* the pids that open the data directory
  None, Orphan,   \* no directory, and one whose maker is through with it
  MaxTakes        \* how many times the directory is made in all

ASSUME NamesAssumption == None \notin Openers /\ Orphan \notin Openers /\ None # Orphan

VARIABLES
  dir,     \* who made the lock directory (the code sees that it exists)
  file,    \* the lock file: the token <<by, at>>, whole or truncated
  alive,   \* the pid names a running process
  pc,      \* where a process is in acquireLock, the heartbeat or releaseLock
  seen,    \* the lock file a contender has read
  mine,    \* acquired_at of the lock a process made
  takes,   \* the clock, as far as tokens tell times apart
  raced    \* a contender met the lock while it was changing hands

dirVars == <<dir, file, alive, pc, seen, mine, takes, raced>>

NoFile     == [by |-> None, at |-> 0, whole |-> FALSE]
Token(p)   == [by |-> p, at |-> mine[p], whole |-> TRUE]
Torn(p)    == [Token(p) EXCEPT !.whole = FALSE]
Using      == {"held", "truncate", "refresh"}

Moves(p, place) == pc' = [pc EXCEPT ![p] = place]

\* What p made stays behind when p gives it up without removing it.
Left(p)    == dir' = IF dir = p THEN Orphan ELSE dir
Gone       == dir' = None /\ file' = NoFile

(* Sleep and look again, or give up: the time is over, or gbrain serve     *)
(* holds the lock.                                                         *)
Waits(p)   == Moves(p, "look") \/ Moves(p, "idle")

-----------------------------------------------------------------------------
(* acquireLock                                                             *)
Contend(p) ==
  /\ alive[p] /\ pc[p] = "idle"
  /\ Moves(p, "look")
  /\ UNCHANGED <<dir, file, alive, seen, mine, takes, raced>>

Look(p) ==
  /\ pc[p] = "look"
  /\ Moves(p, IF dir = None THEN "make" ELSE "read")
  /\ UNCHANGED <<dir, file, alive, seen, mine, takes, raced>>

Reaping(p) == \E q \in Openers \ {p} : pc[q] = "remove"

(* A file that is missing or does not parse counts as corrupt.             *)
ReadFile(p) ==
  /\ pc[p] = "read"
  /\ IF file.whole
     THEN /\ Moves(p, "probe")
          /\ seen' = [seen EXCEPT ![p] = file]
          /\ UNCHANGED raced
     ELSE /\ Moves(p, "remove")
          /\ raced' = (raced \/ dir # Orphan \/ Reaping(p))
          /\ UNCHANGED seen
  /\ UNCHANGED <<dir, file, alive, mine, takes>>

(* Only a dead pid is reaped.                                              *)
Probe(p) ==
  /\ pc[p] = "probe"
  /\ IF alive[seen[p].by]
     THEN Waits(p) /\ UNCHANGED raced
     ELSE /\ Moves(p, "remove")
          /\ raced' = (raced \/ file # seen[p] \/ Reaping(p))
  /\ seen' = [seen EXCEPT ![p] = NoFile]
  /\ UNCHANGED <<dir, file, alive, mine, takes>>

(* rmSync, whatever is there by now; its failure is swallowed.             *)
Remove(p) ==
  /\ pc[p] = "remove"
  /\ Gone \/ UNCHANGED <<dir, file>>
  /\ Moves(p, "make")
  /\ UNCHANGED <<alive, seen, mine, takes, raced>>

MakeRecursive(p) ==                                                      \* mutant
  /\ pc[p] = "make" /\ takes < MaxTakes
  /\ dir' = p
  /\ takes' = takes + 1 /\ mine' = [mine EXCEPT ![p] = takes + 1]
  /\ Moves(p, "write")
  /\ UNCHANGED <<file, alive, seen, raced>>

Make(p) ==
  /\ pc[p] = "make"
  /\ \/ /\ dir = None /\ takes < MaxTakes
        /\ dir' = p
        /\ takes' = takes + 1 /\ mine' = [mine EXCEPT ![p] = takes + 1]
        /\ Moves(p, "write")
     \/ dir # None /\ Waits(p) /\ UNCHANGED <<dir, mine, takes>>
  /\ UNCHANGED <<file, alive, seen, raced>>

(* The write fails when the directory is gone, or the disk is full.        *)
Write(p) ==
  /\ pc[p] = "write"
  /\ \/ dir # None /\ file' = Token(p) /\ Moves(p, "held") /\ UNCHANGED dir
     \/ Left(p) /\ Waits(p) /\ UNCHANGED file
  /\ UNCHANGED <<alive, seen, mine, takes, raced>>

-----------------------------------------------------------------------------
(* The heartbeat: a token of its own, a truncation and a write.            *)
Beat(p) ==
  /\ pc[p] = "held" /\ file = Token(p)
  /\ Moves(p, "truncate")
  /\ UNCHANGED <<dir, file, alive, seen, mine, takes, raced>>

Truncate(p) ==
  /\ pc[p] = "truncate"
  /\ IF dir = None THEN Moves(p, "held") /\ UNCHANGED file
     ELSE Moves(p, "refresh") /\ file' = Torn(p)
  /\ UNCHANGED <<dir, alive, seen, mine, takes, raced>>

Refresh(p) ==
  /\ pc[p] = "refresh"
  /\ file' = IF file = Torn(p) THEN Token(p) ELSE file
  /\ Moves(p, "held")
  /\ UNCHANGED <<dir, alive, seen, mine, takes, raced>>

(* releaseLock: not when the file names another, or an earlier, holder.    *)
Release(p) ==
  /\ pc[p] = "held"
  /\ Moves(p, IF file.whole /\ file # Token(p) THEN "idle" ELSE "giveBack")
  /\ UNCHANGED <<dir, file, alive, seen, mine, takes, raced>>

GiveBack(p) ==
  /\ pc[p] = "giveBack"
  /\ \/ Gone
     \/ Left(p) /\ UNCHANGED file
  /\ Moves(p, "idle")
  /\ UNCHANGED <<alive, seen, mine, takes, raced>>

-----------------------------------------------------------------------------
Exit(p) ==
  /\ alive[p]
  /\ alive' = [alive EXCEPT ![p] = FALSE]
  /\ Moves(p, "idle") /\ Left(p)
  /\ seen' = [seen EXCEPT ![p] = NoFile]
  /\ UNCHANGED <<file, mine, takes, raced>>

Restart(p) ==
  /\ ~alive[p]
  /\ alive' = [alive EXCEPT ![p] = TRUE]
  /\ UNCHANGED <<dir, file, pc, seen, mine, takes, raced>>

DirInit ==
  /\ dir = None /\ file = NoFile
  /\ alive = [p \in Openers |-> TRUE]
  /\ pc = [p \in Openers |-> "idle"]
  /\ seen = [p \in Openers |-> NoFile]
  /\ mine = [p \in Openers |-> 0]
  /\ takes = 0 /\ raced = FALSE

DirNext ==
  \E p \in Openers :
    \/ Contend(p) \/ Look(p) \/ ReadFile(p) \/ Probe(p) \/ Remove(p) \/ Make(p) \/ Write(p)
    \/ Beat(p) \/ Truncate(p) \/ Refresh(p) \/ Release(p) \/ GiveBack(p)
    \/ Exit(p) \/ Restart(p)

DirSpec == DirInit /\ [][DirNext]_dirVars

-----------------------------------------------------------------------------
Files == [by : Openers \cup {None}, at : Nat, whole : BOOLEAN]

TypeOK ==
  /\ dir \in Openers \cup {None, Orphan}
  /\ file \in Files /\ seen \in [Openers -> Files]
  /\ alive \in [Openers -> BOOLEAN]
  /\ pc \in [Openers -> Using \cup {"idle", "look", "read", "probe", "remove", "make",
                                  "write", "giveBack"}]
  /\ mine \in [Openers -> Nat] /\ takes \in Nat
  /\ raced \in BOOLEAN
  /\ file.whole => file.by \in Openers
  /\ \A p \in Openers : pc[p] = "probe" => seen[p].whole /\ seen[p].by \in Openers

(* One process at a time opens the data directory, across crashes, failed  *)
(* writes and removals, and pids that are used again, as long as nobody    *)
(* read a lock that a running process was just writing, judged one that    *)
(* had changed since it was read, or removed one beside another remover.   *)
HoldersExclude ==
  ~raced => \A p, q \in Openers : pc[p] \in Using /\ pc[q] \in Using => p = q

=============================================================================
