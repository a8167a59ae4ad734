------------------------ MODULE SubagentLoopProofs ------------------------
(***************************************************************************)
(* Theorems about SubagentLoop, for any number of jobs, runs, turns, calls *)
(* and faults.                                                             *)
(***************************************************************************)
EXTENDS SubagentLoop, FiniteSetTheorems, SequenceTheorems, TLAPS

Called    == {"release", "store"}
Executing == {"execute", "succeeded", "threw"}
Tooling   == {"tools"} \cup Executing

Pcs    == {"idle", "load", "loadLedger", "turn", "call", "release", "store",
           "tools", "execute", "succeeded", "threw", "done"}
Told   == Seq({"ok", "error"})
Locals == [job : Jobs \cup {NoJob}, pc : Pcs, next : Nat, turns : Nat, call : 0..MaxCalls,
           seen : [1..MaxUses -> Status], told : Told, result : Stops \cup {"none"}]
Messages == [role : {"assistant", "user"}, call : Calls, told : Told]
Answers  == [job : Jobs, uses : Seq(Kinds), cut : BOOLEAN]

Spoken(c, j) == c \in 1..Len(reply) /\ reply[c].job = j

\* A run that is over has no job; one that works speaks of a call of its job.
RunKnown(r) ==
  IF run[r].pc = "idle" THEN run[r] = Idle
  ELSE /\ run[r].job \in Jobs
       /\ run[r].pc \in {"load", "loadLedger"} => run[r].told = <<>>
       /\ run[r].pc \in Called \cup Tooling \cup {"loadLedger"} =>
            Spoken(run[r].call, run[r].job)
       /\ run[r].pc \in Tooling => Len(run[r].told) <= Len(Asked(run[r].call))
       /\ run[r].pc \in Executing => K(r) <= Len(Asked(run[r].call))

Stored(m, j) == \A i \in 1..Len(m) : Spoken(m[i].call, j)

\* Calls are known before anyone speaks of them, and belong to one job.
Known ==
  /\ \A c \in 1..Len(reply) : Len(Asked(c)) <= MaxUses
  /\ \A j \in Jobs : Stored(msgs[j], j)
  /\ \A r \in Runs : RunKnown(r)

BaseInv == TypeOK /\ Known

\* What a step of the run r does to the other runs: nothing.
Moves(r, x) == run' = [run EXCEPT ![r] = x]

LEMMA MovesOne ==
  ASSUME TypeOK, NEW r \in Runs, NEW x \in Locals, Moves(r, x)
  PROVE  run' \in [Runs -> Locals] /\ run'[r] = x /\ \A s \in Runs \ {r} : run'[s] = run[s]
BY DEF TypeOK, Moves, Locals, Pcs, Told

LEMMA Types ==
  ASSUME TypeOK
  PROVE  /\ run \in [Runs -> Locals] /\ msgs \in [Jobs -> Seq(Messages)]
         /\ reply \in Seq(Answers) /\ Len(reply) \in 0..MaxCalls
         /\ NoJob \notin Jobs /\ NoRun \notin Runs
         /\ MaxCalls \in Nat /\ MaxUses \in Nat /\ Cap \in Nat /\ MaxTurns \in Nat
         /\ MaxFaults \in Nat /\ faults \in Nat
<1>1. reply \in Seq(Answers) /\ Len(reply) <= MaxCalls
  BY DEF TypeOK, Answers
<1>2. Len(reply) \in Nat
  BY <1>1, LenProperties
<1>3. MaxCalls \in Nat /\ MaxFaults \in Nat
  BY SubagentAssumption
<1>4. Len(reply) \in 0..MaxCalls /\ faults \in Nat
  BY <1>1, <1>2, <1>3 DEF TypeOK
<1>5. run \in [Runs -> Locals] /\ msgs \in [Jobs -> Seq(Messages)]
  BY DEF TypeOK, Locals, Pcs, Told, Messages
<1> QED BY <1>1, <1>4, <1>5, SubagentAssumption

LEMMA IdleType == Idle \in Locals
BY SubagentAssumption DEF Idle, Locals, Pcs, Told, Status

\* What every step of a run's handler leaves in the run.
LEMMA LoadMoves ==
  ASSUME BaseInv, NEW r \in Runs, LoadMessages(r)
  PROVE  \E x \in Locals :
           /\ Moves(r, x) /\ x.job = run[r].job /\ x.told = run[r].told
           /\ x.next = Len(msgs[x.job]) + 1
           /\ \/ /\ x.pc = "turn"
                 /\ Len(msgs[x.job]) = 0 \/ msgs[x.job][Len(msgs[x.job])].role = "user"
              \/ x.pc = "done"
              \/ /\ x.pc = "loadLedger" /\ Len(msgs[x.job]) # 0
                 /\ msgs[x.job][Len(msgs[x.job])].role = "assistant"
                 /\ x.call = msgs[x.job][Len(msgs[x.job])].call
<1> DEFINE j == run[r].job
           n == Len(msgs[j])
           here == [run[r] EXCEPT !.next = NextIndex(j), !.turns = TurnsDone(j)]
           last == msgs[j][n]
<1>1. j \in Jobs /\ run[r] \in Locals /\ n \in Nat
  BY Types, LenProperties DEF BaseInv, Known, RunKnown, LoadMessages
<1>2. TurnsDone(j) \in Nat /\ NextIndex(j) = n + 1
  <2> DEFINE T == {i \in 1..n : msgs[j][i].role = "assistant"}
  <2>a. T \in SUBSET (1..n)
    OBVIOUS
  <2>b. IsFiniteSet(1..n)
    BY <1>1, FS_Interval
  <2>1. IsFiniteSet(T)
    BY <2>a, <2>b, FS_Subset
  <2> QED BY <2>1, FS_CardinalityType DEF TurnsDone, Turns, NextIndex
<1>3. n # 0 => last \in Messages
  BY <1>1, Types, ElementOfSeq DEF BaseInv
<1>4. here \in Locals /\ here.job = j /\ here.told = run[r].told /\ here.next = n + 1
  <2>1. n + 1 \in Nat /\ here = [run[r] EXCEPT !.next = n + 1, !.turns = TurnsDone(j)]
    BY <1>1, <1>2
  <2> HIDE DEF here, n
  <2>2. here \in Locals
    BY <1>1, <1>2, <2>1 DEF Locals
  <2>3. here.job = j /\ here.told = run[r].told /\ here.next = n + 1
    BY <1>1, <1>2, <2>1 DEF Locals
  <2> QED BY <2>2, <2>3
<1>5. run' = [run EXCEPT ![r] =
          IF n = 0 \/ last.role = "user" THEN [here EXCEPT !.pc = "turn"]
          ELSE IF Asked(last.call) = <<>>
               THEN [here EXCEPT !.pc = "done", !.result = "end_turn"]
               ELSE [here EXCEPT !.pc = "loadLedger", !.call = last.call]]
  BY DEF LoadMessages
<1> HIDE DEF here, last, n, j
<1>6. CASE n = 0 \/ last.role = "user"
  <2> DEFINE x == [here EXCEPT !.pc = "turn"]
  <2>1. Moves(r, x)
    BY <1>5, <1>6 DEF Moves
  <2>2. x \in Locals
    BY <1>4 DEF Locals, Pcs
  <2>3. x.job = j /\ x.told = run[r].told /\ x.next = n + 1 /\ x.pc = "turn"
    BY <1>4 DEF Locals
  <2> HIDE DEF x
  <2> QED BY <1>6, <2>1, <2>2, <2>3 DEF last, n, j
<1>7. CASE ~ (n = 0 \/ last.role = "user") /\ Asked(last.call) = <<>>
  <2> DEFINE x == [here EXCEPT !.pc = "done", !.result = "end_turn"]
  <2>1. Moves(r, x)
    BY <1>5, <1>7 DEF Moves
  <2>2. x \in Locals
    BY <1>4 DEF Locals, Pcs, Stops
  <2>3. x.job = j /\ x.told = run[r].told /\ x.next = n + 1 /\ x.pc = "done"
    BY <1>4 DEF Locals
  <2> HIDE DEF x
  <2> QED BY <2>1, <2>2, <2>3 DEF n, j
<1>8. CASE ~ (n = 0 \/ last.role = "user") /\ Asked(last.call) # <<>>
  <2> DEFINE x == [here EXCEPT !.pc = "loadLedger", !.call = last.call]
  <2>1. Moves(r, x)
    BY <1>5, <1>8 DEF Moves
  <2>c. last.call \in 0..MaxCalls
    BY <1>3, <1>8, SubagentAssumption DEF Messages, Calls
  <2>2. x \in Locals
    BY <1>4, <2>c DEF Locals, Pcs
  <2>3. x.job = j /\ x.told = run[r].told /\ x.next = n + 1 /\ x.pc = "loadLedger" /\ x.call = last.call
    BY <1>4 DEF Locals
  <2>4. n # 0 /\ last.role = "assistant"
    BY <1>3, <1>8 DEF Messages
  <2> HIDE DEF x
  <2> QED BY <2>1, <2>2, <2>3, <2>4 DEF last, n, j
<1> QED BY <1>6, <1>7, <1>8

\* The locals that survive a move of the program counter.
Others(r) == run' \in [Runs -> Locals] /\ \A s \in Runs \ {r} : run'[s] = run[s]
Kept(r)   == /\ run'[r].job = run[r].job /\ run'[r].next = run[r].next
             /\ run'[r].call = run[r].call
Stays(r)  == Kept(r) /\ run'[r].told = run[r].told /\ run'[r].seen = run[r].seen

LEMMA PcMoves ==
  ASSUME TypeOK, NEW r \in Runs, NEW p \in Pcs, run' = [run EXCEPT ![r].pc = p]
  PROVE  Others(r) /\ Stays(r) /\ run'[r].pc = p
<1>1. run \in [Runs -> Locals]
  BY Types
<1>2. Others(r)
  BY <1>1 DEF Others, Locals
<1>3. Stays(r) /\ run'[r].pc = p
  BY <1>1 DEF Stays, Kept, Locals
<1> QED BY <1>2, <1>3

LEMMA LedgerMoves ==
  ASSUME BaseInv, NEW r \in Runs, LoadLedger(r)
  PROVE  /\ Others(r) /\ Kept(r) /\ run'[r].told = run[r].told /\ run'[r].pc = "tools"
         /\ \A k \in 1..MaxUses : run'[r].seen[k] = ledger[<<run[r].call, k>>]
<1> DEFINE seen == [k \in 1..MaxUses |-> ledger[<<run[r].call, k>>]]
<1>1. run \in [Runs -> Locals] /\ ledger \in [Uses -> Status] /\ run[r].pc = "loadLedger"
  BY Types DEF BaseInv, TypeOK, LoadLedger
<1>2. run[r].call \in Calls
  <2>1. run[r].call \in 1..Len(reply)
    BY <1>1 DEF BaseInv, Known, RunKnown, Spoken
  <2> QED BY <2>1, Types DEF BaseInv, Calls
<1>3. seen \in [1..MaxUses -> Status]
  BY <1>1, <1>2 DEF Uses
<1>4. run' = [run EXCEPT ![r].pc = "tools", ![r].seen = seen]
  BY DEF LoadLedger
<1>5. \A k \in 1..MaxUses : seen[k] = ledger[<<run[r].call, k>>]
  OBVIOUS
<1> HIDE DEF seen
<1> DEFINE x == [run[r] EXCEPT !.pc = "tools", !.seen = seen]
<1>6. run' = [run EXCEPT ![r] = x]
  BY <1>4
<1>x. x \in Locals
  BY <1>1, <1>3 DEF Locals, Pcs
<1>7. /\ x.job = run[r].job /\ x.next = run[r].next /\ x.call = run[r].call
      /\ x.told = run[r].told /\ x.pc = "tools" /\ x.seen = seen
  BY <1>1 DEF Locals
<1> HIDE DEF x
<1>8. run'[r] = x /\ Others(r)
  BY <1>1, <1>6, <1>x DEF Others
<1> QED BY <1>5, <1>7, <1>8 DEF Kept

LEMMA TellMoves ==
  ASSUME TypeOK, NEW r \in Runs, NEW what \in {"ok", "error"}, Tell(r, what)
  PROVE  /\ Others(r) /\ Kept(r) /\ run'[r].seen = run[r].seen /\ run'[r].pc = "tools"
         /\ run'[r].told = Append(run[r].told, what)
<1>1. run \in [Runs -> Locals]
  BY Types
<1>2. run[r].told \in Told
  BY <1>1 DEF Locals
<1>3. Append(run[r].told, what) \in Told
  BY <1>2, AppendProperties DEF Told
<1>4. run' = [run EXCEPT ![r].pc = "tools", ![r].told = Append(run[r].told, what)]
  BY DEF Tell
<1>5. Others(r)
  BY <1>1, <1>3, <1>4 DEF Others, Locals, Pcs
<1>6. Kept(r) /\ run'[r].seen = run[r].seen /\ run'[r].pc = "tools"
  BY <1>1, <1>4 DEF Kept, Locals
<1>7. run'[r].told = Append(run[r].told, what)
  BY <1>1, <1>4 DEF Locals
<1> QED BY <1>5, <1>6, <1>7

LEMMA OverMoves ==
  ASSUME TypeOK, NEW r \in Runs, Over(r)
  PROVE  /\ Others(r) /\ run'[r] = Idle
         /\ owner' \in [Jobs -> Runs \cup {NoRun}]
<1>1. run \in [Runs -> Locals]
  BY Types
<1>2. Others(r) /\ run'[r] = Idle
  BY <1>1, IdleType DEF Others, Over
<1> QED BY <1>2 DEF Over, TypeOK

LEMMA AnswerMoves ==
  ASSUME BaseInv, NEW r \in Runs, ModelAnswers(r)
  PROVE  /\ Others(r) /\ run'[r].pc = "release" /\ run'[r].call = Len(reply) + 1
         /\ run'[r].job = run[r].job /\ run'[r].next = run[r].next
         /\ \E a \in Answers : reply' = Append(reply, a) /\ a.job = run[r].job /\ Len(a.uses) <= MaxUses
         /\ Len(reply) < MaxCalls
<1>1. run \in [Runs -> Locals] /\ reply \in Seq(Answers) /\ Len(reply) \in Nat /\ run[r].job \in Jobs
  BY Types DEF BaseInv, Known, RunKnown, ModelAnswers
<1>2. PICK a \in Replies : reply' = Append(reply, [job |-> run[r].job, uses |-> a.uses, cut |-> a.cut])
  BY DEF ModelAnswers
<1>3. a.uses \in Seq(Kinds) /\ a.cut \in BOOLEAN /\ Len(a.uses) <= MaxUses
  BY SubagentAssumption
<1> DEFINE b == [job |-> run[r].job, uses |-> a.uses, cut |-> a.cut]
<1>4. b \in Answers /\ b.job = run[r].job /\ Len(b.uses) <= MaxUses
  BY <1>1, <1>3 DEF Answers
<1>5. Len(reply') = Len(reply) + 1
  BY <1>1, <1>2, <1>4, AppendProperties
<1>6. Len(reply) < MaxCalls /\ MaxCalls \in Nat
  BY Types DEF BaseInv, ModelAnswers
<1>7. run' = [run EXCEPT ![r].pc = "release", ![r].call = Len(reply) + 1]
  BY <1>5 DEF ModelAnswers
<1>8. Len(reply) + 1 \in 0..MaxCalls
  BY <1>1, <1>6
<1> DEFINE x == [run[r] EXCEPT !.pc = "release", !.call = Len(reply) + 1]
<1>9. run' = [run EXCEPT ![r] = x]
  BY <1>7
<1>x. x \in Locals
  BY <1>1, <1>8 DEF Locals, Pcs
<1>f. x.pc = "release" /\ x.call = Len(reply) + 1 /\ x.job = run[r].job /\ x.next = run[r].next
  BY <1>1 DEF Locals
<1> HIDE DEF x
<1>10. run'[r] = x /\ Others(r)
  BY <1>1, <1>9, <1>x DEF Others
<1> QED BY <1>2, <1>4, <1>6, <1>f, <1>10

-----------------------------------------------------------------------------
(* What a step of a run does to its locals and its conversation.           *)

\* A message that is not there yet is appended to its conversation.
LEMMA Persists ==
  ASSUME TypeOK, NEW j \in Jobs, NEW i \in Nat, NEW m \in Messages, Persisted(j, i, m)
  PROVE  /\ msgs' \in [Jobs -> Seq(Messages)]
         /\ \A k \in Jobs \ {j} : msgs'[k] = msgs[k]
         /\ i > Len(msgs[j]) => msgs'[j] = Append(msgs[j], m)
         /\ i <= Len(msgs[j]) => msgs'[j] = msgs[j]
<1>1. msgs \in [Jobs -> Seq(Messages)]
  BY Types
<1>2. Append(msgs[j], m) \in Seq(Messages) /\ Len(msgs[j]) \in Nat
  BY <1>1, AppendProperties, LenProperties
<1>3. CASE i > Len(msgs[j])
  <2>1. msgs' = [msgs EXCEPT ![j] = Append(msgs[j], m)]
    BY <1>3 DEF Persisted
  <2> QED BY <1>1, <1>2, <1>3, <2>1
<1>4. CASE ~ (i > Len(msgs[j]))
  BY <1>1, <1>4 DEF Persisted
<1> QED BY <1>3, <1>4

\* What follows for a conversation that grew by one message.
LEMMA Appended ==
  ASSUME NEW S, NEW q \in Seq(S), NEW m \in S, NEW p, p = Append(q, m)
  PROVE  /\ Len(q) \in Nat /\ Len(p) = Len(q) + 1
         /\ \A i \in 1..Len(q) : p[i] = q[i]
         /\ p[Len(q) + 1] = m
         /\ \A i \in 1..Len(p) : i \in 1..Len(q) \/ i = Len(q) + 1
<1>1. Len(q) \in Nat
  BY LenProperties
<1>2. /\ Len(p) = Len(q) + 1 /\ \A i \in 1..Len(q) : p[i] = q[i]
      /\ p[Len(q) + 1] = m
  BY AppendProperties
<1> QED BY <1>1, <1>2

LEMMA StoreAnswerMoves ==
  ASSUME BaseInv, NEW r \in Runs, StoreAnswer(r)
  PROVE  /\ Others(r) /\ run'[r].job = run[r].job /\ run'[r].call = run[r].call
         /\ run'[r].next = run[r].next + 1
         /\ \/ run'[r].pc = "done"
            \/ /\ run'[r].pc = "tools" /\ run'[r].told = <<>>
               /\ \A k \in 1..MaxUses : run'[r].seen[k] = "none"
<1>1. run \in [Runs -> Locals] /\ Idle.seen = [k \in 1..MaxUses |-> "none"]
  BY Types DEF BaseInv, Idle
<1> DEFINE here == [run[r] EXCEPT !.next = @ + 1, !.turns = @ + 1]
           seen == Idle.seen
<1>a. run[r] \in Locals /\ run[r].next + 1 \in Nat /\ run[r].turns + 1 \in Nat
  BY <1>1 DEF Locals
<1>b. here = [run[r] EXCEPT !.next = run[r].next + 1, !.turns = run[r].turns + 1]
  OBVIOUS
<1>2. here \in Locals
  <2> HIDE DEF here
  <2> DEFINE a == run[r].next + 1
             b == run[r].turns + 1
  <2>1. a \in Nat /\ b \in Nat /\ here = [run[r] EXCEPT !.next = a, !.turns = b]
    BY <1>a, <1>b
  <2> HIDE DEF a, b
  <2> QED BY <1>a, <2>1 DEF Locals
<1>3. here.job = run[r].job /\ here.call = run[r].call /\ here.next = run[r].next + 1
  BY <1>1 DEF Locals
<1>4. run' = [run EXCEPT ![r] =
          IF Asked(here.call) = <<>>
          THEN [here EXCEPT !.pc = "done",
                  !.result = IF reply[here.call].cut THEN "max_tokens" ELSE "end_turn"]
          ELSE [here EXCEPT !.pc = "tools", !.told = <<>>, !.seen = seen]]
  BY DEF StoreAnswer
<1>5. seen \in [1..MaxUses -> Status] /\ \A k \in 1..MaxUses : seen[k] = "none"
  BY <1>1 DEF Status
<1> HIDE DEF here, seen
<1>6. CASE Asked(here.call) = <<>>
  <2> DEFINE why == IF reply[here.call].cut THEN "max_tokens" ELSE "end_turn"
  <2>1. why \in Stops
    BY DEF Stops
  <2> DEFINE x == [here EXCEPT !.pc = "done", !.result = why]
  <2>2. run' = [run EXCEPT ![r] = x]
    BY <1>4, <1>6
  <2> HIDE DEF why
  <2>3. x \in Locals
    BY <1>2, <2>1 DEF Locals, Pcs
  <2>4. x.job = here.job /\ x.call = here.call /\ x.next = here.next /\ x.pc = "done"
    BY <1>2 DEF Locals
  <2> HIDE DEF x
  <2>5. Others(r) /\ run'[r] = x
    BY <1>1, <2>2, <2>3 DEF Others
  <2> QED BY <1>3, <2>4, <2>5
<1>7. CASE Asked(here.call) # <<>>
  <2> DEFINE x == [here EXCEPT !.pc = "tools", !.told = <<>>, !.seen = seen]
  <2>2. run' = [run EXCEPT ![r] = x]
    BY <1>4, <1>7
  <2>e. <<>> \in Told
    BY EmptySeq DEF Told
  <2>3. x \in Locals
    BY <1>2, <1>5, <2>e DEF Locals, Pcs
  <2>4. /\ x.job = here.job /\ x.call = here.call /\ x.next = here.next /\ x.pc = "tools"
        /\ x.told = <<>> /\ x.seen = seen
    BY <1>2 DEF Locals
  <2> HIDE DEF x
  <2>5. Others(r) /\ run'[r] = x
    BY <1>1, <2>2, <2>3 DEF Others
  <2> QED BY <1>3, <1>5, <2>4, <2>5
<1> QED BY <1>6, <1>7

LEMMA StoreResultsMoves ==
  ASSUME BaseInv, NEW r \in Runs, StoreResults(r)
  PROVE  /\ Others(r) /\ run'[r].job = run[r].job
         /\ run'[r].next = run[r].next + 1 /\ run'[r].pc = "turn"
<1>1. run \in [Runs -> Locals] /\ <<>> \in Told
  BY Types, EmptySeq DEF BaseInv, Told
<1> DEFINE x == [run[r] EXCEPT !.pc = "turn", !.next = @ + 1, !.told = <<>>]
<1>2. run' = [run EXCEPT ![r] = x]
  BY DEF StoreResults
<1>a. run[r] \in Locals /\ run[r].next + 1 \in Nat
  BY <1>1 DEF Locals
<1>b. x = [run[r] EXCEPT !.pc = "turn", !.next = run[r].next + 1, !.told = <<>>]
  OBVIOUS
<1>3. x \in Locals
  <2> HIDE DEF x
  <2> DEFINE a == run[r].next + 1
  <2>1. a \in Nat /\ x = [run[r] EXCEPT !.pc = "turn", !.next = a, !.told = <<>>]
    BY <1>a, <1>b
  <2> HIDE DEF a
  <2> QED BY <1>1, <1>a, <2>1 DEF Locals, Pcs
<1>4. x.job = run[r].job /\ x.next = run[r].next + 1 /\ x.pc = "turn"
  BY <1>1 DEF Locals
<1> HIDE DEF x
<1>5. Others(r) /\ run'[r] = x
  BY <1>1, <1>2, <1>3 DEF Others
<1> QED BY <1>4, <1>5

LEMMA ClaimMoves ==
  ASSUME TypeOK, NEW r \in Runs, NEW j \in Jobs, Claim(r, j)
  PROVE  Others(r) /\ run'[r].job = j /\ run'[r].pc = "load" /\ run'[r].told = <<>>
<1> DEFINE x == [Idle EXCEPT !.job = j, !.pc = "load"]
<1>1. run \in [Runs -> Locals] /\ run' = [run EXCEPT ![r] = x] /\ Idle.told = <<>>
  BY Types DEF Claim, Idle
<1>2. x \in Locals
  BY IdleType DEF Locals, Pcs
<1>3. x.job = j /\ x.pc = "load" /\ x.told = Idle.told
  BY IdleType DEF Locals
<1> HIDE DEF x
<1>4. Others(r) /\ run'[r] = x
  BY <1>1, <1>2 DEF Others
<1> QED BY <1>1, <1>3, <1>4

LEMMA TurnMoves ==
  ASSUME BaseInv, NEW r \in Runs, Turn(r)
  PROVE  /\ Others(r)
         /\ \/ run'[r] = Idle /\ UNCHANGED lease
            \/ Kept(r) /\ run'[r].pc = "done" /\ UNCHANGED <<lease, owner>>
            \/ /\ Kept(r) /\ run'[r].pc = "call" /\ HasRoom /\ UNCHANGED owner
               /\ lease' = [lease EXCEPT ![r] = "live"]
<1>1. run \in [Runs -> Locals] /\ TypeOK
  BY Types DEF BaseInv
<1>2. CASE run' = [run EXCEPT ![r].pc = "done", ![r].result = "max_turns"] /\ UNCHANGED <<lease, owner>>
  <2> DEFINE x == [run[r] EXCEPT !.pc = "done", !.result = "max_turns"]
  <2>1. run' = [run EXCEPT ![r] = x]
    BY <1>2
  <2>2. x \in Locals
    BY <1>1 DEF Locals, Pcs, Stops
  <2>3. x.job = run[r].job /\ x.next = run[r].next /\ x.call = run[r].call /\ x.pc = "done"
    BY <1>1 DEF Locals
  <2> HIDE DEF x
  <2>4. Others(r) /\ run'[r] = x
    BY <1>1, <2>1, <2>2 DEF Others
  <2> QED BY <1>2, <2>3, <2>4 DEF Kept
<1>3. CASE HasRoom /\ lease' = [lease EXCEPT ![r] = "live"] /\ run' = [run EXCEPT ![r].pc = "call"]
           /\ UNCHANGED owner
  BY <1>1, <1>3, PcMoves DEF Stays, Pcs
<1>4. CASE Over(r) /\ UNCHANGED lease
  BY <1>1, <1>4, OverMoves
<1> QED BY <1>2, <1>3, <1>4 DEF Turn

-----------------------------------------------------------------------------
(* Frames: what was answered and stored stays so.                          *)

Grown ==
  \/ UNCHANGED reply
  \/ /\ Len(reply) < MaxCalls
     /\ \E a \in Answers : reply' = Append(reply, a) /\ Len(a.uses) <= MaxUses

\* Nothing is forgotten of the calls that were answered.
LEMMA Grows ==
  ASSUME BaseInv, Grown
  PROVE  /\ reply' \in Seq(Answers) /\ Len(reply') <= MaxCalls
         /\ Len(reply) \in Nat /\ Len(reply') \in Nat /\ Len(reply) <= Len(reply')
         /\ \A c \in 1..Len(reply) : reply'[c] = reply[c] /\ Asked(c)' = Asked(c)
         /\ \A c \in 1..Len(reply') : Len(Asked(c)') <= MaxUses
<1>1. /\ reply \in Seq(Answers) /\ Len(reply) \in Nat /\ Len(reply) <= MaxCalls /\ MaxCalls \in Nat
      /\ \A c \in 1..Len(reply) : Len(Asked(c)) <= MaxUses
  BY Types DEF BaseInv, Known
<1>2. CASE UNCHANGED reply
  BY <1>1, <1>2 DEF Asked
<1>3. CASE /\ Len(reply) < MaxCalls
           /\ \E a \in Answers : reply' = Append(reply, a) /\ Len(a.uses) <= MaxUses
  <2>1. PICK a \in Answers : reply' = Append(reply, a) /\ Len(a.uses) <= MaxUses
    BY <1>3
  <2>2. /\ Len(reply') = Len(reply) + 1 /\ \A c \in 1..Len(reply) : reply'[c] = reply[c]
        /\ reply'[Len(reply) + 1] = a
        /\ \A c \in 1..Len(reply') : c \in 1..Len(reply) \/ c = Len(reply) + 1
    BY <1>1, <2>1, Appended
  <2>3. reply' \in Seq(Answers)
    BY <1>1, <2>1, AppendProperties
  <2>4. \A c \in 1..Len(reply) : Asked(c)' = Asked(c)
    BY <2>2 DEF Asked
  <2>5. \A c \in 1..Len(reply') : Len(Asked(c)') <= MaxUses
    BY <1>1, <2>1, <2>2, <2>4 DEF Asked
  <2> QED BY <1>1, <1>3, <2>2, <2>3, <2>4, <2>5
<1> QED BY <1>2, <1>3 DEF Grown

LEMMA SpokenStays ==
  ASSUME BaseInv, Grown
  PROVE  \A c, j : Spoken(c, j) => Spoken(c, j)' /\ Asked(c)' = Asked(c)
BY Grows DEF Spoken

LEMMA RunStays ==
  ASSUME BaseInv, Grown, NEW r \in Runs, run'[r] = run[r]
  PROVE  RunKnown(r)'
<1>1. RunKnown(r)
  BY DEF BaseInv, Known
<1>2. run[r].pc \in Tooling \cup Executing => Asked(run[r].call)' = Asked(run[r].call)
  BY <1>1, SpokenStays DEF RunKnown, Tooling, Executing
<1>3. CASE run[r].pc = "idle"
  BY <1>1, <1>3 DEF RunKnown
<1>4. CASE run[r].pc # "idle"
  BY <1>1, <1>2, <1>4, SpokenStays DEF RunKnown, K, Asked
<1> QED BY <1>3, <1>4

\* A step of one run, with the others left alone.
LEMMA BaseFrame ==
  ASSUME BaseInv, NEW r \in Runs, Others(r), RunKnown(r)', Grown,
         msgs' \in [Jobs -> Seq(Messages)], \A j \in Jobs : Stored(msgs[j], j)',
         ledger' \in [Uses -> Status], ran' \in [Uses -> 0..2],
         lease' \in [Runs -> {"none", "live", "lapsed"}], orphans' \in Nat,
         owner' \in [Jobs -> Runs \cup {NoRun}], outcome' \in [Jobs -> Stops \cup {"none"}],
         overlap' \in BOOLEAN, Fault \/ NoFault
  PROVE  BaseInv'
<1>1. \A s \in Runs : RunKnown(s)'
  BY RunStays DEF Others
<1>2. faults' \in 0..MaxFaults
  BY SubagentAssumption DEF BaseInv, TypeOK, Fault, NoFault
<1>3. Known'
  BY <1>1, Grows DEF Known
<1>4. TypeOK'
  BY <1>2, Grows DEF TypeOK, Others, Locals, Messages, Told, Answers, Pcs
<1> QED BY <1>3, <1>4 DEF BaseInv

LEMMA StoredStays ==
  ASSUME BaseInv, Grown, UNCHANGED msgs
  PROVE  msgs' \in [Jobs -> Seq(Messages)] /\ \A j \in Jobs : Stored(msgs[j], j)'
<1>1. msgs \in [Jobs -> Seq(Messages)] /\ \A j \in Jobs : Stored(msgs[j], j)
  BY Types DEF BaseInv, Known
<1> QED BY <1>1, SpokenStays DEF Stored

LEMMA StoredGrows ==
  ASSUME BaseInv, UNCHANGED reply, NEW j \in Jobs, NEW i \in Nat, NEW m \in Messages,
         Persisted(j, i, m), Spoken(m.call, j)
  PROVE  msgs' \in [Jobs -> Seq(Messages)] /\ \A k \in Jobs : Stored(msgs[k], k)'
<1>1. msgs \in [Jobs -> Seq(Messages)] /\ \A k \in Jobs : Stored(msgs[k], k)
  BY Types DEF BaseInv, Known
<1>2. msgs' \in [Jobs -> Seq(Messages)]
  BY Persists DEF BaseInv
<1>3. \A c, k : Spoken(c, k) => Spoken(c, k)'
  BY DEF Spoken
<1>4. ASSUME NEW k \in Jobs, k # j PROVE Stored(msgs[k], k)'
  BY <1>1, <1>3, <1>4, Persists DEF BaseInv, Stored
<1>5. CASE i <= Len(msgs[j])
  <2>1. msgs'[j] = msgs[j]
    BY <1>5, Persists DEF BaseInv
  <2> QED BY <1>1, <1>2, <1>3, <1>4, <2>1 DEF Stored
<1>6. CASE i > Len(msgs[j])
  <2>1. msgs'[j] = Append(msgs[j], m)
    BY <1>6, Persists DEF BaseInv
  <2>2. /\ Len(msgs[j]) \in Nat
        /\ \A n \in 1..Len(msgs[j]) : msgs'[j][n] = msgs[j][n]
        /\ msgs'[j][Len(msgs[j]) + 1] = m
        /\ \A n \in 1..Len(msgs'[j]) : n \in 1..Len(msgs[j]) \/ n = Len(msgs[j]) + 1
    BY <1>1, <2>1, Appended
  <2>3. ASSUME NEW n \in 1..Len(msgs'[j]) PROVE Spoken(msgs[j][n].call, j)'
    <3>1. CASE n \in 1..Len(msgs[j])
      <4>1. Spoken(msgs[j][n].call, j)
        BY <1>1, <3>1 DEF Stored
      <4> QED BY <1>3, <2>2, <3>1, <4>1 DEF Spoken
    <3>2. CASE n = Len(msgs[j]) + 1
      BY <2>2, <3>2 DEF Spoken
    <3> QED BY <2>2, <3>1, <3>2
  <2>4. Stored(msgs[j], j)'
    BY <2>3 DEF Stored
  <2>5. \A k \in Jobs : Stored(msgs[k], k)'
    BY <1>4, <2>4
  <2> QED BY <1>2, <2>5
<1>7. Len(msgs[j]) \in Nat
  BY <1>1, LenProperties
<1> QED BY <1>5, <1>6, <1>7

\* The use a run is at is one of the ledger's.
LEMMA UseTypes ==
  ASSUME BaseInv, NEW r \in Runs, More(r) \/ run[r].pc \in Executing
  PROVE  /\ run[r].pc \in Tooling /\ run[r].job \in Jobs
         /\ Spoken(run[r].call, run[r].job) /\ Len(run[r].told) \in Nat
         /\ K(r) = Len(run[r].told) + 1 /\ K(r) \in 1..MaxUses /\ K(r) <= Len(Asked(run[r].call))
         /\ Use(r) \in Uses
<1>1. run \in [Runs -> Locals] /\ reply \in Seq(Answers) /\ Len(reply) \in 0..MaxCalls /\ MaxUses \in Nat /\ MaxCalls \in Nat
  BY Types DEF BaseInv
<1>2. run[r].pc \in Tooling /\ run[r].pc # "idle"
  BY DEF More, Tooling, Executing
<1>3. run[r].job \in Jobs /\ Spoken(run[r].call, run[r].job) /\ K(r) <= Len(Asked(run[r].call))
  BY <1>2 DEF BaseInv, Known, RunKnown, More, Tooling
<1>4. Len(run[r].told) \in Nat
  <2>1. run[r].told \in Told
    BY <1>1 DEF Locals
  <2> QED BY <2>1, LenProperties DEF Told
<1>5. Len(Asked(run[r].call)) <= MaxUses
  BY <1>3 DEF BaseInv, Known, Spoken
<1>6. Len(Asked(run[r].call)) \in Nat
  <2>1. reply[run[r].call] \in Answers
    BY <1>1, <1>3, ElementOfSeq DEF Spoken
  <2>2. Asked(run[r].call) \in Seq(Kinds)
    BY <2>1 DEF Asked, Answers
  <2> QED BY <2>2, LenProperties
<1>7. K(r) = Len(run[r].told) + 1 /\ K(r) \in 1..MaxUses
  BY <1>1, <1>3, <1>4, <1>5, <1>6 DEF K
<1>8. run[r].call \in Calls
  BY <1>1, <1>3 DEF Spoken, Calls
<1>9. Use(r) \in Uses
  BY <1>7, <1>8 DEF Use, Uses
<1> QED BY <1>2, <1>3, <1>4, <1>7, <1>9

LEMMA MarkTypes ==
  ASSUME BaseInv, NEW u \in Uses, NEW status \in Status, Mark(u, status)
  PROVE  ledger' \in [Uses -> Status] /\ ledger'[u] = status
         /\ \A v \in Uses \ {u} : ledger'[v] = ledger[v]
BY DEF BaseInv, TypeOK, Mark

-----------------------------------------------------------------------------
(* The type invariant.                                                     *)

LEMMA BaseInit == Init => BaseInv
<1> SUFFICES ASSUME Init PROVE BaseInv
  OBVIOUS
<1>1. run \in [Runs -> Locals] /\ \A r \in Runs : run[r] = Idle
  BY IdleType DEF Init
<1>2. Len(reply) = 0 /\ reply \in Seq(Answers) /\ \A j \in Jobs : Len(msgs[j]) = 0
  BY EmptySeq DEF Init
<1>3. msgs \in [Jobs -> Seq(Messages)]
  BY EmptySeq DEF Init
<1>4. \A r \in Runs : RunKnown(r)
  BY <1>1 DEF RunKnown, Idle
<1>5. Known
  BY <1>2, <1>4 DEF Known, Stored
<1>6. faults \in 0..MaxFaults /\ Len(reply) <= MaxCalls
  BY <1>2, SubagentAssumption DEF Init
<1>7. /\ ledger \in [Uses -> Status] /\ ran \in [Uses -> 0..2] /\ orphans \in Nat
      /\ lease \in [Runs -> {"none", "live", "lapsed"}] /\ owner \in [Jobs -> Runs \cup {NoRun}]
      /\ outcome \in [Jobs -> Stops \cup {"none"}]
  <2>1. /\ ledger = [u \in Uses |-> "none"] /\ ran = [u \in Uses |-> 0]
        /\ lease = [r \in Runs |-> "none"] /\ orphans = 0
        /\ owner = [j \in Jobs |-> NoRun] /\ outcome = [j \in Jobs |-> "none"]
    BY DEF Init
  <2> QED BY <2>1 DEF Status
<1>8. overlap \in BOOLEAN
  BY DEF Init
<1>9. /\ reply \in Seq([job : Jobs, uses : Seq(Kinds), cut : BOOLEAN])
      /\ msgs \in [Jobs -> Seq([role : {"assistant", "user"}, call : Calls,
                            told : Seq({"ok", "error"})])]
  BY <1>2, <1>3 DEF Messages, Answers, Told
<1>10. run \in [Runs -> [job : Jobs \cup {NoJob},
                       pc : {"idle", "load", "loadLedger", "turn", "call", "release", "store",
                             "tools", "execute", "succeeded", "threw", "done"},
                       next : Nat, turns : Nat, call : 0..MaxCalls,
                       seen : [1..MaxUses -> Status],
                       told : Seq({"ok", "error"}), result : Stops \cup {"none"}]]
  BY <1>1 DEF Locals, Told, Pcs
<1>11. TypeOK
  BY <1>6, <1>7, <1>8, <1>9, <1>10, Zenon DEF TypeOK
<1> QED BY <1>5, <1>11 DEF BaseInv

\* What a step leaves alone keeps its type.
LEMMA SameTypes ==
  ASSUME BaseInv
  PROVE  /\ ledger \in [Uses -> Status] /\ ran \in [Uses -> 0..2]
         /\ lease \in [Runs -> {"none", "live", "lapsed"}] /\ orphans \in Nat
         /\ owner \in [Jobs -> Runs \cup {NoRun}] /\ outcome \in [Jobs -> Stops \cup {"none"}]
         /\ overlap \in BOOLEAN
BY DEF BaseInv, TypeOK

\* A step that changes nothing but the locals of its run and their ledger.
LEMMA LocalFrame ==
  ASSUME BaseInv, NEW r \in Runs, Others(r), RunKnown(r)', UNCHANGED <<msgs, reply>>,
         ledger' \in [Uses -> Status], ran' \in [Uses -> 0..2],
         UNCHANGED <<rates, queue>>, Fault \/ NoFault
  PROVE  BaseInv'
<1>1. Grown
  BY DEF Grown
<1> QED BY <1>1, BaseFrame, StoredStays, SameTypes DEF rates, queue

LEMMA OverFrame ==
  ASSUME BaseInv, NEW r \in Runs, Over(r), UNCHANGED <<msgs, reply, ledger, ran, overlap>>,
         lease' \in [Runs -> {"none", "live", "lapsed"}], orphans' \in Nat,
         outcome' \in [Jobs -> Stops \cup {"none"}], Fault \/ NoFault
  PROVE  BaseInv'
<1>1. Grown
  BY DEF Grown
<1>2. Others(r) /\ run'[r] = Idle /\ owner' \in [Jobs -> Runs \cup {NoRun}]
  BY OverMoves DEF BaseInv
<1>3. RunKnown(r)'
  BY <1>2 DEF RunKnown, Idle
<1> QED BY <1>1, <1>2, <1>3, BaseFrame, StoredStays, SameTypes

LEMMA DropTypes ==
  ASSUME BaseInv, NEW r \in Runs, Drop(r)
  PROVE  lease' \in [Runs -> {"none", "live", "lapsed"}] /\ orphans' \in Nat
<1>1. lease \in [Runs -> {"none", "live", "lapsed"}] /\ orphans \in Nat
  BY SameTypes
<1>2. orphans + 1 \in Nat /\ orphans + 0 \in Nat
  BY <1>1
<1>3. orphans' \in Nat
  BY <1>1, <1>2 DEF Drop
<1> QED BY <1>1, <1>3 DEF Drop

LEMMA RunNow == ASSUME BaseInv, NEW r \in Runs PROVE RunKnown(r)
BY DEF BaseInv, Known

LEMMA BaseClaim ==
  ASSUME BaseInv, NEW r \in Runs, NEW j \in Jobs, Claim(r, j) PROVE BaseInv'
<1>1. Others(r) /\ run'[r].job = j /\ run'[r].pc = "load" /\ run'[r].told = <<>>
  BY ClaimMoves DEF BaseInv
<1>2. RunKnown(r)'
  BY <1>1 DEF RunKnown, Called, Tooling, Executing
<1>3. overlap' \in BOOLEAN /\ owner' \in [Jobs -> Runs \cup {NoRun}]
  BY SameTypes DEF Claim
<1>4. Grown /\ UNCHANGED <<msgs, ledger, ran, lease, orphans, outcome>> /\ NoFault
  BY DEF Claim, Grown, table, model, rates
<1> QED BY <1>1, <1>2, <1>3, <1>4, BaseFrame, StoredStays, SameTypes

LEMMA BaseDie == ASSUME BaseInv, NEW r \in Runs, Die(r) PROVE BaseInv'
<1>1. /\ Over(r) /\ Drop(r) /\ Fault
      /\ UNCHANGED <<msgs, reply, ledger, ran, overlap, outcome>>
  BY DEF Die, table, model
<1> QED BY <1>1, OverFrame, DropTypes, SameTypes

LEMMA BaseFinish == ASSUME BaseInv, NEW r \in Runs, Finish(r) PROVE BaseInv'
<1>1. /\ Over(r) /\ NoFault
      /\ UNCHANGED <<msgs, reply, ledger, ran, overlap, lease, orphans>>
  BY DEF Finish, table, model, rates
<1>2. run[r].result \in Stops \cup {"none"}
  <2>1. run[r] \in Locals
    BY Types DEF BaseInv
  <2> QED BY <2>1 DEF Locals
<1>3. outcome' \in [Jobs -> Stops \cup {"none"}]
  BY <1>2, SameTypes DEF Finish
<1> QED BY <1>1, <1>3, OverFrame, SameTypes

LEMMA BaseRefuseRerun == ASSUME BaseInv, NEW r \in Runs, RefuseRerun(r) PROVE BaseInv'
<1>1. /\ Over(r) /\ NoFault
      /\ UNCHANGED <<msgs, reply, ledger, ran, overlap, lease, orphans, outcome>>
  BY DEF RefuseRerun, table, model, rates
<1> QED BY <1>1, OverFrame, SameTypes

LEMMA BaseLoadMessages == ASSUME BaseInv, NEW r \in Runs, LoadMessages(r) PROVE BaseInv'
<1>1. PICK x \in Locals :
           /\ Moves(r, x) /\ x.job = run[r].job /\ x.told = run[r].told
           /\ \/ x.pc = "turn"
              \/ x.pc = "done"
              \/ /\ x.pc = "loadLedger" /\ Len(msgs[x.job]) # 0
                 /\ x.call = msgs[x.job][Len(msgs[x.job])].call
  BY LoadMoves
<1>2. run'[r] = x /\ Others(r)
  BY <1>1, MovesOne DEF Others, BaseInv
<1>3. run[r].job \in Jobs /\ run[r].told = <<>> /\ UNCHANGED <<msgs, reply, ledger, ran, rates, queue>> /\ NoFault
  BY RunNow DEF RunKnown, LoadMessages, table, model
<1>4. ASSUME x.pc = "loadLedger" PROVE Spoken(x.call, x.job)
  <2>1. Len(msgs[x.job]) \in Nat /\ Len(msgs[x.job]) # 0 /\ x.job \in Jobs /\ x.call = msgs[x.job][Len(msgs[x.job])].call
    BY <1>1, <1>3, <1>4, Types, LenProperties DEF BaseInv
  <2>2. Stored(msgs[x.job], x.job) /\ Len(msgs[x.job]) \in 1..Len(msgs[x.job])
    BY <2>1 DEF BaseInv, Known
  <2> QED BY <2>1, <2>2 DEF Stored
<1>5. x.pc = "loadLedger" => x.call \in 1..Len(reply') /\ reply'[x.call].job = x.job
  BY <1>3, <1>4 DEF Spoken
<1>6. RunKnown(r)'
  BY <1>1, <1>2, <1>3, <1>5 DEF RunKnown, Called, Tooling, Executing, Spoken
<1> QED BY <1>2, <1>3, <1>6, LocalFrame, SameTypes

LEMMA BaseLoadLedger == ASSUME BaseInv, NEW r \in Runs, LoadLedger(r) PROVE BaseInv'
<1>1. Others(r) /\ Kept(r) /\ run'[r].told = run[r].told /\ run'[r].pc = "tools"
  BY LedgerMoves
<1>2. /\ run[r].job \in Jobs /\ run[r].told = <<>> /\ Spoken(run[r].call, run[r].job)
      /\ UNCHANGED <<msgs, reply, ledger, ran, rates, queue>> /\ NoFault
  BY RunNow DEF RunKnown, LoadLedger, table, model
<1>3. Len(Asked(run[r].call)) \in Nat
  <2>1. reply \in Seq(Answers)
    BY Types DEF BaseInv
  <2>2. reply[run[r].call] \in Answers
    BY <1>2, <2>1, ElementOfSeq DEF Spoken
  <2>3. Asked(run[r].call) \in Seq(Kinds)
    BY <2>2 DEF Asked, Answers
  <2> QED BY <2>3, LenProperties
<1>4. Len(run[r].told) = 0
  BY <1>2
<1>5. RunKnown(r)'
  BY <1>1, <1>2, <1>3, <1>4 DEF RunKnown, Called, Tooling, Executing, Spoken, Kept, Asked
<1> QED BY <1>1, <1>2, <1>5, LocalFrame, SameTypes

LEMMA BaseTurn == ASSUME BaseInv, NEW r \in Runs, Turn(r) PROVE BaseInv'
<1>1. /\ Others(r)
      /\ \/ run'[r] = Idle /\ UNCHANGED lease
         \/ Kept(r) /\ run'[r].pc = "done" /\ UNCHANGED <<lease, owner>>
         \/ /\ Kept(r) /\ run'[r].pc = "call" /\ UNCHANGED owner
            /\ lease' = [lease EXCEPT ![r] = "live"]
  BY TurnMoves
<1>2. /\ UNCHANGED <<msgs, reply, ledger, ran, orphans, outcome, overlap>> /\ NoFault /\ run[r].pc = "turn"
  BY DEF Turn, table, model
<1>3. run[r].job \in Jobs
  BY <1>2, RunNow DEF RunKnown
<1>4. RunKnown(r)'
  BY <1>1, <1>3 DEF RunKnown, Idle, Kept, Called, Tooling, Executing
<1>5. lease' \in [Runs -> {"none", "live", "lapsed"}]
  BY <1>1, SameTypes
<1>6. owner' \in [Jobs -> Runs \cup {NoRun}]
  BY SameTypes DEF Turn, Over
<1>7. Grown
  BY <1>2 DEF Grown
<1> QED BY <1>1, <1>2, <1>4, <1>5, <1>6, <1>7, BaseFrame, StoredStays, SameTypes

LEMMA BaseModelAnswers == ASSUME BaseInv, NEW r \in Runs, ModelAnswers(r) PROVE BaseInv'
<1>1. /\ Others(r) /\ run'[r].pc = "release" /\ run'[r].call = Len(reply) + 1
      /\ run'[r].job = run[r].job
  BY AnswerMoves
<1>2. PICK a \in Answers : reply' = Append(reply, a) /\ a.job = run[r].job /\ Len(a.uses) <= MaxUses
  BY AnswerMoves
<1>3. Grown
  BY <1>2 DEF Grown, ModelAnswers
<1>4. /\ UNCHANGED <<msgs, ledger, ran, rates, queue>> /\ NoFault /\ run[r].pc = "call"
  BY DEF ModelAnswers, table
<1>5. run[r].job \in Jobs
  BY <1>4, RunNow DEF RunKnown
<1>6. Len(reply) + 1 \in 1..Len(reply') /\ reply'[Len(reply) + 1] = a
  BY <1>2, Types, Appended DEF BaseInv
<1>7. RunKnown(r)'
  BY <1>1, <1>2, <1>5, <1>6 DEF RunKnown, Spoken, Called, Tooling, Executing
<1> QED BY <1>1, <1>3, <1>4, <1>7, BaseFrame, StoredStays, SameTypes DEF rates, queue

LEMMA BaseRelease == ASSUME BaseInv, NEW r \in Runs, Release(r) PROVE BaseInv'
<1>1. Others(r) /\ Stays(r) /\ run'[r].pc = "store"
  BY PcMoves DEF Release, BaseInv, Pcs
<1>2. UNCHANGED <<msgs, ledger, reply, ran, queue>> /\ run[r].pc = "release" /\ (Fault \/ NoFault) /\ Drop(r)
  BY DEF Release, table, model
<1>3. RunKnown(r)'
  BY <1>1, <1>2, RunNow DEF RunKnown, Spoken, Called, Tooling, Executing, Stays, Kept
<1>4. Grown
  BY <1>2 DEF Grown
<1> QED BY <1>1, <1>2, <1>3, <1>4, DropTypes, BaseFrame, StoredStays, SameTypes DEF queue

LEMMA BaseStoreAnswer == ASSUME BaseInv, NEW r \in Runs, StoreAnswer(r) PROVE BaseInv'
<1>1. /\ Others(r) /\ run'[r].job = run[r].job /\ run'[r].call = run[r].call
      /\ run'[r].pc = "done" \/ (run'[r].pc = "tools" /\ run'[r].told = <<>>)
  BY StoreAnswerMoves
<1>2. /\ UNCHANGED <<ledger, reply, ran, rates, queue>> /\ run[r].pc = "store" /\ NoFault
  BY DEF StoreAnswer, model
<1>3. run[r].job \in Jobs /\ Spoken(run[r].call, run[r].job)
  BY <1>2, RunNow DEF RunKnown, Called
<1> DEFINE m == [role |-> "assistant", call |-> run[r].call, told |-> <<>>]
<1>4. Persisted(run[r].job, run[r].next, m) /\ run[r].next \in Nat /\ <<>> \in Told
  BY Types, EmptySeq DEF StoreAnswer, BaseInv, Locals, Told
<1>5. run[r].call \in Calls /\ reply \in Seq(Answers)
  BY <1>3, Types DEF BaseInv, Spoken, Calls
<1>6. m \in Messages /\ m.call = run[r].call
  BY <1>4, <1>5 DEF Messages
<1> HIDE DEF m
<1>7. msgs' \in [Jobs -> Seq(Messages)] /\ \A k \in Jobs : Stored(msgs[k], k)'
  BY <1>2, <1>3, <1>4, <1>6, StoredGrows
<1>8. Len(Asked(run[r].call)) \in Nat
  <2>2. reply[run[r].call] \in Answers
    BY <1>3, <1>5, ElementOfSeq DEF Spoken
  <2>3. Asked(run[r].call) \in Seq(Kinds)
    BY <2>2 DEF Asked, Answers
  <2> QED BY <2>3, LenProperties
<1>9. RunKnown(r)'
  BY <1>1, <1>2, <1>3, <1>8 DEF RunKnown, Spoken, Called, Tooling, Executing, Asked
<1>10. Grown
  BY <1>2 DEF Grown
<1> QED BY <1>1, <1>2, <1>7, <1>9, <1>10, BaseFrame, SameTypes DEF rates, queue

LEMMA BaseStoreResults == ASSUME BaseInv, NEW r \in Runs, StoreResults(r) PROVE BaseInv'
<1>1. Others(r) /\ run'[r].job = run[r].job /\ run'[r].pc = "turn"
  BY StoreResultsMoves
<1>2. /\ UNCHANGED <<ledger, reply, ran, rates, queue>> /\ run[r].pc = "tools" /\ NoFault
  BY DEF StoreResults, model
<1>3. run[r].job \in Jobs /\ Spoken(run[r].call, run[r].job)
  BY <1>2, RunNow DEF RunKnown, Tooling
<1> DEFINE m == [role |-> "user", call |-> run[r].call, told |-> run[r].told]
<1>4. Persisted(run[r].job, run[r].next, m) /\ run[r].next \in Nat /\ run[r].told \in Told
  BY Types DEF StoreResults, BaseInv, Locals
<1>5. run[r].call \in Calls
  BY <1>3, Types DEF BaseInv, Spoken, Calls
<1>6. m \in Messages /\ m.call = run[r].call
  BY <1>4, <1>5 DEF Messages
<1> HIDE DEF m
<1>7. msgs' \in [Jobs -> Seq(Messages)] /\ \A k \in Jobs : Stored(msgs[k], k)'
  BY <1>2, <1>3, <1>4, <1>6, StoredGrows
<1>9. RunKnown(r)'
  BY <1>1, <1>3 DEF RunKnown, Called, Tooling, Executing
<1>10. Grown
  BY <1>2 DEF Grown
<1> QED BY <1>1, <1>2, <1>7, <1>9, <1>10, BaseFrame, SameTypes DEF rates, queue

\* One more use is told of.
LEMMA ToldKnown ==
  ASSUME BaseInv, NEW r \in Runs, More(r) \/ run[r].pc \in Executing,
         NEW what \in {"ok", "error"}, Tell(r, what), UNCHANGED reply
  PROVE  Others(r) /\ RunKnown(r)'
<1>1. /\ Others(r) /\ Kept(r) /\ run'[r].pc = "tools"
      /\ run'[r].told = Append(run[r].told, what)
  BY TellMoves DEF BaseInv
<1>2. /\ run[r].job \in Jobs /\ Spoken(run[r].call, run[r].job)
      /\ K(r) = Len(run[r].told) + 1 /\ K(r) <= Len(Asked(run[r].call))
  BY UseTypes
<1>3. Len(run'[r].told) = Len(run[r].told) + 1
  <2>1. run[r].told \in Seq({"ok", "error"})
    BY Types DEF BaseInv, Locals, Told
  <2> QED BY <1>1, <2>1, AppendProperties
<1> QED BY <1>1, <1>2, <1>3 DEF RunKnown, Kept, Spoken, Asked, Called, Tooling, Executing

\* The counter of a run that executes moves on, the use it is at does not.
LEMMA ExecKnown ==
  ASSUME BaseInv, NEW r \in Runs, More(r) \/ run[r].pc \in Executing,
         NEW p \in Executing, run' = [run EXCEPT ![r].pc = p], UNCHANGED reply
  PROVE  Others(r) /\ RunKnown(r)'
<1>1. Others(r) /\ Stays(r) /\ run'[r].pc = p
  BY PcMoves DEF BaseInv, Executing, Pcs
<1>2. /\ run[r].job \in Jobs /\ Spoken(run[r].call, run[r].job) /\ Len(run[r].told) \in Nat
      /\ K(r) = Len(run[r].told) + 1 /\ K(r) <= Len(Asked(run[r].call))
  BY UseTypes
<1>3. Asked(run[r].call)' = Asked(run'[r].call) /\ K(r)' = K(r)
  BY <1>1 DEF Asked, Stays, Kept, K
<1>4. Len(run[r].told) <= Len(Asked(run[r].call))
  BY <1>2, RunNow DEF RunKnown, More, Tooling
<1> QED BY <1>1, <1>2, <1>3, <1>4 DEF RunKnown, Stays, Kept, Spoken, Asked, Called, Tooling, Executing

LEMMA BaseTells ==
  ASSUME BaseInv, NEW r \in Runs, Replay(r) \/ RefuseUnknown(r) \/ Fail(r)
  PROVE  BaseInv'
<1>1. More(r) \/ run[r].pc \in Executing
  BY DEF Replay, RefuseUnknown, Fail, Executing
<1>2. PICK what \in {"ok", "error"} : Tell(r, what)
  BY DEF Replay, RefuseUnknown, Fail
<1>3. UNCHANGED <<msgs, reply, ran, rates, queue>> /\ NoFault
  BY DEF Replay, RefuseUnknown, Fail, table, model
<1>4. ledger' \in [Uses -> Status]
  BY <1>1, UseTypes, MarkTypes, SameTypes DEF Replay, RefuseUnknown, Fail, table, Status
<1> QED BY <1>1, <1>2, <1>3, <1>4, ToldKnown, LocalFrame, SameTypes

LEMMA BaseBegin == ASSUME BaseInv, NEW r \in Runs, Begin(r) PROVE BaseInv'
<1>1. More(r) /\ UNCHANGED <<msgs, reply, ran, rates, queue>> /\ NoFault /\ Use(r) \in Uses
  BY UseTypes DEF Begin, model
<1>2. ledger' \in [Uses -> Status]
  BY <1>1, SameTypes DEF Begin, Mark, Status
<1>3. run' = [run EXCEPT ![r].pc = "execute"] /\ "execute" \in Executing
  BY DEF Begin, Executing
<1> QED BY <1>1, <1>2, <1>3, ExecKnown, LocalFrame, SameTypes

LEMMA BaseExecute == ASSUME BaseInv, NEW r \in Runs, Execute(r) PROVE BaseInv'
<1>1. run[r].pc \in Executing /\ UNCHANGED <<msgs, ledger, reply, rates, queue>> /\ (Fault \/ NoFault)
  BY DEF Execute, Executing, table
<1>2. ran' \in [Uses -> 0..2]
  <2> DEFINE n == IF ran[Use(r)] < 2 THEN ran[Use(r)] + 1 ELSE 2
  <2>1. ran[Use(r)] \in 0..2 /\ ran \in [Uses -> 0..2]
    BY <1>1, UseTypes, SameTypes
  <2>2. n \in 0..2
    BY <2>1
  <2>3. ran' = [ran EXCEPT ![Use(r)] = n]
    BY DEF Execute
  <2> QED BY <2>1, <2>2, <2>3
<1>3. PICK p \in Executing : run' = [run EXCEPT ![r].pc = p]
  BY DEF Execute, Executing
<1> QED BY <1>1, <1>2, <1>3, ExecKnown, LocalFrame, SameTypes

LEMMA BaseComplete == ASSUME BaseInv, NEW r \in Runs, Complete(r) PROVE BaseInv'
<1>1. run[r].pc \in Executing /\ UNCHANGED <<msgs, reply, ran, rates, queue>> /\ (Fault \/ NoFault)
  BY DEF Complete, Executing, model
<1>2. ledger' \in [Uses -> Status]
  BY SameTypes DEF Complete, Mark, Status
<1>3. Others(r) /\ RunKnown(r)'
  <2>1. CASE Tell(r, "ok")
    BY <1>1, <2>1, ToldKnown
  <2>2. CASE run' = [run EXCEPT ![r].pc = "threw"]
    BY <1>1, <2>2, ExecKnown DEF Executing
  <2> QED BY <2>1, <2>2 DEF Complete
<1> QED BY <1>1, <1>2, <1>3, LocalFrame, SameTypes

LEMMA BaseElsewhere ==
  ASSUME BaseInv, (\E r \in Runs : LeaseLapses(r)) \/ (\E j \in Jobs : LoseLock(j))
                  \/ OrphanExpires \/ UNCHANGED vars
  PROVE  BaseInv'
<1>1. UNCHANGED <<msgs, ledger, reply, ran, outcome, overlap, run>> 
  BY DEF LeaseLapses, LoseLock, OrphanExpires, vars, table, model, rates, queue
<1>2. faults' \in 0..MaxFaults
  BY SubagentAssumption DEF BaseInv, TypeOK, LeaseLapses, LoseLock, OrphanExpires, vars, Fault, NoFault
<1>3. lease' \in [Runs -> {"none", "live", "lapsed"}]
  BY SameTypes DEF LeaseLapses, LoseLock, OrphanExpires, vars, rates
<1>4. orphans' \in Nat
  BY SameTypes DEF LeaseLapses, LoseLock, OrphanExpires, vars, rates
<1>5. owner' \in [Jobs -> Runs \cup {NoRun}]
  BY SameTypes DEF LeaseLapses, LoseLock, OrphanExpires, vars, queue
<1>6. TypeOK'
  BY <1>1, <1>2, <1>3, <1>4, <1>5 DEF BaseInv, TypeOK
<1>7. Known'
  <2>1. Known
    BY DEF BaseInv
  <2> QED BY <1>1, <2>1 DEF Known, Stored, RunKnown, Spoken, Asked, K
<1> QED BY <1>6, <1>7 DEF BaseInv

LEMMA BaseStep == ASSUME BaseInv, [Next]_vars PROVE BaseInv'
<1>1. ASSUME NEW r \in Runs, Proceed(r) PROVE BaseInv'
  BY <1>1, BaseLoadMessages, BaseLoadLedger, BaseTurn, BaseModelAnswers, BaseRelease,
     BaseStoreAnswer, BaseTells, BaseRefuseRerun, BaseBegin, BaseExecute, BaseComplete,
     BaseStoreResults, BaseFinish DEF Proceed
<1> QED BY <1>1, BaseDie, BaseClaim, BaseElsewhere DEF Next

\* The messages, ledgers, leases and locals have the types the loop declares.
THEOREM TypeCorrect == Spec => []TypeOK
<1>1. BaseInv => TypeOK
  BY DEF BaseInv
<1> QED BY <1>1, BaseInit, BaseStep, PTL DEF Spec

-----------------------------------------------------------------------------
(* The rate leases.                                                        *)

Leased == {"call", "release"}
Live   == {r \in Runs : lease[r] = "live"}

\* No more than Cap leases are alive, and a run has one around its call only.
LeasesHeld ==
  /\ Held <= Cap
  /\ \A r \in Runs : run[r].pc \in Leased <=> lease[r] # "none"

LeaseInv == BaseInv /\ LeasesHeld

LEMMA LiveCount ==
  ASSUME BaseInv
  PROVE  IsFiniteSet(Live) /\ Cardinality(Live) \in Nat /\ Held = Cardinality(Live) + orphans
<1>1. IsFiniteSet(Runs) /\ Live \subseteq Runs
  BY SubagentAssumption DEF Live
<1>2. IsFiniteSet(Live)
  BY <1>1, FS_Subset
<1> QED BY <1>2, FS_CardinalityType DEF Held, Live

\* A step that leaves the leases alone neither enters nor leaves a call.
LEMMA LeaseFrame ==
  ASSUME LeaseInv, NEW r \in Runs, Others(r), UNCHANGED rates,
         run'[r].pc \in Leased <=> run[r].pc \in Leased
  PROVE  LeasesHeld'
<1>1. Held' = Held
  BY DEF Held, rates
<1> QED BY <1>1 DEF LeaseInv, LeasesHeld, Others, rates

LEMMA LeaseInit == Init => LeasesHeld
<1> SUFFICES ASSUME Init PROVE LeasesHeld
  OBVIOUS
<1>1. BaseInv
  BY BaseInit
<1>2. Live = {} /\ orphans = 0 /\ Cap \in Nat
  BY SubagentAssumption DEF Live, Init
<1>3. Held = 0
  BY <1>1, <1>2, LiveCount, FS_EmptySet
<1> QED BY <1>2, <1>3 DEF LeasesHeld, Init, Idle, Leased

\* A run that gives its lease back, or is over, holds no lease; what it held
\* may stay as an orphan.
LEMMA LeaseDrop ==
  ASSUME LeaseInv, NEW r \in Runs, Others(r), Drop(r), run'[r].pc \notin Leased
  PROVE  LeasesHeld'
<1>1. BaseInv /\ LeasesHeld /\ Cap \in Nat /\ orphans \in Nat
      /\ lease \in [Runs -> {"none", "live", "lapsed"}]
  BY SubagentAssumption, SameTypes DEF LeaseInv
<1>2. Live' = Live \ {r} /\ \A s \in Runs \ {r} : lease'[s] = lease[s]
  BY <1>1 DEF Live, Drop
<1>3. lease'[r] = "none"
  BY <1>1 DEF Drop
<1>4. Held' = Cardinality(Live') + orphans'
  BY DEF Held, Live
<1>5. Held' <= Held
  <2>1. CASE r \in Live
    <3>1. Cardinality(Live') = Cardinality(Live) - 1
      BY <1>1, <1>2, <2>1, LiveCount, FS_RemoveElement
    <3>2. lease[r] = "live" /\ orphans' \in {orphans, orphans + 1}
      BY <2>1 DEF Live, Drop
    <3> QED BY <1>1, <1>4, <3>1, <3>2, LiveCount
  <2>2. CASE r \notin Live
    <3>1. Live' = Live
      BY <1>2, <2>2
    <3>2. orphans' \in {orphans, orphans + 0}
      BY <2>2 DEF Live, Drop
    <3> QED BY <1>1, <1>4, <3>1, <3>2, LiveCount
  <2> QED BY <2>1, <2>2
<1>6. Held' \in Int /\ Held \in Int
  <2>1. BaseInv /\ IsFiniteSet(Live')
    BY <1>1, <1>2, LiveCount, FS_RemoveElement
  <2>2. orphans' \in Nat
    BY <1>1, DropTypes
  <2> QED BY <1>1, <1>4, <2>1, <2>2, LiveCount, FS_CardinalityType
<1>7. Held' <= Cap
  BY <1>1, <1>5, <1>6 DEF LeasesHeld
<1>8. \A s \in Runs : run'[s].pc \in Leased <=> lease'[s] # "none"
  BY <1>1, <1>2, <1>3 DEF LeasesHeld, Others
<1> QED BY <1>7, <1>8 DEF LeasesHeld

LEMMA LeaseTaken ==
  ASSUME LeaseInv, NEW r \in Runs, Others(r), HasRoom, UNCHANGED orphans,
         lease' = [lease EXCEPT ![r] = "live"], run'[r].pc = "call"
  PROVE  LeasesHeld'
<1>1. BaseInv /\ LeasesHeld /\ Cap \in Nat /\ orphans \in Nat
      /\ lease \in [Runs -> {"none", "live", "lapsed"}]
  BY SubagentAssumption, SameTypes DEF LeaseInv
<1>2. Live' = Live \cup {r} /\ lease'[r] = "live" /\ \A s \in Runs \ {r} : lease'[s] = lease[s]
  BY <1>1 DEF Live
<1>3. Held' = Cardinality(Live') + orphans
  BY DEF Held, Live
<1>4. Cardinality(Live') \in {Cardinality(Live), Cardinality(Live) + 1}
  BY <1>1, <1>2, LiveCount, FS_AddElement
<1>5. Held' <= Cap
  BY <1>1, <1>3, <1>4, LiveCount DEF HasRoom
<1> QED BY <1>1, <1>2, <1>5 DEF LeasesHeld, Others, Leased

LEMMA LeaseLost ==
  ASSUME LeaseInv, NEW r \in Runs, LeaseLapses(r) PROVE LeasesHeld'
<1>1. BaseInv /\ LeasesHeld /\ Cap \in Nat /\ orphans \in Nat
      /\ lease \in [Runs -> {"none", "live", "lapsed"}]
  BY SubagentAssumption, SameTypes DEF LeaseInv
<1>2. lease[r] = "live" /\ lease' = [lease EXCEPT ![r] = "lapsed"] /\ UNCHANGED <<orphans, run>>
  BY DEF LeaseLapses
<1>3. Live' = Live \ {r} /\ r \in Live
  BY <1>1, <1>2 DEF Live
<1>4. Cardinality(Live') = Cardinality(Live) - 1
  BY <1>1, <1>3, LiveCount, FS_RemoveElement
<1>5. Held' = Cardinality(Live') + orphans
  BY <1>2 DEF Held, Live
<1>6. Held' <= Cap
  BY <1>1, <1>4, <1>5, LiveCount DEF LeasesHeld
<1>7. \A s \in Runs : lease'[s] # "none" <=> lease[s] # "none"
  BY <1>1, <1>2
<1> QED BY <1>1, <1>2, <1>6, <1>7 DEF LeasesHeld

LEMMA OrphanGone == ASSUME LeaseInv, OrphanExpires PROVE LeasesHeld'
<1>1. BaseInv /\ LeasesHeld /\ Cap \in Nat /\ orphans \in Nat
  BY SubagentAssumption, SameTypes DEF LeaseInv
<1>2. UNCHANGED <<lease, run>> /\ orphans' = orphans - 1
  BY DEF OrphanExpires
<1>3. Held' = Cardinality(Live) + orphans'
  BY <1>2 DEF Held, Live
<1>4. Held' <= Cap
  BY <1>1, <1>2, <1>3, LiveCount DEF LeasesHeld
<1> QED BY <1>1, <1>2, <1>4 DEF LeasesHeld

LEMMA LeaseProceed == ASSUME LeaseInv, NEW r \in Runs, Proceed(r) PROVE LeasesHeld'
<1> USE DEF Leased
<1>0. BaseInv /\ TypeOK
  BY DEF LeaseInv, BaseInv
<1>1. CASE LoadMessages(r)
  <2>1. PICK x \in Locals : Moves(r, x) /\ x.pc \in {"turn", "done", "loadLedger"}
    BY <1>0, <1>1, LoadMoves
  <2>2. Others(r) /\ run'[r] = x
    BY <1>0, <2>1, MovesOne DEF Others
  <2> QED BY <1>1, <2>1, <2>2, LeaseFrame DEF LoadMessages
<1>2. CASE LoadLedger(r)
  BY <1>0, <1>2, LedgerMoves, LeaseFrame DEF LoadLedger
<1>3. CASE Turn(r)
  <2>1. run[r].pc = "turn" /\ UNCHANGED orphans
    BY <1>3 DEF Turn
  <2>2. CASE run'[r] = Idle /\ UNCHANGED lease
    BY <1>0, <1>3, <2>1, <2>2, TurnMoves, LeaseFrame DEF Idle, rates
  <2>3. CASE run'[r].pc = "done" /\ UNCHANGED lease
    BY <1>0, <1>3, <2>1, <2>3, TurnMoves, LeaseFrame DEF rates
  <2>4. CASE run'[r].pc = "call" /\ HasRoom /\ lease' = [lease EXCEPT ![r] = "live"]
    BY <1>0, <1>3, <2>1, <2>4, TurnMoves, LeaseTaken
  <2> QED BY <1>0, <1>3, <2>2, <2>3, <2>4, TurnMoves
<1>4. CASE ModelAnswers(r)
  BY <1>0, <1>4, AnswerMoves, LeaseFrame DEF ModelAnswers
<1>5. CASE Release(r)
  <2>1. Others(r) /\ run'[r].pc = "store"
    BY <1>0, <1>5, PcMoves DEF Release, Pcs
  <2> QED BY <1>5, <2>1, LeaseDrop DEF Release
<1>6. CASE StoreAnswer(r)
  BY <1>0, <1>6, StoreAnswerMoves, LeaseFrame DEF StoreAnswer
<1>7. CASE Replay(r) \/ RefuseUnknown(r) \/ Fail(r)
  <2>1. PICK what \in {"ok", "error"} : Tell(r, what)
    BY <1>7 DEF Replay, RefuseUnknown, Fail
  <2>2. Others(r) /\ run'[r].pc = "tools"
    BY <1>0, <2>1, TellMoves
  <2> QED BY <1>7, <2>2, LeaseFrame DEF Replay, RefuseUnknown, Fail, More
<1>8. CASE RefuseRerun(r) \/ Finish(r)
  <2>1. Others(r) /\ run'[r].pc = "idle"
    BY <1>0, <1>8, OverMoves DEF RefuseRerun, Finish, Idle
  <2> QED BY <1>8, <2>1, LeaseFrame DEF RefuseRerun, Finish, More
<1>9. CASE Begin(r) \/ Execute(r)
  <2>1. PICK p \in Executing : run' = [run EXCEPT ![r].pc = p]
    BY <1>9 DEF Begin, Execute, Executing
  <2>2. Others(r) /\ run'[r].pc = p
    BY <1>0, <2>1, PcMoves DEF Executing, Pcs
  <2> QED BY <1>9, <2>2, LeaseFrame DEF Begin, Execute, More, Executing
<1>10. CASE Complete(r)
  <2>1. CASE Tell(r, "ok")
    BY <1>0, <1>10, <2>1, TellMoves, LeaseFrame DEF Complete
  <2>2. CASE run' = [run EXCEPT ![r].pc = "threw"]
    BY <1>0, <1>10, <2>2, PcMoves, LeaseFrame DEF Complete, Pcs
  <2> QED BY <1>10, <2>1, <2>2 DEF Complete
<1>11. CASE StoreResults(r)
  BY <1>0, <1>11, StoreResultsMoves, LeaseFrame DEF StoreResults
<1> QED BY <1>1, <1>2, <1>3, <1>4, <1>5, <1>6, <1>7, <1>8, <1>9, <1>10, <1>11 DEF Proceed

LEMMA LeaseStep == ASSUME LeaseInv, [Next]_vars PROVE LeaseInv'
<1>0. BaseInv /\ TypeOK /\ LeasesHeld
  BY DEF LeaseInv, BaseInv
<1>1. BaseInv'
  BY <1>0, BaseStep
<1>2. ASSUME NEW r \in Runs, Die(r) PROVE LeasesHeld'
  <2>1. Others(r) /\ run'[r].pc = "idle"
    BY <1>0, <1>2, OverMoves DEF Die, Idle
  <2> QED BY <1>2, <2>1, LeaseDrop DEF Die, Leased
<1>3. ASSUME NEW r \in Runs, NEW j \in Jobs, Claim(r, j) PROVE LeasesHeld'
  BY <1>0, <1>3, ClaimMoves, LeaseFrame DEF Claim, Leased
<1>4. ASSUME (\E j \in Jobs : LoseLock(j)) \/ UNCHANGED vars PROVE LeasesHeld'
  <2>1. UNCHANGED <<lease, orphans, run>>
    BY <1>4 DEF LoseLock, vars, rates
  <2> QED BY <1>0, <2>1 DEF LeasesHeld, Held
<1> QED BY <1>1, <1>2, <1>3, <1>4, LeaseProceed, LeaseLost, OrphanGone DEF LeaseInv, Next

\* A call beside Cap others has outlived its lease.
LEMMA CallsAreLeased == LeaseInv => CallsCapped
<1> SUFFICES ASSUME LeaseInv PROVE CallsCapped
  OBVIOUS
<1>1. BaseInv /\ LeasesHeld /\ Cap \in Nat /\ orphans \in Nat /\ IsFiniteSet(Runs)
      /\ lease \in [Runs -> {"none", "live", "lapsed"}]
  BY SubagentAssumption, SameTypes DEF LeaseInv
<1> DEFINE Lapsed == {r \in InCall : lease[r] = "lapsed"}
<1>2. InCall \subseteq Live \cup Lapsed
  BY <1>1 DEF InCall, Live, LeasesHeld, Leased
<1>3. Lapsed \subseteq Runs /\ InCall \subseteq Runs
  BY DEF InCall
<1> HIDE DEF Lapsed
<1>4. IsFiniteSet(Lapsed) /\ IsFiniteSet(InCall) /\ IsFiniteSet(Live)
  BY <1>1, <1>3, FS_Subset, LiveCount
<1>5. /\ IsFiniteSet(Live \cup Lapsed)
      /\ Cardinality(Live \cup Lapsed) = Cardinality(Live) + Cardinality(Lapsed) - Cardinality(Live \cap Lapsed)
  BY <1>4, FS_Union
<1>6. Cardinality(Live \cap Lapsed) \in Nat /\ Cardinality(Lapsed) \in Nat
      /\ Cardinality(InCall) \in Nat
  BY <1>4, FS_CardinalityType, FS_Intersection
<1>7. Cardinality(InCall) <= Cardinality(Live \cup Lapsed)
  BY <1>2, <1>5, FS_Subset
<1>8. Cardinality(Live) <= Cap
  BY <1>1, LiveCount DEF LeasesHeld
<1>9. Cardinality(Live) \in Nat /\ Cardinality(Live \cup Lapsed) \in Nat
  BY <1>1, <1>5, LiveCount, FS_CardinalityType
<1>10. Cardinality(InCall) <= Cap + Cardinality(Lapsed)
  BY <1>1, <1>5, <1>6, <1>7, <1>8, <1>9
<1> QED BY <1>10 DEF CallsCapped, Lapsed

\* At most Cap model calls are under way beside those whose lease lapsed, with
\* any number of runs, crashes and failed releases.
THEOREM LeasesCapCalls == Spec => []CallsCapped
<1>1. Init => LeaseInv
  BY BaseInit, LeaseInit DEF LeaseInv
<1> QED BY <1>1, LeaseStep, CallsAreLeased, PTL DEF Spec

-----------------------------------------------------------------------------
(* One run at a time: the loop invariant and what a step leaves alone.     *)

\* No two runs work on one job.
Alone == \A r, s \in Runs : run[r].job = run[s].job /\ run[r].job # NoJob => r = s

\* A use nobody began has not run, and a call that is to come has no uses.
Fresh ==
  \A u \in Uses : /\ ledger[u] = "none" => ran[u] = 0
                  /\ u[1] > Len(reply) => ledger[u] = "none"

\* The calls of a conversation were made in its order.
Ordered(m) ==
  \A i, k \in 1..Len(m) :
    i < k => m[i].call <= m[k].call /\ (k % 2 = 1 => m[i].call < m[k].call)

Says(c, k, what) == ledger[<<c, k>>] = IF what = "ok" THEN "complete" ELSE "failed"
Reached(r) == IF run[r].pc = "tools" THEN Len(run[r].told) ELSE Len(run[r].told) + 1

\* A run that works alone is where the conversation and the ledger say it is.
RunOk(r) ==
  LET j == run[r].job
      c == run[r].call
      n == Len(msgs[j])
  IN /\ run[r].pc # "load" => run[r].next = n + 1
     /\ run[r].pc \in {"turn", "call"} \cup Called => n % 2 = 0
     /\ run[r].pc \in {"loadLedger"} \cup Tooling => n % 2 = 1 /\ msgs[j][n].call = c
     /\ run[r].pc \in Called => /\ \A i \in 1..n : msgs[j][i].call < c
                                /\ \A k \in 1..MaxUses : ledger[<<c, k>>] = "none"
     /\ run[r].pc \in Tooling =>
          /\ \A k \in 1..Len(run[r].told) : Says(c, k, run[r].told[k])
          /\ \A k \in 1..MaxUses : k > Reached(r) => run[r].seen[k] = ledger[<<c, k>>]
     /\ run[r].pc = "execute" =>
          ledger[Use(r)] = "pending" /\ (ran[Use(r)] = 0 \/ Kind(Use(r)) = "safe")

\* Coherent as a relation of a conversation, the replies and the ledger.
Fits(m, replies, outcomes) ==
  \A i \in 1..Len(m) :
    IF i % 2 = 1 THEN m[i].role = "assistant"
    ELSE /\ m[i].role = "user" /\ m[i].call = m[i - 1].call
         /\ Len(m[i].told) = Len(replies[m[i].call].uses)
         /\ \A k \in 1..Len(m[i].told) :
              outcomes[<<m[i].call, k>>] = IF m[i].told[k] = "ok" THEN "complete" ELSE "failed"

LEMMA CoherentFits ==
  ASSUME NEW j \in Jobs
  PROVE  Coherent(msgs[j]) <=> Fits(msgs[j], reply, ledger)
BY DEF Coherent, Fits, Asked

LEMMA CoherentFitsNext ==
  ASSUME NEW j \in Jobs
  PROVE  Coherent(msgs[j])' <=> Fits(msgs'[j], reply', ledger')
BY DEF Coherent, Fits, Asked

\* A conversation still fits when nothing it speaks of has changed.
LEMMA FitsKept ==
  ASSUME NEW m, NEW answers, NEW replies, NEW t, NEW u, Fits(m, answers, t),
         \A i \in 1..Len(m) : i % 2 # 1 =>
           /\ Len(replies[m[i].call].uses) = Len(answers[m[i].call].uses)
           /\ \A k \in 1..Len(m[i].told) : u[<<m[i].call, k>>] = t[<<m[i].call, k>>]
  PROVE  Fits(m, replies, u)
<1> SUFFICES ASSUME NEW i \in 1..Len(m)
             PROVE  IF i % 2 = 1 THEN m[i].role = "assistant"
                    ELSE /\ m[i].role = "user" /\ m[i].call = m[i - 1].call
                         /\ Len(m[i].told) = Len(replies[m[i].call].uses)
                         /\ \A k \in 1..Len(m[i].told) :
                              u[<<m[i].call, k>>] = IF m[i].told[k] = "ok" THEN "complete" ELSE "failed"
  BY DEF Fits
<1> QED BY DEF Fits

Whole(j) == Coherent(msgs[j]) /\ Ordered(msgs[j])
LoopOk ==
  /\ Alone /\ Fresh
  /\ \A j \in Jobs : Whole(j)
  /\ \A r \in Runs : run[r].pc # "idle" => RunOk(r)

LoopInv == BaseInv /\ (~overlap => LoopOk)

\* A step of one run, which touches the conversation and the uses of its job.
OwnStep(r) ==
  /\ run[r].job \in Jobs /\ Others(r) /\ run'[r].job \in {run[r].job, NoJob} /\ Grown
  /\ \A j \in Jobs \ {run[r].job} : msgs'[j] = msgs[j]
  /\ \A u \in Uses : ledger'[u] # ledger[u] \/ ran'[u] # ran[u] => Spoken(u[1], run[r].job)

LEMMA ElsewhereKept ==
  ASSUME BaseInv, NEW r \in Runs, OwnStep(r), NEW j, j # run[r].job, NEW c, Spoken(c, j)
  PROVE  /\ Spoken(c, j)' /\ Asked(c)' = Asked(c)
         /\ \A k \in 1..MaxUses :
              <<c, k>> \in Uses /\ ledger'[<<c, k>>] = ledger[<<c, k>>] /\ ran'[<<c, k>>] = ran[<<c, k>>]
<1>1. c \in Calls
  BY Types DEF BaseInv, Spoken, Calls
<1>2. ASSUME NEW k \in 1..MaxUses
      PROVE  <<c, k>> \in Uses /\ ledger'[<<c, k>>] = ledger[<<c, k>>] /\ ran'[<<c, k>>] = ran[<<c, k>>]
  <2>1. <<c, k>> \in Uses /\ <<c, k>>[1] = c
    BY <1>1 DEF Uses
  <2>2. ~ Spoken(c, run[r].job)
    BY DEF Spoken
  <2> QED BY <2>1, <2>2 DEF OwnStep
<1> QED BY <1>2, SpokenStays DEF OwnStep

\* A reply that was stored asks for no more tools than a reply may.
LEMMA AskedTypes ==
  ASSUME BaseInv, NEW c, NEW j, Spoken(c, j)
  PROVE  Asked(c) \in Seq(Kinds) /\ Len(Asked(c)) \in 0..MaxUses /\ MaxUses \in Nat /\ c \in Calls
<1>1. reply \in Seq(Answers) /\ MaxUses \in Nat /\ c \in Calls
  BY Types DEF BaseInv, Spoken, Calls
<1>2. reply[c] \in Answers
  BY <1>1, ElementOfSeq DEF Spoken
<1>3. Asked(c) \in Seq(Kinds)
  BY <1>2 DEF Asked, Answers
<1>4. Len(Asked(c)) \in Nat /\ Len(Asked(c)) <= MaxUses
  BY <1>3, LenProperties DEF BaseInv, Known, Spoken
<1> QED BY <1>1, <1>3, <1>4

LEMMA WholeUnmoved ==
  ASSUME NEW j \in Jobs, UNCHANGED <<msgs, reply, ledger>>, Whole(j)
  PROVE  Whole(j)'
<1>1. Fits(msgs[j], reply, ledger)
  BY CoherentFits DEF Whole
<1>2. Coherent(msgs[j])'
  BY <1>1, CoherentFitsNext
<1> QED BY <1>2 DEF Whole

LEMMA WholeElsewhere ==
  ASSUME BaseInv, NEW r \in Runs, OwnStep(r), NEW j \in Jobs, j # run[r].job, Whole(j)
  PROVE  Whole(j)'
<1>1. msgs'[j] = msgs[j] /\ Stored(msgs[j], j)
  BY DEF OwnStep, BaseInv, Known
<1>2. Ordered(msgs[j])'
  BY <1>1 DEF Whole, Ordered
<1>3. Fits(msgs[j], reply, ledger)
  BY CoherentFits DEF Whole
<1>4. ASSUME NEW i \in 1..Len(msgs[j]), i % 2 # 1
      PROVE  /\ Len(reply'[msgs[j][i].call].uses) = Len(reply[msgs[j][i].call].uses)
             /\ \A k \in 1..Len(msgs[j][i].told) :
                  ledger'[<<msgs[j][i].call, k>>] = ledger[<<msgs[j][i].call, k>>]
  <2>1. Spoken(msgs[j][i].call, j)
    BY <1>1 DEF Stored
  <2>2. Len(msgs[j][i].told) = Len(reply[msgs[j][i].call].uses)
    BY <1>3, <1>4 DEF Fits
  <2>3. Len(reply[msgs[j][i].call].uses) \in 0..MaxUses /\ MaxUses \in Nat
    BY <2>1, AskedTypes DEF Asked
  <2>4. reply'[msgs[j][i].call].uses = reply[msgs[j][i].call].uses
    <3>1. ASSUME NEW c, c = msgs[j][i].call PROVE reply'[c].uses = reply[c].uses
      BY <2>1, <3>1, ElsewhereKept DEF Asked
    <3> QED BY <3>1
  <2>5. \A k \in 1..MaxUses : ledger'[<<msgs[j][i].call, k>>] = ledger[<<msgs[j][i].call, k>>]
    BY <2>1, ElsewhereKept
  <2> QED BY <2>2, <2>3, <2>4, <2>5
<1>5. Fits(msgs[j], reply', ledger')
  BY <1>3, <1>4, FitsKept
<1>6. Coherent(msgs[j])'
  BY <1>1, <1>5, CoherentFitsNext
<1> QED BY <1>2, <1>6 DEF Whole

LEMMA SeqTypes ==
  ASSUME BaseInv
  PROVE  /\ \A r \in Runs : run[r] \in Locals /\ Len(run[r].told) \in Nat
         /\ \A j \in Jobs : msgs[j] \in Seq(Messages) /\ Len(msgs[j]) \in Nat
<1>1. \A r \in Runs : run[r] \in Locals /\ run[r].told \in Told
  BY Types DEF BaseInv, Locals
<1>2. \A j \in Jobs : msgs[j] \in Seq(Messages)
  BY Types DEF BaseInv
<1> QED BY <1>1, <1>2, LenProperties DEF Told

LEMMA RunElsewhere ==
  ASSUME BaseInv, Alone, NEW r \in Runs, OwnStep(r), NEW s \in Runs, s # r,
         run[s].pc # "idle", RunOk(s)
  PROVE  RunOk(s)'
<1> DEFINE j == run[s].job
           c == run[s].call
           n == Len(msgs[j])
<1>1. run'[s] = run[s] /\ j \in Jobs /\ j # run[r].job /\ msgs'[j] = msgs[j]
  <2>1. run'[s] = run[s] /\ j \in Jobs /\ NoJob \notin Jobs
    BY RunNow, Types DEF OwnStep, Others, RunKnown, BaseInv
  <2>2. j # run[r].job
    BY <2>1 DEF Alone
  <2> QED BY <2>1, <2>2 DEF OwnStep
<1>2. run[s].pc \in Called \cup Tooling => Spoken(c, j)
  BY RunNow DEF RunKnown
<1>3. ASSUME run[s].pc \in Called \cup Tooling
      PROVE  /\ \A k \in 1..MaxUses : ledger'[<<c, k>>] = ledger[<<c, k>>] /\ ran'[<<c, k>>] = ran[<<c, k>>]
             /\ Asked(c)' = Asked(c)
  <2>1. Spoken(c, j)
    BY <1>2, <1>3
  <2>2. reply'[c] = reply[c]
    BY <2>1, Grows DEF OwnStep, Spoken
  <2> HIDE DEF c
  <2> QED BY <1>1, <2>1, <2>2, ElsewhereKept DEF Asked, c
<1>4. (run[s].pc # "load" => run[s].next = n + 1)'
  BY <1>1 DEF RunOk
<1>5. (run[s].pc \in {"turn", "call"} \cup Called => n % 2 = 0)'
  BY <1>1 DEF RunOk
<1>6. (run[s].pc \in {"loadLedger"} \cup Tooling => n % 2 = 1 /\ msgs[j][n].call = c)'
  BY <1>1 DEF RunOk
<1>7. (run[s].pc \in Called => /\ \A i \in 1..n : msgs[j][i].call < c
                               /\ \A k \in 1..MaxUses : ledger[<<c, k>>] = "none")'
  <2>1. run[s].pc \in Called => /\ \A i \in 1..n : msgs[j][i].call < c
                                /\ \A k \in 1..MaxUses : ledger[<<c, k>>] = "none"
    BY DEF RunOk
  <2> QED BY <1>1, <1>3, <2>1
<1>8. (run[s].pc \in Tooling =>
          /\ \A k \in 1..Len(run[s].told) : Says(c, k, run[s].told[k])
          /\ \A k \in 1..MaxUses : k > Reached(s) => run[s].seen[k] = ledger[<<c, k>>])'
  <2> SUFFICES ASSUME run[s].pc \in Tooling
               PROVE  /\ \A k \in 1..Len(run[s].told) : Says(c, k, run[s].told[k])'
                      /\ \A k \in 1..MaxUses : k > Reached(s) => run[s].seen[k] = ledger'[<<c, k>>]
    BY <1>1 DEF Reached, Says
  <2>1. /\ \A k \in 1..Len(run[s].told) : Says(c, k, run[s].told[k])
        /\ \A k \in 1..MaxUses : k > Reached(s) => run[s].seen[k] = ledger[<<c, k>>]
    BY DEF RunOk
  <2>2. Len(run[s].told) \in Nat /\ Len(run[s].told) <= MaxUses /\ MaxUses \in Nat
    <3>1. Len(run[s].told) <= Len(Asked(c))
      BY RunNow DEF RunKnown, Tooling
    <3>2. Len(Asked(c)) \in 0..MaxUses /\ MaxUses \in Nat
      BY <1>2, AskedTypes
    <3> QED BY <3>1, <3>2, SeqTypes
  <2> QED BY <1>1, <1>3, <2>1, <2>2 DEF Says
<1>9. (run[s].pc = "execute" =>
          ledger[Use(s)] = "pending" /\ (ran[Use(s)] = 0 \/ Kind(Use(s)) = "safe"))'
  <2> SUFFICES ASSUME run[s].pc = "execute"
               PROVE  ledger'[Use(s)] = "pending" /\ (ran'[Use(s)] = 0 \/ Kind(Use(s))' = "safe")
    BY <1>1 DEF Use, K, Kind, Asked
  <2>1. ledger[Use(s)] = "pending" /\ (ran[Use(s)] = 0 \/ Kind(Use(s)) = "safe")
    BY DEF RunOk
  <2>2. K(s) \in 1..MaxUses /\ Use(s) = <<c, K(s)>>
    BY UseTypes DEF Executing, Use
  <2>3. Kind(Use(s))' = Kind(Use(s))
    BY <1>1, <1>3 DEF Use, K, Kind, Asked, Tooling, Executing
  <2> QED BY <1>3, <2>1, <2>2, <2>3 DEF Tooling, Executing
<1> QED BY <1>4, <1>5, <1>6, <1>7, <1>8, <1>9 DEF RunOk

\* What is left to show of a step of r: its own conversation and place.
LEMMA LoopFrame ==
  ASSUME BaseInv, LoopOk, NEW r \in Runs, OwnStep(r), Fresh', \A j \in Jobs : j = run[r].job => Whole(j)',
         run'[r].pc = "idle" \/ RunOk(r)'
  PROVE  LoopOk'
<1> DEFINE j == run[r].job
<1>1. \A s \in Runs \ {r} : run'[s] = run[s]
  BY DEF OwnStep, Others
<1>2. Alone'
  BY <1>1 DEF LoopOk, Alone, OwnStep
<1>3. \A s \in Runs \ {r} : run'[s].pc # "idle" => RunOk(s)'
  BY <1>1, RunElsewhere DEF LoopOk
<1>5. \A k \in Jobs : Whole(k)'
  <2> SUFFICES ASSUME NEW k \in Jobs PROVE Whole(k)'
    OBVIOUS
  <2> QED BY WholeElsewhere DEF LoopOk
<1> QED BY <1>2, <1>3, <1>5 DEF LoopOk

\* A step that stores nothing.
LEMMA QuietFrame ==
  ASSUME BaseInv, LoopOk, NEW r \in Runs, run[r].job \in Jobs, Others(r),
         run'[r].job \in {run[r].job, NoJob},
         UNCHANGED <<msgs, reply, ledger, ran>>, run'[r].pc = "idle" \/ RunOk(r)'
  PROVE  LoopOk'
<1>1. OwnStep(r)
  BY DEF OwnStep, Grown
<1>2. Fresh'
  BY DEF LoopOk, Fresh
<1>3. \A j \in Jobs : Whole(j)'
  BY WholeUnmoved DEF LoopOk
<1> QED BY <1>1, <1>2, <1>3, LoopFrame

-----------------------------------------------------------------------------
(* A use that is begun, executed or told of.                               *)

\* At most the use r is at changes its status.
OnlyUse(r) == \A u \in Uses \ {Use(r)} : ledger'[u] = ledger[u]
AtUse(r)   == More(r) \/ run[r].pc \in Executing

LEMMA RunHere ==
  ASSUME BaseInv, LoopOk, NEW r \in Runs, run[r].pc # "idle"
  PROVE  RunOk(r) /\ run[r].job \in Jobs /\ run[r] \in Locals
BY RunNow, SeqTypes DEF LoopOk, RunKnown

\* The use a run is at was asked for by the last reply of its conversation.
LEMMA OwnUse ==
  ASSUME BaseInv, LoopOk, NEW r \in Runs, AtUse(r), Others(r), run'[r].job = run[r].job,
         UNCHANGED <<msgs, reply, ran>>, OnlyUse(r), ledger'[Use(r)] # "none"
  PROVE  OwnStep(r) /\ Fresh' /\ \A j \in Jobs : j = run[r].job => Whole(j)'
<1> DEFINE c == run[r].call
           t == run[r].job
           n == Len(msgs[t])
<1>1. /\ t \in Jobs /\ run[r].pc \in Tooling /\ Spoken(c, t) /\ Use(r) \in Uses
      /\ Use(r) = <<c, K(r)>> /\ run[r].pc # "idle"
  BY UseTypes DEF AtUse, Use, Tooling, Executing
<1>2. OwnStep(r)
  <2>1. \A u \in Uses : ledger'[u] # ledger[u] \/ ran'[u] # ran[u] => Spoken(u[1], t)
    BY <1>1 DEF OnlyUse
  <2> QED BY <1>1, <2>1 DEF OwnStep, Grown
<1>3. Fresh'
  <2>1. Fresh /\ c \in 1..Len(reply) /\ Len(reply) \in Nat
    BY <1>1, Types DEF LoopOk, Spoken, BaseInv
  <2>2. ASSUME NEW u \in Uses
        PROVE  (ledger'[u] = "none" => ran'[u] = 0) /\ (u[1] > Len(reply') => ledger'[u] = "none")
    <3>1. CASE u = Use(r)
      BY <1>1, <2>1, <3>1
    <3>2. CASE u # Use(r)
      BY <2>1, <3>2 DEF OnlyUse, Fresh
    <3> QED BY <3>1, <3>2
  <2> QED BY <2>2 DEF Fresh
<1>4. n \in Nat /\ n % 2 = 1 /\ msgs[t][n].call = c /\ Coherent(msgs[t]) /\ Ordered(msgs[t])
  BY <1>1, SeqTypes, RunHere DEF RunOk, LoopOk, Whole
<1>5. ASSUME NEW i \in 1..n, i % 2 # 1, NEW k \in 1..Len(msgs[t][i].told)
      PROVE  ledger'[<<msgs[t][i].call, k>>] = ledger[<<msgs[t][i].call, k>>]
  <2>1. i < n /\ n \in 1..n
    <3> HIDE DEF n
    <3>1. n % 2 # i % 2 /\ n # i /\ n \in Nat /\ i \in 1..n
      BY <1>4, <1>5
    <3> QED BY <3>1
  <2>2. msgs[t][i].call < c
    BY <1>4, <2>1 DEF Ordered
  <2>3. Spoken(msgs[t][i].call, t)
    BY <1>1, <1>5 DEF BaseInv, Known, Stored
  <2>4. msgs[t][i].call \in Calls /\ Len(Asked(msgs[t][i].call)) \in 0..MaxUses /\ MaxUses \in Nat
    BY <2>3, AskedTypes
  <2>5. Len(msgs[t][i].told) = Len(Asked(msgs[t][i].call))
    BY <1>4, <1>5 DEF Coherent
  <2>6. <<msgs[t][i].call, k>> \in Uses
    BY <2>4, <2>5 DEF Uses
  <2>7. c \in Int /\ msgs[t][i].call \in Int
    BY SMTT(40), <1>1, <2>3, AskedTypes, Types DEF Calls, BaseInv
  <2>8. <<msgs[t][i].call, k>> # Use(r)
    BY SMTT(40), <1>1, <2>2, <2>7
  <2> QED BY <2>6, <2>8 DEF OnlyUse
<1>6. Coherent(msgs[t])'
  <2>1. Fits(msgs[t], reply, ledger)
    BY <1>1, <1>4, CoherentFits
  <2>2. Fits(msgs[t], reply, ledger')
    BY <1>5, <2>1, FitsKept
  <2> QED BY <1>1, <2>2, CoherentFitsNext
<1>7. Ordered(msgs[t])'
  BY <1>4
<1>8. \A j \in Jobs : j = run[r].job => Whole(j)'
  BY <1>6, <1>7 DEF Whole
<1> QED BY <1>2, <1>3, <1>8

\* A run that tells of a use says what the ledger says.
LEMMA ToldOk ==
  ASSUME BaseInv, LoopOk, NEW r \in Runs, AtUse(r), NEW what \in {"ok", "error"}, Tell(r, what),
         UNCHANGED <<msgs, reply, ran>>, OnlyUse(r),
         ledger'[Use(r)] = IF what = "ok" THEN "complete" ELSE "failed"
  PROVE  LoopOk'
<1> DEFINE c == run[r].call
           t == run[r].job
           n == Len(msgs[t])
           d == Len(run[r].told)
<1>1. /\ t \in Jobs /\ run[r].pc \in Tooling /\ run[r].pc # "idle" /\ Spoken(c, t) /\ Use(r) \in Uses
      /\ d \in Nat /\ K(r) = d + 1 /\ K(r) \in 1..MaxUses /\ Use(r) = <<c, d + 1>>
  BY UseTypes DEF AtUse, Use, Tooling, Executing
<1>2. /\ Others(r) /\ Kept(r) /\ run'[r].seen = run[r].seen /\ run'[r].pc = "tools"
      /\ run'[r].told = Append(run[r].told, what)
  BY TellMoves DEF BaseInv
<1>3. /\ Len(run'[r].told) = d + 1 /\ run'[r].told[d + 1] = what
      /\ \A k \in 1..d : run'[r].told[k] = run[r].told[k]
  <2>1. run[r].told \in Seq({"ok", "error"})
    BY Types DEF BaseInv, Locals, Told
  <2> QED BY <1>2, <2>1, Appended
<1>4. OwnStep(r) /\ Fresh' /\ \A j \in Jobs : j = run[r].job => Whole(j)'
  <2>1. ledger'[Use(r)] # "none"
    OBVIOUS
  <2> QED BY <1>2, <2>1, OwnUse DEF Kept
<1>5. RunOk(r) /\ MaxUses \in Nat
  BY <1>1, RunHere, AskedTypes
<1>6. \A k \in 1..MaxUses : <<c, k>> \in Uses /\ (k # d + 1 => ledger'[<<c, k>>] = ledger[<<c, k>>])
  <2>1. c \in Calls
    BY <1>1, AskedTypes
  <2> QED BY <1>1, <2>1 DEF OnlyUse, Uses
<1>7. \A k \in 1..(d + 1) : ledger'[<<c, k>>] = IF run'[r].told[k] = "ok" THEN "complete" ELSE "failed"
  <2>1. \A k \in 1..d : ledger[<<c, k>>] = IF run[r].told[k] = "ok" THEN "complete" ELSE "failed"
    BY <1>1, <1>5 DEF RunOk, Says
  <2>2. \A k \in 1..d : k \in 1..MaxUses /\ k # d + 1
    BY <1>1, <1>5
  <2>3. ledger'[<<c, d + 1>>] = IF what = "ok" THEN "complete" ELSE "failed"
    BY <1>1
  <2> HIDE DEF d
  <2>4. \A k \in 1..(d + 1) : k \in 1..d \/ k = d + 1
    BY <1>1
  <2> QED BY <1>3, <1>6, <2>1, <2>2, <2>3, <2>4
<1>8. \A k \in 1..MaxUses : k > d + 1 => run[r].seen[k] = ledger'[<<c, k>>]
  <2>1. \A k \in 1..MaxUses : k > Reached(r) => run[r].seen[k] = ledger[<<c, k>>]
    BY <1>1, <1>5 DEF RunOk
  <2>2. Reached(r) \in {d, d + 1}
    BY <1>1 DEF Reached
  <2> HIDE DEF d
  <2>3. \A k \in 1..MaxUses : k > d + 1 => k > Reached(r) /\ k # d + 1
    BY <1>1, <1>5, <2>2
  <2> QED BY <1>6, <2>1, <2>3
<1>9. n % 2 = 1 /\ msgs[t][n].call = c /\ run[r].next = n + 1
  BY <1>1, <1>5 DEF RunOk, Tooling, Executing
<1>10. run'[r].job = t /\ run'[r].call = c /\ run'[r].next = n + 1 /\ Len(msgs'[t]) = n
  BY <1>2, <1>9 DEF Kept
<1>11. Reached(r)' = d + 1
  BY <1>1, <1>2, <1>3 DEF Reached
<1>12. (\A k \in 1..Len(run[r].told) : Says(run[r].call, k, run[r].told[k]))'
  BY <1>3, <1>7, <1>10 DEF Says
<1>a. (\A k \in 1..MaxUses : k > Reached(r) => run[r].seen[k] = ledger[<<run[r].call, k>>])'
  BY <1>2, <1>8, <1>10, <1>11
<1>b. (run[r].next = Len(msgs[run[r].job]) + 1 /\ Len(msgs[run[r].job]) % 2 = 1
       /\ msgs[run[r].job][Len(msgs[run[r].job])].call = run[r].call)'
  BY <1>9, <1>10
<1>13. RunOk(r)'
  BY <1>2, <1>12, <1>a, <1>b DEF RunOk, Called, Tooling, Executing
<1> QED BY <1>4, <1>13, LoopFrame

\* A run that executes a use began it, and may run it.
LEMMA ExecOk ==
  ASSUME BaseInv, LoopOk, NEW r \in Runs, AtUse(r), NEW p \in Executing,
         run' = [run EXCEPT ![r].pc = p], UNCHANGED <<msgs, reply>>, OnlyUse(r),
         OwnStep(r) => Fresh' /\ \A j \in Jobs : j = run[r].job => Whole(j)',
         \A u \in Uses \ {Use(r)} : ran'[u] = ran[u],
         p = "execute" => ledger'[Use(r)] = "pending" /\ (ran'[Use(r)] = 0 \/ Kind(Use(r)) = "safe")
  PROVE  LoopOk'
<1> DEFINE c == run[r].call
           t == run[r].job
           n == Len(msgs[t])
           d == Len(run[r].told)
<1>1. /\ t \in Jobs /\ run[r].pc \in Tooling /\ run[r].pc # "idle" /\ Spoken(c, t) /\ Use(r) \in Uses
      /\ d \in Nat /\ K(r) = d + 1 /\ K(r) \in 1..MaxUses /\ Use(r) = <<c, d + 1>>
  BY UseTypes DEF AtUse, Use, Tooling, Executing
<1>2. Others(r) /\ Stays(r) /\ run'[r].pc = p
  BY PcMoves DEF BaseInv, Executing, Pcs
<1>3. Use(r)' = Use(r) /\ Kind(Use(r))' = Kind(Use(r))
  BY <1>2 DEF Use, K, Kind, Asked, Stays, Kept
<1>4. OwnStep(r)
  <2>1. \A u \in Uses : ledger'[u] # ledger[u] \/ ran'[u] # ran[u] => Spoken(u[1], t)
    BY <1>1 DEF OnlyUse
  <2> QED BY <1>1, <1>2, <2>1 DEF OwnStep, Grown, Stays, Kept
<1>5. RunOk(r) /\ MaxUses \in Nat
  BY <1>1, RunHere, AskedTypes
<1>6. \A k \in 1..MaxUses : <<c, k>> \in Uses /\ (k # d + 1 => ledger'[<<c, k>>] = ledger[<<c, k>>])
  <2>1. c \in Calls
    BY <1>1, AskedTypes
  <2> QED BY <1>1, <2>1 DEF OnlyUse, Uses
<1>7. \A k \in 1..d : ledger'[<<c, k>>] = IF run[r].told[k] = "ok" THEN "complete" ELSE "failed"
  <2>1. \A k \in 1..d : ledger[<<c, k>>] = IF run[r].told[k] = "ok" THEN "complete" ELSE "failed"
    BY <1>1, <1>5 DEF RunOk, Says
  <2>2. \A k \in 1..d : k \in 1..MaxUses /\ k # d + 1
    BY <1>1, <1>5
  <2> QED BY <1>6, <2>1, <2>2
<1>8. \A k \in 1..MaxUses : k > d + 1 => run[r].seen[k] = ledger'[<<c, k>>]
  <2>1. \A k \in 1..MaxUses : k > Reached(r) => run[r].seen[k] = ledger[<<c, k>>]
    BY <1>1, <1>5 DEF RunOk
  <2>2. Reached(r) \in {d, d + 1}
    BY <1>1 DEF Reached
  <2> HIDE DEF d
  <2>3. \A k \in 1..MaxUses : k > d + 1 => k > Reached(r) /\ k # d + 1
    BY <1>1, <1>5, <2>2
  <2> QED BY <1>6, <2>1, <2>3
<1>9. n % 2 = 1 /\ msgs[t][n].call = c /\ run[r].next = n + 1
  BY <1>1, <1>5 DEF RunOk, Tooling, Executing
<1>10. (p = "execute" =>
          ledger[Use(r)] = "pending" /\ (ran[Use(r)] = 0 \/ Kind(Use(r)) = "safe"))'
  BY <1>2, <1>3
<1>11. run'[r].job = t /\ run'[r].call = c /\ run'[r].next = n + 1 /\ Len(msgs'[t]) = n
       /\ run'[r].told = run[r].told /\ run'[r].seen = run[r].seen
  BY <1>2, <1>9 DEF Stays, Kept
<1>12. (\A k \in 1..Len(run[r].told) : Says(run[r].call, k, run[r].told[k]))'
  BY <1>7, <1>11 DEF Says
<1>13. Reached(r)' = d + 1
  BY <1>2, <1>11 DEF Reached, Executing
<1>14. (\A k \in 1..MaxUses : k > Reached(r) => run[r].seen[k] = ledger[<<run[r].call, k>>])'
  BY <1>8, <1>11, <1>13
<1>15. (run[r].next = Len(msgs[run[r].job]) + 1 /\ Len(msgs[run[r].job]) % 2 = 1
       /\ msgs[run[r].job][Len(msgs[run[r].job])].call = run[r].call)'
  BY <1>9, <1>11
<1>16. RunOk(r)'
  BY <1>2, <1>10, <1>12, <1>14, <1>15 DEF RunOk, Called, Tooling, Executing
<1> QED BY <1>4, <1>16, LoopFrame

-----------------------------------------------------------------------------
(* The steps of a run that works alone.                                    *)

LEMMA LoopOver ==
  ASSUME BaseInv, LoopOk, NEW r \in Runs, run[r].pc # "idle", Over(r),
         UNCHANGED <<msgs, reply, ledger, ran>>
  PROVE  LoopOk'
<1>1. Others(r) /\ run'[r].pc = "idle" /\ run'[r].job = NoJob
  BY OverMoves DEF BaseInv, Idle
<1> QED BY <1>1, RunHere, QuietFrame

LEMMA LoopLoadMessages ==
  ASSUME BaseInv, LoopOk, NEW r \in Runs, LoadMessages(r) PROVE LoopOk'
<1> DEFINE t == run[r].job
           n == Len(msgs[t])
<1>1. PICK x \in Locals :
           /\ Moves(r, x) /\ x.job = run[r].job /\ x.told = run[r].told
           /\ x.next = Len(msgs[x.job]) + 1
           /\ \/ /\ x.pc = "turn"
                 /\ Len(msgs[x.job]) = 0 \/ msgs[x.job][Len(msgs[x.job])].role = "user"
              \/ x.pc = "done"
              \/ /\ x.pc = "loadLedger" /\ Len(msgs[x.job]) # 0
                 /\ msgs[x.job][Len(msgs[x.job])].role = "assistant"
                 /\ x.call = msgs[x.job][Len(msgs[x.job])].call
  BY LoadMoves
<1>2. run'[r] = x /\ Others(r)
  BY <1>1, MovesOne DEF Others, BaseInv
<1>3. UNCHANGED <<msgs, reply, ledger, ran>> /\ run[r].pc = "load"
  BY DEF LoadMessages, table, model
<1>4. t \in Jobs /\ n \in Nat /\ Coherent(msgs[t])
  BY <1>3, RunHere, SeqTypes DEF LoopOk, Whole
<1>5. x.pc = "turn" => n % 2 = 0
  <2>1. n # 0 => n \in 1..n
    BY <1>4
  <2>2. n # 0 /\ n % 2 = 1 => msgs[t][n].role = "assistant"
    BY <1>4, <2>1 DEF Coherent
  <2>3. x.pc = "turn" => n = 0 \/ msgs[t][n].role = "user"
    BY <1>1
  <2> HIDE DEF n
  <2>4. n = 0 \/ n % 2 # 1 => n % 2 = 0
    BY <1>4
  <2> QED BY <1>4, <2>2, <2>3, <2>4
<1>6. x.pc = "loadLedger" => n % 2 = 1 /\ msgs[t][n].call = x.call
  <2>1. n # 0 => n \in 1..n
    BY <1>4
  <2>2. n # 0 /\ n % 2 # 1 => msgs[t][n].role = "user"
    BY <1>4, <2>1 DEF Coherent
  <2> QED BY <1>1, <1>4, <2>2
<1>7. RunOk(r)'
  BY <1>1, <1>2, <1>3, <1>5, <1>6 DEF RunOk, Called, Tooling, Executing
<1> QED BY <1>1, <1>2, <1>3, <1>4, <1>7, QuietFrame

LEMMA LoopLoadLedger ==
  ASSUME BaseInv, LoopOk, NEW r \in Runs, LoadLedger(r) PROVE LoopOk'
<1>1. /\ Others(r) /\ Kept(r) /\ run'[r].told = run[r].told /\ run'[r].pc = "tools"
      /\ \A k \in 1..MaxUses : run'[r].seen[k] = ledger[<<run[r].call, k>>]
  BY LedgerMoves
<1>2. UNCHANGED <<msgs, reply, ledger, ran>> /\ run[r].pc = "loadLedger"
  BY DEF LoadLedger, table, model
<1>3. RunOk(r) /\ run[r].job \in Jobs /\ Len(run[r].told) = 0
  BY <1>2, RunHere, RunNow DEF RunKnown
<1>4. /\ run[r].next = Len(msgs[run[r].job]) + 1 /\ Len(msgs[run[r].job]) % 2 = 1
      /\ msgs[run[r].job][Len(msgs[run[r].job])].call = run[r].call
  BY <1>2, <1>3 DEF RunOk
<1>5. \A k \in 1..Len(run'[r].told) : FALSE
  BY <1>1, <1>3
<1>6. RunOk(r)'
  BY <1>1, <1>2, <1>4, <1>5 DEF RunOk, Kept, Called, Tooling, Executing
<1> QED BY <1>1, <1>2, <1>3, <1>6, QuietFrame DEF Kept

LEMMA LoopTurn ==
  ASSUME BaseInv, LoopOk, NEW r \in Runs, Turn(r) PROVE LoopOk'
<1>1. UNCHANGED <<msgs, reply, ledger, ran>> /\ run[r].pc = "turn"
  BY DEF Turn, table, model
<1>2. RunOk(r) /\ run[r].job \in Jobs
  BY <1>1, RunHere
<1>3. CASE run'[r] = Idle
  BY <1>1, <1>2, <1>3, TurnMoves, QuietFrame DEF Idle
<1>4. CASE Kept(r) /\ run'[r].pc \in {"done", "call"}
  <2>1. RunOk(r)'
    BY <1>1, <1>2, <1>4 DEF RunOk, Kept, Called, Tooling, Executing
  <2> QED BY <1>1, <1>2, <1>4, <2>1, TurnMoves, QuietFrame DEF Kept
<1> QED BY <1>3, <1>4, TurnMoves

LEMMA LoopRelease ==
  ASSUME BaseInv, LoopOk, NEW r \in Runs, Release(r) PROVE LoopOk'
<1>1. UNCHANGED <<msgs, reply, ledger, ran>> /\ run[r].pc = "release"
  BY DEF Release, table, model
<1>2. RunOk(r) /\ run[r].job \in Jobs
  BY <1>1, RunHere
<1>3. Others(r) /\ Stays(r) /\ run'[r].pc = "store"
  BY PcMoves DEF Release, BaseInv, Pcs
<1>4. RunOk(r)'
  BY <1>1, <1>2, <1>3 DEF RunOk, Stays, Kept, Called, Tooling, Executing
<1> QED BY <1>1, <1>2, <1>3, <1>4, QuietFrame DEF Stays, Kept

LEMMA LoopModelAnswers ==
  ASSUME BaseInv, LoopOk, NEW r \in Runs, ModelAnswers(r) PROVE LoopOk'
<1> DEFINE t == run[r].job
           c == Len(reply) + 1
           n == Len(msgs[t])
<1>1. /\ Others(r) /\ run'[r].pc = "release" /\ run'[r].call = c
      /\ run'[r].job = t /\ run'[r].next = run[r].next
      /\ \E a \in Answers : reply' = Append(reply, a) /\ a.job = t /\ Len(a.uses) <= MaxUses
      /\ Len(reply) < MaxCalls
  BY AnswerMoves
<1>2. Grown /\ UNCHANGED <<msgs, ledger, ran>> /\ run[r].pc = "call"
  BY <1>1 DEF Grown, ModelAnswers, table
<1>3. RunOk(r) /\ t \in Jobs /\ n \in Nat
  BY <1>2, RunHere, SeqTypes
<1>4. OwnStep(r)
  BY <1>1, <1>2, <1>3 DEF OwnStep
<1>5. Len(reply) \in Nat /\ Len(reply') = Len(reply) + 1 /\ MaxCalls \in Nat
  BY <1>1, Types, Appended DEF BaseInv
<1>6. Fresh'
  <2>1. \A u \in Uses : u[1] \in Int
    BY DEF Uses, Calls
  <2> QED BY <1>2, <1>5, <2>1 DEF LoopOk, Fresh
<1>7. \A k \in 1..MaxUses : ledger[<<c, k>>] = "none"
  <2>1. c \in Calls
    BY <1>1, <1>5 DEF Calls
  <2> HIDE DEF c
  <2>2. \A k \in 1..MaxUses : <<c, k>> \in Uses /\ <<c, k>>[1] = c
    BY <2>1 DEF Uses
  <2>3. c > Len(reply)
    BY <1>5 DEF c
  <2> QED BY <2>2, <2>3 DEF LoopOk, Fresh
<1>8. \A i \in 1..n : msgs[t][i].call < c
  <2>1. \A i \in 1..n : msgs[t][i].call \in 1..Len(reply)
    BY <1>3 DEF BaseInv, Known, Stored, Spoken
  <2> QED BY <1>5, <2>1
<1>9. RunOk(r)'
  BY <1>1, <1>2, <1>3, <1>7, <1>8 DEF RunOk, Called, Tooling, Executing
<1>10. ASSUME NEW j \in Jobs PROVE Whole(j)'
  <2>1. \A i \in 1..Len(msgs[j]) : reply'[msgs[j][i].call] = reply[msgs[j][i].call]
    BY <1>2, Grows DEF BaseInv, Known, Stored, Spoken
  <2>2. Fits(msgs[j], reply, ledger)
    BY CoherentFits DEF LoopOk, Whole
  <2>3. Fits(msgs[j], reply', ledger)
    BY <2>1, <2>2, FitsKept
  <2>4. Coherent(msgs[j])'
    BY <1>2, <2>3, CoherentFitsNext
  <2> QED BY <1>2, <2>4 DEF LoopOk, Whole
<1> QED BY <1>4, <1>6, <1>9, <1>10, LoopFrame

LEMMA LoopTells ==
  ASSUME BaseInv, LoopOk, NEW r \in Runs, Replay(r) \/ RefuseUnknown(r) \/ Fail(r)
  PROVE  LoopOk'
<1>1. AtUse(r) /\ UNCHANGED <<msgs, reply, ran>>
  BY DEF AtUse, Replay, RefuseUnknown, Fail, Executing, table, model
<1>2. Use(r) \in Uses /\ K(r) \in 1..MaxUses /\ Use(r) = <<run[r].call, K(r)>>
  BY <1>1, UseTypes DEF AtUse, Use
<1>3. CASE Replay(r)
  <2>1. run[r].pc = "tools" /\ run[r].seen[K(r)] \in {"complete", "failed"} /\ UNCHANGED ledger
    BY <1>3 DEF Replay, More, table
  <2>2. ledger[Use(r)] = run[r].seen[K(r)]
    <3>1. RunOk(r) /\ Len(run[r].told) \in Nat
      BY <2>1, RunHere, SeqTypes
    <3>2. K(r) > Reached(r)
      BY <2>1, <3>1 DEF Reached, K
    <3> QED BY <1>2, <2>1, <3>1, <3>2 DEF RunOk, Tooling
  <2>3. PICK what \in {"ok", "error"} :
          Tell(r, what) /\ run[r].seen[K(r)] = IF what = "ok" THEN "complete" ELSE "failed"
    BY <1>3, <2>1 DEF Replay
  <2> QED BY <1>1, <2>1, <2>2, <2>3, ToldOk DEF OnlyUse
<1>4. CASE RefuseUnknown(r) \/ Fail(r)
  <2>1. Mark(Use(r), "failed") /\ Tell(r, "error")
    BY <1>4 DEF RefuseUnknown, Fail
  <2>2. ledger'[Use(r)] = "failed" /\ OnlyUse(r)
    BY <1>2, <2>1, MarkTypes DEF OnlyUse, Status
  <2> QED BY <1>1, <2>1, <2>2, ToldOk
<1> QED BY <1>3, <1>4

LEMMA LoopBegin ==
  ASSUME BaseInv, LoopOk, NEW r \in Runs, Begin(r) PROVE LoopOk'
<1>1. /\ AtUse(r) /\ UNCHANGED <<msgs, reply, ran>> /\ run[r].pc = "tools"
      /\ run' = [run EXCEPT ![r].pc = "execute"] /\ MayRun(r)
  BY DEF AtUse, Begin, More, model
<1>2. Use(r) \in Uses /\ K(r) \in 1..MaxUses /\ Use(r) = <<run[r].call, K(r)>>
  BY <1>1, UseTypes DEF AtUse, Use
<1>3. ledger[Use(r)] = run[r].seen[K(r)]
  <3>1. RunOk(r) /\ Len(run[r].told) \in Nat
    BY <1>1, RunHere, SeqTypes
  <3>2. K(r) > Reached(r)
    BY <1>1, <3>1 DEF Reached, K
  <3> QED BY <1>1, <1>2, <3>1, <3>2 DEF RunOk, Tooling
<1>4. /\ ledger' = [ledger EXCEPT ![Use(r)] = "pending"]
      /\ ran[Use(r)] = 0 \/ Kind(Use(r)) = "safe"
  <2>1. CASE run[r].seen[K(r)] = "none"
    BY <1>2, <1>3, <2>1 DEF Begin, Mark, LoopOk, Fresh
  <2>2. CASE run[r].seen[K(r)] = "pending" /\ Kind(Use(r)) = "safe"
    BY <1>3, <2>2 DEF Begin, Mark
  <2> QED BY <1>1, <2>1, <2>2 DEF MayRun
<1>5. ledger'[Use(r)] = "pending" /\ OnlyUse(r)
  BY <1>2, <1>4, SameTypes DEF OnlyUse
<1>6. Others(r) /\ run'[r].job = run[r].job
  BY <1>1, PcMoves DEF BaseInv, Pcs, Stays, Kept
<1>7. Fresh' /\ \A j \in Jobs : j = run[r].job => Whole(j)'
  BY <1>1, <1>5, <1>6, OwnUse
<1> QED BY <1>1, <1>4, <1>5, <1>7, ExecOk DEF Executing

LEMMA LoopExecute ==
  ASSUME BaseInv, LoopOk, NEW r \in Runs, Execute(r) PROVE LoopOk'
<1>1. AtUse(r) /\ UNCHANGED <<msgs, reply, ledger>> /\ run[r].pc = "execute"
  BY DEF AtUse, Execute, Executing, table
<1>2. Use(r) \in Uses
  BY <1>1, UseTypes DEF AtUse
<1>3. \A u \in Uses \ {Use(r)} : ran'[u] = ran[u]
  BY <1>2, SameTypes DEF Execute
<1>4. PICK p \in Executing : run' = [run EXCEPT ![r].pc = p] /\ p # "execute"
  BY DEF Execute, Executing
<1>5. ledger[Use(r)] = "pending"
  BY <1>1, RunHere DEF RunOk
<1>6. Fresh'
  BY <1>1, <1>3, <1>5 DEF LoopOk, Fresh
<1>7. \A j \in Jobs : Whole(j)'
  BY <1>1, WholeUnmoved DEF LoopOk
<1> QED BY <1>1, <1>3, <1>4, <1>6, <1>7, ExecOk DEF OnlyUse

LEMMA LoopComplete ==
  ASSUME BaseInv, LoopOk, NEW r \in Runs, Complete(r) PROVE LoopOk'
<1>1. AtUse(r) /\ UNCHANGED <<msgs, reply, ran>>
  BY DEF AtUse, Complete, Executing, model
<1>2. Use(r) \in Uses
  BY <1>1, UseTypes DEF AtUse
<1>3. CASE Mark(Use(r), "complete") /\ Tell(r, "ok")
  <2>1. ledger'[Use(r)] = "complete" /\ OnlyUse(r)
    BY <1>2, <1>3, MarkTypes DEF OnlyUse, Status
  <2> QED BY <1>1, <1>3, <2>1, ToldOk
<1>4. CASE /\ ledger' \in {ledger, [ledger EXCEPT ![Use(r)] = "complete"]}
           /\ run' = [run EXCEPT ![r].pc = "threw"]
  <2>1. OnlyUse(r)
    BY <1>2, <1>4, SameTypes DEF OnlyUse
  <2>2. Fresh' /\ \A j \in Jobs : j = run[r].job => Whole(j)'
    <3>1. CASE ledger' = ledger
      BY <1>1, <3>1, WholeUnmoved DEF LoopOk, Fresh
    <3>2. CASE ledger' = [ledger EXCEPT ![Use(r)] = "complete"]
      <4>1. Others(r) /\ run'[r].job = run[r].job
        BY <1>4, PcMoves DEF BaseInv, Pcs, Stays, Kept
      <4>2. ledger'[Use(r)] = "complete"
        BY <1>2, <3>2, SameTypes
      <4> QED BY <1>1, <2>1, <4>1, <4>2, OwnUse
    <3> QED BY <1>4, <3>1, <3>2
  <2> QED BY <1>1, <1>4, <2>1, <2>2, ExecOk DEF Executing
<1> QED BY <1>3, <1>4 DEF Complete

-----------------------------------------------------------------------------
(* Storing, claiming, and the two theorems about the stored conversation.  *)

\* What a run that works alone stores is appended.
LEMMA StoredLast ==
  ASSUME BaseInv, LoopOk, NEW r \in Runs, run[r].pc \in {"store", "tools"},
         NEW m \in Messages, Persisted(run[r].job, run[r].next, m),
         UNCHANGED <<ledger, reply, ran>>, Others(r), run'[r].job = run[r].job
  PROVE  /\ OwnStep(r) /\ Fresh' /\ run[r].job \in Jobs /\ Len(msgs[run[r].job]) \in Nat
         /\ Len(msgs'[run[r].job]) = Len(msgs[run[r].job]) + 1
         /\ \A i \in 1..Len(msgs[run[r].job]) : msgs'[run[r].job][i] = msgs[run[r].job][i]
         /\ msgs'[run[r].job][Len(msgs[run[r].job]) + 1] = m
         /\ \A i \in 1..Len(msgs'[run[r].job]) :
              i \in 1..Len(msgs[run[r].job]) \/ i = Len(msgs[run[r].job]) + 1
<1> DEFINE t == run[r].job
           n == Len(msgs[t])
<1>1. t \in Jobs /\ run[r].next = n + 1 /\ msgs[t] \in Seq(Messages) /\ n \in Nat
  BY RunHere, SeqTypes DEF RunOk
<1>2. run[r].next \in Nat /\ run[r].next > n
  BY <1>1
<1>3. msgs'[t] = Append(msgs[t], m) /\ \A k \in Jobs \ {t} : msgs'[k] = msgs[k]
  BY <1>1, <1>2, Persists DEF BaseInv
<1>4. OwnStep(r)
  BY <1>1, <1>3 DEF OwnStep, Grown
<1>5. Fresh'
  BY DEF LoopOk, Fresh
<1> QED BY <1>1, <1>3, <1>4, <1>5, Appended

LEMMA LoopStoreAnswer ==
  ASSUME BaseInv, LoopOk, NEW r \in Runs, StoreAnswer(r) PROVE LoopOk'
<1> DEFINE t == run[r].job
           c == run[r].call
           n == Len(msgs[t])
           m == [role |-> "assistant", call |-> c, told |-> <<>>]
<1>1. /\ Others(r) /\ run'[r].job = t /\ run'[r].call = c
      /\ run'[r].next = run[r].next + 1
      /\ \/ run'[r].pc = "done"
         \/ /\ run'[r].pc = "tools" /\ run'[r].told = <<>>
            /\ \A k \in 1..MaxUses : run'[r].seen[k] = "none"
  BY StoreAnswerMoves
<1>2. run[r].pc = "store" /\ UNCHANGED <<ledger, reply, ran>> /\ Persisted(t, run[r].next, m)
  BY DEF StoreAnswer, model
<1>3. RunOk(r) /\ t \in Jobs /\ Spoken(c, t)
  BY <1>2, RunHere, RunNow DEF RunKnown, Called
<1>4. m \in Messages /\ m.role = "assistant" /\ m.call = c
  <2>1. <<>> \in Told /\ c \in Calls
    BY <1>3, AskedTypes, EmptySeq DEF Told
  <2> QED BY <2>1 DEF Messages
<1> HIDE DEF m
<1>5. /\ OwnStep(r) /\ Fresh' /\ n \in Nat /\ Len(msgs'[t]) = n + 1
      /\ \A i \in 1..n : msgs'[t][i] = msgs[t][i]
      /\ msgs'[t][n + 1] = m
      /\ \A i \in 1..Len(msgs'[t]) : i \in 1..n \/ i = n + 1
  BY <1>1, <1>2, <1>4, StoredLast
<1>6. /\ run[r].next = n + 1 /\ n % 2 = 0 /\ \A i \in 1..n : msgs[t][i].call < c
      /\ \A k \in 1..MaxUses : ledger[<<c, k>>] = "none"
  BY <1>2, <1>3 DEF RunOk, Called
<1>7. Coherent(msgs[t]) /\ Ordered(msgs[t])
  BY <1>3 DEF LoopOk, Whole
<1>8. ASSUME NEW j \in Jobs, j = t PROVE Whole(j)'
  <2>1. Ordered(msgs'[j])
    <3>1. ASSUME NEW i \in 1..Len(msgs'[j]), NEW k \in 1..Len(msgs'[j]), i < k
          PROVE  msgs'[j][i].call <= msgs'[j][k].call
                 /\ (k % 2 = 1 => msgs'[j][i].call < msgs'[j][k].call)
      <4>1. i \in 1..n
        BY <1>5, <1>8, <3>1
      <4>2. CASE k \in 1..n
        BY <1>5, <1>7, <1>8, <3>1, <4>1, <4>2 DEF Ordered
      <4>3. CASE k = n + 1
        <5>1. msgs'[j][k] = m /\ msgs'[j][i] = msgs[t][i]
          BY <1>5, <1>8, <4>1, <4>3
        <5>a. c \in Int /\ msgs[t][i].call \in Int
          BY SMTT(40), <1>3, <4>1, AskedTypes DEF Calls, BaseInv, Known, Stored
        <5>2. msgs[t][i].call < c /\ c \in Int /\ msgs[t][i].call \in Int
          BY <1>6, <4>1, <5>a
        <5> QED BY <1>4, <5>1, <5>2
      <4> QED BY <1>5, <1>8, <4>2, <4>3
    <3> QED BY <3>1 DEF Ordered
  <2>2. Coherent(msgs[j])'
    <3>1. ASSUME NEW i \in 1..Len(msgs'[j]), i % 2 = 1 PROVE msgs'[j][i].role = "assistant"
      <4>1. CASE i \in 1..n
        BY <1>5, <1>7, <1>8, <3>1, <4>1 DEF Coherent
      <4>2. CASE i = n + 1
        BY <1>4, <1>5, <1>8, <4>2
      <4> QED BY <1>5, <1>8, <4>1, <4>2
    <3>2. ASSUME NEW i \in 1..Len(msgs'[j]), i % 2 # 1
          PROVE  /\ msgs'[j][i].role = "user" /\ msgs'[j][i].call = msgs'[j][i - 1].call
                 /\ Len(msgs'[j][i].told) = Len(Asked(msgs[j][i].call)')
                 /\ \A k \in 1..Len(msgs'[j][i].told) :
                      ledger'[<<msgs'[j][i].call, k>>]
                        = IF msgs'[j][i].told[k] = "ok" THEN "complete" ELSE "failed"
      <4>1. i # n + 1
        <5> HIDE DEF n
        <5>a. n \in Nat /\ n % 2 = 0
          BY <1>5, <1>6
        <5>1. (n + 1) % 2 = 1
          BY <5>a
        <5> QED BY <3>2, <5>1
      <4>2. i \in 1..n /\ i - 1 \in 1..n
        <5>1. i \in 1..n
          BY <1>5, <1>8, <4>1
        <5>2. i # 1
          BY <3>2
        <5> QED BY <1>5, <5>1, <5>2
      <4>3. msgs'[j][i] = msgs[t][i] /\ msgs'[j][i - 1] = msgs[t][i - 1]
        BY <1>5, <1>8, <4>2
      <4>4. /\ msgs[t][i].role = "user" /\ msgs[t][i].call = msgs[t][i - 1].call
            /\ Len(msgs[t][i].told) = Len(Asked(msgs[t][i].call))
            /\ \A k \in 1..Len(msgs[t][i].told) :
                  ledger[<<msgs[t][i].call, k>>]
                    = IF msgs[t][i].told[k] = "ok" THEN "complete" ELSE "failed"
        BY <1>7, <3>2, <4>2 DEF Coherent
      <4>5. Asked(msgs[j][i].call)' = Asked(msgs[t][i].call)
        BY <1>2, <4>3 DEF Asked
      <4> HIDE DEF n, t
      <4> QED BY <1>2, <4>3, <4>4, <4>5
    <3> QED BY <3>1, <3>2 DEF Coherent, Asked
  <2> QED BY <2>1, <2>2 DEF Whole, Ordered
<1>9. msgs'[t][n + 1].call = c /\ (n + 1) % 2 = 1 /\ run'[r].next = (n + 1) + 1
  <2> HIDE DEF n
  <2> QED BY <1>1, <1>4, <1>5, <1>6
<1>10. run'[r].pc = "tools" => \A k \in 1..Len(run'[r].told) : FALSE
  BY <1>1
<1>11. RunOk(r)'
  BY <1>1, <1>2, <1>5, <1>6, <1>9, <1>10 DEF RunOk, Called, Tooling, Executing
<1> QED BY <1>5, <1>8, <1>11, LoopFrame

LEMMA LoopStoreResults ==
  ASSUME BaseInv, LoopOk, NEW r \in Runs, StoreResults(r) PROVE LoopOk'
<1> DEFINE t == run[r].job
           c == run[r].call
           n == Len(msgs[t])
           m == [role |-> "user", call |-> c, told |-> run[r].told]
<1>1. /\ Others(r) /\ run'[r].job = t /\ run'[r].next = run[r].next + 1 /\ run'[r].pc = "turn"
  BY StoreResultsMoves
<1>2. /\ run[r].pc = "tools" /\ ~More(r) /\ UNCHANGED <<ledger, reply, ran>>
      /\ Persisted(t, run[r].next, m)
  BY DEF StoreResults, model
<1>3. RunOk(r) /\ t \in Jobs /\ Spoken(c, t) /\ run[r] \in Locals
  BY <1>2, RunHere, RunNow DEF RunKnown, Tooling
<1>4. m \in Messages /\ m.role = "user" /\ m.call = c /\ m.told = run[r].told
  <2>1. run[r].told \in Told /\ c \in Calls
    BY <1>3, AskedTypes DEF Locals
  <2> QED BY <2>1 DEF Messages
<1> HIDE DEF m
<1>5. /\ OwnStep(r) /\ Fresh' /\ n \in Nat /\ Len(msgs'[t]) = n + 1
      /\ \A i \in 1..n : msgs'[t][i] = msgs[t][i]
      /\ msgs'[t][n + 1] = m
      /\ \A i \in 1..Len(msgs'[t]) : i \in 1..n \/ i = n + 1
  BY <1>1, <1>2, <1>4, StoredLast
<1>6. /\ run[r].next = n + 1 /\ n % 2 = 1 /\ msgs[t][n].call = c
      /\ \A k \in 1..Len(run[r].told) : Says(c, k, run[r].told[k])
  BY <1>2, <1>3 DEF RunOk, Tooling
<1>7. Coherent(msgs[t]) /\ Ordered(msgs[t])
  BY <1>3 DEF LoopOk, Whole
<1>a. Len(run[r].told) = Len(Asked(c))
  <2>1. Len(Asked(c)) \in Nat /\ Len(run[r].told) \in Nat
    BY <1>3, AskedTypes, SeqTypes
  <2>2. Len(run[r].told) <= Len(Asked(c)) /\ ~ (K(r) <= Len(Asked(c)))
    BY <1>2, RunNow DEF RunKnown, Tooling, More
  <2> QED BY <2>1, <2>2 DEF K
<1>b. \A k \in 1..Len(run[r].told) : ledger[<<c, k>>] = IF run[r].told[k] = "ok" THEN "complete" ELSE "failed"
  BY <1>6 DEF Says
<1>p. n \in 1..n /\ (n + 1) % 2 = 0 /\ n - 1 \in Int
  <2> HIDE DEF n
  <2>a. n \in Nat /\ n % 2 = 1
    BY <1>5, <1>6
  <2>1. n # 0 /\ (n + 1) % 2 = 0
    BY <2>a
  <2> QED BY <2>a, <2>1
<1>8. ASSUME NEW j \in Jobs, j = t PROVE Whole(j)'
  <2>1. Ordered(msgs'[j])
    <3>1. ASSUME NEW i \in 1..Len(msgs'[j]), NEW k \in 1..Len(msgs'[j]), i < k
          PROVE  msgs'[j][i].call <= msgs'[j][k].call
                 /\ (k % 2 = 1 => msgs'[j][i].call < msgs'[j][k].call)
      <4>1. i \in 1..n
        BY <1>5, <1>8, <3>1
      <4>2. CASE k \in 1..n
        BY <1>5, <1>7, <1>8, <3>1, <4>1, <4>2 DEF Ordered
      <4>3. CASE k = n + 1
        <5>1. msgs'[j][k] = m /\ msgs'[j][i] = msgs[t][i]
          BY <1>5, <1>8, <4>1, <4>3
        <5>2. c \in Int /\ msgs[t][i].call \in Int
          BY SMTT(40), <1>3, <4>1, AskedTypes DEF Calls, BaseInv, Known, Stored
        <5>3. msgs[t][i].call <= c
          <6>1. CASE i = n
            BY <1>6, <5>2, <6>1
          <6>2. CASE i < n
            BY <1>6, <1>7, <1>p, <4>1, <6>2 DEF Ordered
          <6> QED BY <1>5, <4>1, <6>1, <6>2
        <5>4. k % 2 # 1
          <6> HIDE DEF n
          <6> QED BY <1>p, <4>3
        <5> QED BY <1>4, <5>1, <5>3, <5>4
      <4> QED BY <1>5, <1>8, <4>2, <4>3
    <3> QED BY <3>1 DEF Ordered
  <2>2. Coherent(msgs[j])'
    <3>1. ASSUME NEW i \in 1..Len(msgs'[j]), i % 2 = 1 PROVE msgs'[j][i].role = "assistant"
      <4>1. CASE i \in 1..n
        BY <1>5, <1>7, <1>8, <3>1, <4>1 DEF Coherent
      <4>2. i # n + 1
        <5> HIDE DEF n
        <5> QED BY <1>p, <3>1
      <4> QED BY <1>5, <1>8, <4>1, <4>2
    <3>2. ASSUME NEW i \in 1..Len(msgs'[j]), i % 2 # 1
          PROVE  /\ msgs'[j][i].role = "user" /\ msgs'[j][i].call = msgs'[j][i - 1].call
                 /\ Len(msgs'[j][i].told) = Len(Asked(msgs[j][i].call)')
                 /\ \A k \in 1..Len(msgs'[j][i].told) :
                      ledger'[<<msgs'[j][i].call, k>>]
                        = IF msgs'[j][i].told[k] = "ok" THEN "complete" ELSE "failed"
      <4>1. CASE i \in 1..n
        <5>1. i # 1
          BY <3>2
        <5>2. i - 1 \in 1..n
          BY <1>5, <4>1, <5>1
        <5>3. msgs'[j][i] = msgs[t][i] /\ msgs'[j][i - 1] = msgs[t][i - 1]
          BY <1>5, <1>8, <4>1, <5>2
        <5>4. /\ msgs[t][i].role = "user" /\ msgs[t][i].call = msgs[t][i - 1].call
              /\ Len(msgs[t][i].told) = Len(Asked(msgs[t][i].call))
              /\ \A k \in 1..Len(msgs[t][i].told) :
                    ledger[<<msgs[t][i].call, k>>]
                      = IF msgs[t][i].told[k] = "ok" THEN "complete" ELSE "failed"
          BY <1>7, <3>2, <4>1 DEF Coherent
        <5>5. Asked(msgs[j][i].call)' = Asked(msgs[t][i].call)
          BY <1>2, <5>3 DEF Asked
        <5> HIDE DEF n, t
        <5> QED BY <1>2, <5>3, <5>4, <5>5
      <4>2. CASE i = n + 1
        <5>1. i - 1 = n
          BY <1>5, <4>2
        <5>2. msgs'[j][i] = m /\ msgs'[j][i - 1].call = c
          BY <1>5, <1>6, <1>8, <1>p, <4>2, <5>1
        <5>3. Asked(msgs[j][i].call)' = Asked(c)
          BY <1>2, <1>4, <5>2 DEF Asked
        <5> QED BY <1>2, <1>4, <1>a, <1>b, <5>2, <5>3
      <4> QED BY <1>5, <1>8, <4>1, <4>2
    <3> QED BY <3>1, <3>2 DEF Coherent, Asked
  <2> QED BY <2>1, <2>2 DEF Whole, Ordered
<1>9. RunOk(r)'
  <2>1. run'[r].next = (n + 1) + 1
    BY <1>1, <1>6
  <2> QED BY <1>1, <1>5, <1>p, <2>1 DEF RunOk, Called, Tooling, Executing
<1> QED BY <1>5, <1>8, <1>9, LoopFrame

LEMMA RunUnmoved ==
  ASSUME NEW s \in Runs, run'[s] = run[s], UNCHANGED <<msgs, reply, ledger, ran>>, RunOk(s)
  PROVE  RunOk(s)'
<1>1. Use(s)' = Use(s) /\ Kind(Use(s))' = Kind(Use(s)) /\ Reached(s)' = Reached(s)
  BY DEF Use, K, Kind, Asked, Reached
<1>2. \A c, k, what : Says(c, k, what)' = Says(c, k, what)
  BY DEF Says
<1>3. ASSUME NEW x, x = run[s], x = run'[s] PROVE RunOk(s)'
  BY <1>1, <1>2, <1>3 DEF RunOk
<1> QED BY <1>3

LEMMA LoopClaim ==
  ASSUME BaseInv, LoopOk, NEW r \in Runs, NEW j \in Jobs, Claim(r, j), ~overlap'
  PROVE  LoopOk'
<1>1. Others(r) /\ run'[r].job = j /\ run'[r].pc = "load"
  BY ClaimMoves DEF BaseInv
<1>2. UNCHANGED <<msgs, reply, ledger, ran>> /\ \A s \in Runs : run[s].job # j
  BY DEF Claim, table, model, Working
<1>3. Alone'
  BY <1>1, <1>2 DEF LoopOk, Alone, Others
<1>4. Fresh' /\ \A k \in Jobs : Whole(k)'
  BY <1>2, WholeUnmoved DEF LoopOk, Fresh
<1>5. ASSUME NEW s \in Runs, s # r, run'[s].pc # "idle" PROVE RunOk(s)'
  <2>1. run'[s] = run[s]
    BY <1>1, <1>5 DEF Others
  <2>2. RunOk(s)
    BY <1>5, <2>1 DEF LoopOk
  <2> QED BY <1>2, <2>1, <2>2, RunUnmoved
<1>6. RunOk(r)'
  BY <1>1 DEF RunOk, Called, Tooling, Executing
<1> QED BY <1>3, <1>4, <1>5, <1>6 DEF LoopOk

LEMMA LoopElsewhere ==
  ASSUME LoopOk, (\E r \in Runs : LeaseLapses(r)) \/ (\E j \in Jobs : LoseLock(j))
                 \/ OrphanExpires \/ UNCHANGED vars
  PROVE  LoopOk'
<1>1. UNCHANGED <<msgs, reply, ledger, ran, run>>
  BY DEF LeaseLapses, LoseLock, OrphanExpires, vars, table, model
<1>2. \A r \in Runs : run[r].pc # "idle" /\ RunOk(r) => RunOk(r)'
  BY <1>1, RunUnmoved
<1>3. \A j \in Jobs : Whole(j)'
  BY <1>1, WholeUnmoved DEF LoopOk
<1>4. Fresh' /\ Alone'
  BY <1>1 DEF LoopOk, Fresh, Alone
<1> QED BY <1>1, <1>2, <1>3, <1>4 DEF LoopOk

LEMMA LoopInit == Init => LoopInv
<1> SUFFICES ASSUME Init PROVE LoopInv
  OBVIOUS
<1>1. BaseInv
  BY BaseInit
<1>2. \A r \in Runs : run[r] = Idle /\ Idle.job = NoJob /\ Idle.pc = "idle"
  BY DEF Init, Idle
<1>3. Fresh /\ Alone
  BY <1>2 DEF Init, Fresh, Alone
<1>4. \A j \in Jobs : Len(msgs[j]) = 0
  BY EmptySeq DEF Init
<1>5. \A j \in Jobs : Whole(j)
  BY <1>4 DEF Whole, Coherent, Ordered
<1> QED BY <1>1, <1>2, <1>3, <1>5 DEF LoopInv, LoopOk

LEMMA OverlapStays ==
  ASSUME BaseInv, [Next]_vars PROVE overlap \in BOOLEAN /\ (overlap => overlap')
<1>1. overlap \in BOOLEAN
  BY SameTypes
<1>2. ASSUME NEW r \in Runs, Proceed(r) PROVE UNCHANGED overlap
  BY <1>2 DEF Proceed, LoadMessages, LoadLedger, Turn, ModelAnswers, Release, StoreAnswer,
     Replay, RefuseUnknown, RefuseRerun, Begin, Execute, Complete, Fail, StoreResults, Finish, queue
<1>3. ASSUME NEW r \in Runs, Die(r) \/ LeaseLapses(r) PROVE UNCHANGED overlap
  BY <1>3 DEF Die, LeaseLapses, queue
<1>4. ASSUME NEW r \in Runs, NEW j \in Jobs, Claim(r, j) PROVE overlap => overlap'
  BY <1>4 DEF Claim
<1>5. ASSUME (\E j \in Jobs : LoseLock(j)) \/ OrphanExpires \/ UNCHANGED vars PROVE UNCHANGED overlap
  BY <1>5 DEF LoseLock, OrphanExpires, vars, queue
<1> QED BY <1>1, <1>2, <1>3, <1>4, <1>5 DEF Next

LEMMA LoopStep == ASSUME LoopInv, [Next]_vars PROVE LoopInv'
<1>0. BaseInv /\ BaseInv'
  BY BaseStep DEF LoopInv
<1>1. overlap \in BOOLEAN /\ (overlap => overlap')
  BY <1>0, OverlapStays
<1>2. ASSUME ~overlap' PROVE LoopOk'
  <2>1. LoopOk
    BY <1>1, <1>2 DEF LoopInv
  <2>2. ASSUME NEW r \in Runs, Proceed(r) PROVE LoopOk'
    <3>1. CASE RefuseRerun(r) \/ Finish(r)
      BY <1>0, <2>1, <3>1, LoopOver DEF RefuseRerun, Finish, More, table, model
    <3> QED BY <1>0, <2>1, <2>2, <3>1, LoopLoadMessages, LoopLoadLedger, LoopTurn, LoopModelAnswers,
         LoopRelease, LoopStoreAnswer, LoopTells, LoopBegin, LoopExecute, LoopComplete,
         LoopStoreResults DEF Proceed
  <2>3. ASSUME NEW r \in Runs, Die(r) PROVE LoopOk'
    BY <1>0, <2>1, <2>3, LoopOver DEF Die, table, model
  <2> QED BY <1>0, <1>2, <2>1, <2>2, <2>3, LoopClaim, LoopElsewhere DEF Next
<1> QED BY <1>0, <1>2 DEF LoopInv

\* With one run at a time on a job, what is stored of its conversation
\* alternates, answers every reply tool by tool and says what the ledger says.
THEOREM TranscriptIsCoherent == Spec => []TranscriptCoherent
<1>1. LoopInv => TranscriptCoherent
  BY DEF LoopInv, LoopOk, Whole, TranscriptCoherent
<1> QED BY <1>1, LoopInit, LoopStep, PTL DEF Spec

LEMMA OnlyExecuteRuns ==
  ASSUME BaseInv, [Next]_vars, NEW u \in Uses, ran'[u] # ran[u]
  PROVE  \E r \in Runs : run[r].pc = "execute" /\ u = Use(r)
<1>1. ASSUME UNCHANGED ran PROVE FALSE
  BY <1>1
<1>2. ASSUME NEW r \in Runs, Execute(r) PROVE run[r].pc = "execute" /\ u = Use(r)
  <2>1. run[r].pc = "execute" /\ Use(r) \in Uses
    BY <1>2, UseTypes DEF Execute, Executing
  <2> QED BY <1>2, <2>1, SameTypes DEF Execute
<1>3. ASSUME NEW r \in Runs, Proceed(r), ~ Execute(r) PROVE UNCHANGED ran
  BY <1>3 DEF Proceed, LoadMessages, LoadLedger, Turn, ModelAnswers, Release, StoreAnswer,
     Replay, RefuseUnknown, RefuseRerun, Begin, Complete, Fail, StoreResults, Finish, model
<1>4. ASSUME NEW r \in Runs, Die(r) \/ LeaseLapses(r) PROVE UNCHANGED ran
  BY <1>4 DEF Die, LeaseLapses, model
<1>5. ASSUME NEW r \in Runs, NEW j \in Jobs, Claim(r, j) PROVE UNCHANGED ran
  BY <1>5 DEF Claim, model
<1>6. ASSUME (\E j \in Jobs : LoseLock(j)) \/ OrphanExpires \/ UNCHANGED vars PROVE UNCHANGED ran
  BY <1>6 DEF LoseLock, OrphanExpires, vars, model
<1> QED BY <1>1, <1>2, <1>3, <1>4, <1>5, <1>6 DEF Next

\* With one run at a time on a job, a tool is executed again only when it may
\* have been cut off before its outcome was stored, and is safe to run twice.
THEOREM ToolsRunAgainSafely == Spec => RerunsAreSafe
<1>1. ASSUME LoopInv, [Next]_vars, NEW u \in Uses, ~overlap, ran'[u] # ran[u]
      PROVE  ledger[u] = "pending" /\ (ran[u] = 0 \/ Kind(u) = "safe")
  <2>1. PICK r \in Runs : run[r].pc = "execute" /\ u = Use(r)
    BY <1>1, OnlyExecuteRuns DEF LoopInv
  <2>2. RunOk(r)
    BY <1>1, <2>1 DEF LoopInv, LoopOk
  <2> QED BY <2>1, <2>2 DEF RunOk
<1>2. LoopInv /\ [Next]_vars
        => [\A u \in Uses : ~overlap /\ ran'[u] # ran[u]
              => ledger[u] = "pending" /\ (ran[u] = 0 \/ Kind(u) = "safe")]_vars
  BY <1>1
<1> QED BY <1>2, LoopInit, LoopStep, PTL DEF Spec, RerunsAreSafe

-----------------------------------------------------------------------------
(* Replies that are not lost.                                              *)

Got(j)     == {c \in 1..Len(reply) : reply[c].job = j}
TurnSet(j) == {i \in 1..Len(msgs[j]) : msgs[j][i].role = "assistant"}
Hand(j)    == {r \in Working(j) : run[r].pc \in Called}

\* A reply was stored, is in the hands of a run, or was lost to a fault.
Counted(j) == Cardinality(Got(j)) <= Turns(j) + faults + Cardinality(Hand(j))

KeptInv == LoopInv /\ (~overlap => \A j \in Jobs : Counted(j))

LEMMA CountTypes ==
  ASSUME BaseInv, NEW j \in Jobs
  PROVE  /\ IsFiniteSet(Got(j)) /\ Cardinality(Got(j)) \in Nat
         /\ IsFiniteSet(TurnSet(j)) /\ Cardinality(TurnSet(j)) \in Nat /\ Turns(j) = Cardinality(TurnSet(j))
         /\ IsFiniteSet(Hand(j)) /\ Cardinality(Hand(j)) \in Nat /\ faults \in Nat
<1>1. Len(reply) \in Nat /\ Len(msgs[j]) \in Nat /\ IsFiniteSet(Runs) /\ faults \in Nat
  BY Types, SeqTypes, SubagentAssumption
     DEF BaseInv
<1>2. Got(j) \subseteq 1..Len(reply) /\ TurnSet(j) \subseteq 1..Len(msgs[j]) /\ Hand(j) \subseteq Runs
  BY DEF Got, TurnSet, Hand, Working
<1>3. IsFiniteSet(1..Len(reply)) /\ IsFiniteSet(1..Len(msgs[j]))
  BY <1>1, FS_Interval
<1>4. IsFiniteSet(Got(j)) /\ IsFiniteSet(TurnSet(j)) /\ IsFiniteSet(Hand(j))
  BY <1>1, <1>2, <1>3, FS_Subset
<1> QED BY <1>1, <1>4, FS_CardinalityType DEF Turns, TurnSet

LEMMA CountFrame ==
  ASSUME BaseInv, NEW j \in Jobs, Counted(j), faults' \in Nat, faults' >= faults,
         Got(j)' = Got(j), TurnSet(j)' = TurnSet(j), Hand(j)' = Hand(j)
  PROVE  Counted(j)'
<1>1. Turns(j) = Cardinality(TurnSet(j)) /\ Turns(j)' = Cardinality(TurnSet(j)')
  BY DEF Turns, TurnSet
<1> QED BY <1>1, CountTypes DEF Counted

LEMMA FaultsGrow ==
  ASSUME BaseInv, Fault \/ NoFault
  PROVE  faults \in Nat /\ faults' \in Nat /\ faults' >= faults
BY Types DEF BaseInv, Fault, NoFault

\* A step of a run that is neither before nor after it between its call and the store.
LEMMA HandKept ==
  ASSUME BaseInv, NEW r \in Runs, Others(r),
         \/ run[r].pc \notin Called /\ run'[r].pc \notin Called
         \/ run[r].pc \in Called /\ run'[r].pc \in Called /\ run'[r].job = run[r].job
  PROVE  \A j \in Jobs : Hand(j)' = Hand(j)
BY DEF Hand, Working, Others

LEMMA StoredKept ==
  ASSUME UNCHANGED <<msgs, reply>>
  PROVE  \A j \in Jobs : Got(j)' = Got(j) /\ TurnSet(j)' = TurnSet(j)
BY DEF Got, TurnSet

\* Every step but a reply, its storing, a death and the storing of results.
LEMMA CountQuiet ==
  ASSUME BaseInv, \A j \in Jobs : Counted(j), NEW r \in Runs, Others(r), UNCHANGED <<msgs, reply>>,
         \/ run[r].pc \notin Called /\ run'[r].pc \notin Called
         \/ run[r].pc \in Called /\ run'[r].pc \in Called /\ run'[r].job = run[r].job,
         Fault \/ NoFault
  PROVE  \A j \in Jobs : Counted(j)'
BY CountFrame, FaultsGrow, HandKept, StoredKept

LEMMA CountOver ==
  ASSUME BaseInv, \A j \in Jobs : Counted(j), NEW r \in Runs, Over(r), run[r].pc \notin Called,
         UNCHANGED <<msgs, reply>>, Fault \/ NoFault
  PROVE  \A j \in Jobs : Counted(j)'
<1>1. Others(r) /\ run'[r].pc \notin Called
  BY OverMoves DEF BaseInv, Idle, Called
<1> QED BY <1>1, CountQuiet

\* A run that dies with a reply in its hands loses it, by a fault.
LEMMA CountDie ==
  ASSUME BaseInv, \A j \in Jobs : Counted(j), NEW r \in Runs, Die(r)
  PROVE  \A j \in Jobs : Counted(j)'
<1>1. /\ Others(r) /\ run'[r].pc = "idle" /\ UNCHANGED <<msgs, reply>>
      /\ faults' = faults + 1 /\ run'[r].job = NoJob
  BY OverMoves DEF BaseInv, Idle, Die, table, model, Fault
<1>2. SUFFICES ASSUME NEW j \in Jobs PROVE Counted(j)'
  OBVIOUS
<1>3. Hand(j)' = Hand(j) \ {r}
  BY <1>1 DEF Hand, Working, Others, Called
<1>4. IsFiniteSet(Hand(j)) /\ Cardinality(Hand(j)) \in Nat
  BY CountTypes
<1>5. Cardinality(Hand(j)') \in Nat /\ Cardinality(Hand(j)') >= Cardinality(Hand(j)) - 1
  <2>1. CASE r \in Hand(j)
    <3>1. Cardinality(Hand(j)') = Cardinality(Hand(j)) - 1 /\ IsFiniteSet(Hand(j)')
      BY <1>3, <1>4, <2>1, FS_RemoveElement
    <3> QED BY <1>4, <3>1, FS_CardinalityType
  <2>2. CASE r \notin Hand(j)
    <3>1. Hand(j)' = Hand(j)
      BY <1>3, <2>2
    <3> QED BY <1>4, <3>1
  <2> QED BY <2>1, <2>2
<1>6. Got(j)' = Got(j) /\ TurnSet(j)' = TurnSet(j)
  BY <1>1, StoredKept
<1>7. Turns(j) = Cardinality(TurnSet(j)) /\ Turns(j)' = Cardinality(TurnSet(j)')
  BY DEF Turns, TurnSet
<1> QED BY <1>1, <1>4, <1>5, <1>6, <1>7, CountTypes DEF Counted

\* The reply a call got is in the hands of its run.
LEMMA CountAnswer ==
  ASSUME BaseInv, \A j \in Jobs : Counted(j), NEW r \in Runs, ModelAnswers(r)
  PROVE  \A j \in Jobs : Counted(j)'
<1> DEFINE t == run[r].job
           c == Len(reply) + 1
<1>1. /\ Others(r) /\ run'[r].pc = "release" /\ run'[r].job = t
      /\ UNCHANGED msgs /\ NoFault /\ run[r].pc = "call"
  BY AnswerMoves DEF ModelAnswers, table
<1>2. PICK a \in Answers : reply' = Append(reply, a) /\ a.job = t
  BY AnswerMoves
<1>3. /\ Len(reply) \in Nat /\ Len(reply') = c
      /\ \A d \in 1..Len(reply) : reply'[d] = reply[d]
      /\ reply'[c] = a
      /\ \A d \in 1..Len(reply') : d \in 1..Len(reply) \/ d = c
  BY <1>2, Types, Appended DEF BaseInv
<1>4. SUFFICES ASSUME NEW j \in Jobs PROVE Counted(j)'
  OBVIOUS
<1>5. \A k \in Jobs : TurnSet(k)' = TurnSet(k)
  BY <1>1 DEF TurnSet
<1>6. CASE j # t
  <2>1. Got(j)' = Got(j)
    BY <1>2, <1>3, <1>6 DEF Got
  <2>2. Hand(j)' = Hand(j)
    BY <1>1, <1>6 DEF Hand, Working, Others
  <2> QED BY <1>1, <1>5, <2>1, <2>2, CountFrame, FaultsGrow
<1>7. CASE j = t
  <2>1. Got(j)' = Got(j) \cup {c} /\ c \notin Got(j)
    BY <1>2, <1>3, <1>7 DEF Got
  <2>2. Hand(j)' = Hand(j) \cup {r} /\ r \notin Hand(j)
    BY <1>1, <1>7 DEF Hand, Working, Others, Called
  <2>3. IsFiniteSet(Got(j)) /\ IsFiniteSet(Hand(j))
    BY CountTypes
  <2>4. /\ Cardinality(Got(j)') = Cardinality(Got(j)) + 1
        /\ Cardinality(Hand(j)') = Cardinality(Hand(j)) + 1
    BY <2>1, <2>2, <2>3, FS_AddElement
  <2>5. Turns(j)' = Turns(j) /\ faults' = faults
    BY <1>1 DEF Turns, NoFault
  <2> QED BY <2>4, <2>5, CountTypes DEF Counted
<1> QED BY <1>6, <1>7

\* A message appended to a conversation is one more turn when it is a reply.
LEMMA TurnsAfter ==
  ASSUME BaseInv, LoopOk, NEW r \in Runs, run[r].pc \in {"store", "tools"},
         NEW m \in Messages, Persisted(run[r].job, run[r].next, m),
         UNCHANGED <<ledger, reply, ran>>, Others(r), run'[r].job = run[r].job
  PROVE  /\ \A j \in Jobs \ {run[r].job} : TurnSet(j)' = TurnSet(j)
         /\ \A j \in Jobs : j = run[r].job =>
              IF m.role = "assistant"
              THEN \E n : n \notin TurnSet(j) /\ TurnSet(j)' = TurnSet(j) \cup {n}
              ELSE TurnSet(j)' = TurnSet(j)
<1> DEFINE t == run[r].job
           n == Len(msgs[t])
<1>1. /\ OwnStep(r) /\ t \in Jobs /\ n \in Nat /\ Len(msgs'[t]) = n + 1
      /\ \A i \in 1..n : msgs'[t][i] = msgs[t][i]
      /\ msgs'[t][n + 1] = m
      /\ \A i \in 1..Len(msgs'[t]) : i \in 1..n \/ i = n + 1
  BY StoredLast
<1>2. \A j \in Jobs \ {t} : TurnSet(j)' = TurnSet(j)
  BY <1>1 DEF OwnStep, TurnSet
<1>3. ASSUME NEW j \in Jobs, j = t
      PROVE  IF m.role = "assistant"
             THEN n + 1 \notin TurnSet(j) /\ TurnSet(j)' = TurnSet(j) \cup {n + 1}
             ELSE TurnSet(j)' = TurnSet(j)
  <2>1. n + 1 \notin 1..n /\ 1..n \subseteq 1..(n + 1) /\ n + 1 \in 1..(n + 1)
    BY <1>1
  <2> QED BY <1>1, <1>3, <2>1 DEF TurnSet
<1> QED BY <1>2, <1>3

LEMMA CountStoreAnswer ==
  ASSUME BaseInv, LoopOk, \A j \in Jobs : Counted(j), NEW r \in Runs, StoreAnswer(r)
  PROVE  \A j \in Jobs : Counted(j)'
<1> DEFINE t == run[r].job
           m == [role |-> "assistant", call |-> run[r].call, told |-> <<>>]
<1>1. Others(r) /\ run'[r].job = t /\ run'[r].pc \notin Called
  BY StoreAnswerMoves DEF Called
<1>2. /\ run[r].pc = "store" /\ UNCHANGED <<ledger, reply, ran>> /\ Persisted(t, run[r].next, m)
      /\ NoFault
  BY DEF StoreAnswer, model
<1>3. m \in Messages /\ m.role = "assistant"
  <2>1. Spoken(run[r].call, t)
    BY <1>2, RunNow DEF RunKnown, Called
  <2>2. <<>> \in Told /\ run[r].call \in Calls
    BY <2>1, AskedTypes, EmptySeq DEF Told
  <2> QED BY <2>2 DEF Messages
<1> HIDE DEF m
<1>4. /\ \A j \in Jobs \ {t} : TurnSet(j)' = TurnSet(j)
      /\ \A j \in Jobs : j = t => \E n : n \notin TurnSet(j) /\ TurnSet(j)' = TurnSet(j) \cup {n}
  BY <1>1, <1>2, <1>3, TurnsAfter
<1>5. SUFFICES ASSUME NEW j \in Jobs PROVE Counted(j)'
  OBVIOUS
<1>6. Got(j)' = Got(j)
  BY <1>2 DEF Got
<1>7. CASE j # t
  <2>1. Hand(j)' = Hand(j)
    BY <1>1, <1>7 DEF Hand, Working, Others
  <2> QED BY <1>2, <1>4, <1>6, <1>7, <2>1, CountFrame, FaultsGrow
<1>8. CASE j = t
  <2>1. PICK n : n \notin TurnSet(j) /\ TurnSet(j)' = TurnSet(j) \cup {n}
    BY <1>4, <1>8
  <2>2. Hand(j)' = Hand(j) \ {r} /\ r \in Hand(j)
    BY <1>1, <1>2, <1>8 DEF Hand, Working, Others, Called
  <2>3. IsFiniteSet(TurnSet(j)) /\ IsFiniteSet(Hand(j))
    BY CountTypes
  <2>a. Cardinality(TurnSet(j)') = Cardinality(TurnSet(j)) + 1
    BY <2>1, <2>3, FS_AddElement
  <2>b. Cardinality(Hand(j) \ {r}) = Cardinality(Hand(j)) - 1
    BY <2>2, <2>3, FS_RemoveElement
  <2>4. Cardinality(Hand(j)') = Cardinality(Hand(j)) - 1
    BY <2>2, <2>b
  <2>5. /\ Turns(j) = Cardinality(TurnSet(j)) /\ Turns(j)' = Cardinality(TurnSet(j)')
        /\ faults' = faults
    BY <1>2 DEF Turns, TurnSet, NoFault
  <2> QED BY <1>6, <2>a, <2>4, <2>5, CountTypes DEF Counted
<1> QED BY <1>7, <1>8

LEMMA CountStoreResults ==
  ASSUME BaseInv, LoopOk, \A j \in Jobs : Counted(j), NEW r \in Runs, StoreResults(r)
  PROVE  \A j \in Jobs : Counted(j)'
<1> DEFINE t == run[r].job
           m == [role |-> "user", call |-> run[r].call, told |-> run[r].told]
<1>1. Others(r) /\ run'[r].job = t /\ run'[r].pc \notin Called
  BY StoreResultsMoves DEF Called
<1>2. /\ run[r].pc = "tools" /\ UNCHANGED <<ledger, reply, ran>> /\ Persisted(t, run[r].next, m)
      /\ NoFault
  BY DEF StoreResults, model
<1>3. m \in Messages /\ m.role = "user"
  <2>1. Spoken(run[r].call, t) /\ run[r].told \in Told
    BY <1>2, RunNow, SeqTypes DEF RunKnown, Tooling, Locals
  <2>2. run[r].call \in Calls
    BY <2>1, AskedTypes
  <2> QED BY <2>1, <2>2 DEF Messages
<1> HIDE DEF m
<1>4. \A j \in Jobs : TurnSet(j)' = TurnSet(j)
  BY <1>1, <1>2, <1>3, TurnsAfter
<1>5. \A j \in Jobs : Hand(j)' = Hand(j) /\ Got(j)' = Got(j)
  BY <1>1, <1>2, HandKept DEF Called, Got
<1> QED BY <1>2, <1>4, <1>5, CountFrame, FaultsGrow

LEMMA CountProceed ==
  ASSUME BaseInv, LoopOk, \A j \in Jobs : Counted(j), NEW r \in Runs, Proceed(r)
  PROVE  \A j \in Jobs : Counted(j)'
<1> USE DEF Called
<1>0. TypeOK
  BY DEF BaseInv
<1>1. CASE LoadMessages(r)
  <2>1. PICK x \in Locals : Moves(r, x) /\ x.pc \in {"turn", "done", "loadLedger"}
    BY <1>1, LoadMoves
  <2>2. Others(r) /\ run'[r] = x
    BY <1>0, <2>1, MovesOne DEF Others
  <2> QED BY <1>1, <2>1, <2>2, CountQuiet DEF LoadMessages, table, model
<1>2. CASE LoadLedger(r)
  BY <1>2, LedgerMoves, CountQuiet DEF LoadLedger, table, model
<1>3. CASE Turn(r)
  <2>1. run[r].pc = "turn" /\ NoFault /\ UNCHANGED <<msgs, reply>>
    BY <1>3 DEF Turn, table, model
  <2>2. Others(r) /\ run'[r].pc \in {"idle", "done", "call"}
    BY <1>3, TurnMoves DEF Idle
  <2> QED BY <2>1, <2>2, CountQuiet
<1>4. CASE Release(r)
  <2>1. Others(r) /\ Stays(r) /\ run'[r].pc = "store"
    BY <1>0, <1>4, PcMoves DEF Release, Pcs
  <2> QED BY <1>4, <2>1, CountQuiet DEF Release, Stays, Kept, table, model
<1>5. CASE Replay(r) \/ RefuseUnknown(r) \/ Fail(r)
  <2>1. PICK what \in {"ok", "error"} : Tell(r, what)
    BY <1>5 DEF Replay, RefuseUnknown, Fail
  <2>2. Others(r) /\ run'[r].pc = "tools"
    BY <1>0, <2>1, TellMoves
  <2> QED BY <1>5, <2>2, CountQuiet DEF Replay, RefuseUnknown, Fail, More, table, model
<1>6. CASE RefuseRerun(r) \/ Finish(r)
  BY <1>6, CountOver DEF RefuseRerun, Finish, More, table, model
<1>7. CASE Begin(r) \/ Execute(r)
  <2>1. PICK p \in Executing : run' = [run EXCEPT ![r].pc = p]
    BY <1>7 DEF Begin, Execute, Executing
  <2>2. Others(r) /\ run'[r].pc = p
    BY <1>0, <2>1, PcMoves DEF Executing, Pcs
  <2> QED BY <1>7, <2>2, CountQuiet DEF Begin, Execute, More, Executing, table, model
<1>8. CASE Complete(r)
  <2>1. run[r].pc = "succeeded" /\ (Fault \/ NoFault) /\ UNCHANGED <<msgs, reply>>
    BY <1>8 DEF Complete, model
  <2>2. Others(r) /\ run'[r].pc \in {"tools", "threw"}
    <3>1. CASE Tell(r, "ok")
      BY <1>0, <3>1, TellMoves
    <3>2. CASE run' = [run EXCEPT ![r].pc = "threw"]
      BY <1>0, <3>2, PcMoves DEF Pcs
    <3> QED BY <1>8, <3>1, <3>2 DEF Complete
  <2> QED BY <2>1, <2>2, CountQuiet
<1> QED BY <1>1, <1>2, <1>3, <1>4, <1>5, <1>6, <1>7, <1>8, CountAnswer, CountStoreAnswer,
        CountStoreResults DEF Proceed

LEMMA KeptStep == ASSUME KeptInv, [Next]_vars PROVE KeptInv'
<1>0. LoopInv /\ BaseInv /\ LoopInv' /\ TypeOK
  BY LoopStep DEF KeptInv, LoopInv, BaseInv
<1>1. SUFFICES ASSUME ~overlap' PROVE \A j \in Jobs : Counted(j)'
  BY <1>0 DEF KeptInv
<1>2. LoopOk /\ \A j \in Jobs : Counted(j)
  BY <1>0, <1>1, OverlapStays DEF KeptInv, LoopInv
<1>3. ASSUME NEW r \in Runs, NEW j \in Jobs, Claim(r, j) PROVE \A k \in Jobs : Counted(k)'
  <2>1. Others(r) /\ run'[r].pc = "load" /\ run[r].pc = "idle"
    BY <1>0, <1>3, ClaimMoves DEF Claim
  <2> QED BY <1>0, <1>2, <1>3, <2>1, CountQuiet DEF Claim, table, model, Called
<1>4. ASSUME (\E r \in Runs : LeaseLapses(r)) \/ (\E j \in Jobs : LoseLock(j))
             \/ OrphanExpires \/ UNCHANGED vars
      PROVE  \A k \in Jobs : Counted(k)'
  <2>1. UNCHANGED <<msgs, reply, run>> /\ (Fault \/ NoFault)
    BY <1>4 DEF LeaseLapses, LoseLock, OrphanExpires, vars, table, model, NoFault
  <2>2. \A j \in Jobs : Hand(j)' = Hand(j)
    BY <2>1 DEF Hand, Working
  <2> QED BY <1>0, <1>2, <2>1, <2>2, CountFrame, FaultsGrow, StoredKept
<1> QED BY <1>0, <1>2, <1>3, <1>4, CountProceed, CountDie DEF Next

\* With one run at a time on a job, no more replies are lost than there were
\* faults: a reply is stored, or a run is about to store it.
THEOREM RepliesAreKept == Spec => []RepliesKept
<1>1. Init => KeptInv
  <2> SUFFICES ASSUME Init PROVE KeptInv
    OBVIOUS
  <2>1. LoopInv /\ BaseInv
    BY LoopInit DEF LoopInv
  <2>2. ASSUME NEW j \in Jobs PROVE Counted(j)
    <3>1. Len(reply) = 0
      BY EmptySeq DEF Init
    <3>2. Got(j) = {}
      BY <3>1 DEF Got
    <3>3. Cardinality(Got(j)) = 0
      BY <3>2, FS_EmptySet
    <3> QED BY <2>1, <3>3, CountTypes DEF Counted
  <2> QED BY <2>1, <2>2 DEF KeptInv
<1>2. KeptInv => RepliesKept
  <2>1. ASSUME NEW j \in Jobs, Counted(j)
        PROVE  Cardinality({c \in 1..Len(reply) : reply[c].job = j}) <= Turns(j) + faults
                 + Cardinality({r \in Working(j) : run[r].pc \in {"release", "store"}})
    BY <2>1 DEF Counted, Got, Hand, Called
  <2> QED BY <2>1 DEF KeptInv, RepliesKept
<1> QED BY <1>1, <1>2, KeptStep, PTL DEF Spec

=============================================================================
