---------------------------- MODULE SubagentLoop ----------------------------
(***************************************************************************)
(* The model-and-tools loop of a subagent job (minions/handlers/subagent,  *)
(* the direct path) with the rate leases it holds around every model call  *)
(* (minions/rate-leases.ts).                                               *)
(*                                                                         *)
(* A job's conversation lives in subagent_messages, its tool calls in the  *)
(* two-phase ledger subagent_tool_executions.  A run is one execution of   *)
(* the handler; every await of it ends a step.  A run may end at any step  *)
(* (crash, abort, a statement that fails), and a run that lost its job's   *)
(* lock goes on beside the run that claimed the job next.                  *)
(*                                                                         *)
(* A model call is its number, and its reply is the kinds of the tools it  *)
(* asks for; a use is <<call, position>>, which stands for tool_use_id.    *)
(* The seed message is the same for every run and is left out, so a        *)
(* conversation is empty until the first reply is stored.                  *)
(***************************************************************************)
EXTENDS Integers, Sequences, FiniteSets

CONSTANTS Jobs, Runs, NoJob, NoRun,
          Replies,    \* what the model can answer: tools asked for, cut or not
          Cap,        \* maxConcurrent of the lease key
          MaxTurns,   \* max_turns
          MaxCalls,   \* bound: model calls ever answered
          MaxUses,    \* bound: tools asked for by one reply
          MaxFaults   \* bound: deaths, lost locks and failed statements

Kinds == {"safe", "once", "unknown"}   \* idempotent, not, not in the registry

ASSUME SubagentAssumption ==
  /\ IsFiniteSet(Runs) /\ NoJob \notin Jobs /\ NoRun \notin Runs
  /\ \A r \in Replies : /\ r.uses \in Seq(Kinds) /\ Len(r.uses) <= MaxUses
                        /\ r.cut \in BOOLEAN
  /\ Cap \in Nat /\ MaxTurns \in Nat
  /\ MaxCalls \in Nat /\ MaxUses \in Nat /\ MaxFaults \in Nat

VARIABLES
  msgs,      \* subagent_messages of every job
  reply,     \* what the model answered to every call, and for which job
  ledger,    \* status of every use in subagent_tool_executions
  ran,       \* how often the tool of every use was executed
  lease,     \* the lease row of every run; "lapsed" when past expires_at or gone
  orphans,   \* unexpired lease rows of runs that are over
  owner,     \* the run whose lock token the row of every job has
  outcome,   \* stop_reason in the result of every job, "none" until it completes
  run,       \* the locals of every run
  overlap,   \* two runs have worked on one job at once
  faults

table == <<msgs, ledger>>
model == <<reply, ran>>
rates == <<lease, orphans>>
queue == <<owner, outcome, overlap>>
vars  == <<table, model, rates, queue, run, faults>>

Calls == 1..MaxCalls
Uses  == Calls \X (1..MaxUses)
Stops == {"end_turn", "max_tokens", "max_turns"}

Idle == [job |-> NoJob, pc |-> "idle", next |-> 0, turns |-> 0, call |-> 0,
         seen |-> [k \in 1..MaxUses |-> "none"], told |-> <<>>, result |-> "none"]

Fault   == faults < MaxFaults /\ faults' = faults + 1
NoFault == UNCHANGED faults

Asked(c)  == reply[c].uses
Turns(j)  == Cardinality({i \in 1..Len(msgs[j]) : msgs[j][i].role = "assistant"})
Working(j) == {r \in Runs : run[r].job = j}

-----------------------------------------------------------------------------
(* The queue around the run: claimed, lost, over.                          *)

Claim(r, j) ==
  /\ run[r].pc = "idle" /\ owner[j] = NoRun /\ outcome[j] = "none"
  /\ owner' = [owner EXCEPT ![j] = r]
  /\ run' = [run EXCEPT ![r] = [Idle EXCEPT !.job = j, !.pc = "load"]]
  /\ overlap' = (overlap \/ Working(j) # {})
  /\ NoFault
  /\ UNCHANGED <<table, model, rates, outcome>>

(* The lock expires under a run and the stall sweep requeues the job.      *)
LoseLock(j) ==
  /\ owner[j] # NoRun /\ Fault
  /\ owner' = [owner EXCEPT ![j] = NoRun]
  /\ UNCHANGED <<table, model, rates, outcome, run, overlap>>

Over(r) ==
  /\ run' = [run EXCEPT ![r] = Idle]
  /\ owner' = [j \in Jobs |-> IF owner[j] = r THEN NoRun ELSE owner[j]]

(* A lease of a run that is over stays until it expires.                   *)
Drop(r) ==
  /\ lease' = [lease EXCEPT ![r] = "none"]
  /\ orphans' \in {orphans, orphans + IF lease[r] = "live" THEN 1 ELSE 0}

Die(r) ==
  /\ run[r].pc # "idle" /\ Fault
  /\ Over(r) /\ Drop(r)
  /\ UNCHANGED <<table, model, outcome, overlap>>

-----------------------------------------------------------------------------
(* Resuming: the stored conversation, then the stored ledger.              *)

NextIndexLow(j) == Len(msgs[j])                                          \* mutant
NextIndex(j) == Len(msgs[j]) + 1
TurnsDone(j) == Turns(j)

LoadMessages(r) ==
  LET j    == run[r].job
      n    == Len(msgs[j])
      here == [run[r] EXCEPT !.next = NextIndex(j), !.turns = TurnsDone(j)]
      last == msgs[j][n]
  IN /\ run[r].pc = "load"
     /\ run' = [run EXCEPT ![r] =
          IF n = 0 \/ last.role = "user" THEN [here EXCEPT !.pc = "turn"]
          ELSE IF Asked(last.call) = <<>>
               THEN [here EXCEPT !.pc = "done", !.result = "end_turn"]
               ELSE [here EXCEPT !.pc = "loadLedger", !.call = last.call]]
     /\ NoFault
     /\ UNCHANGED <<table, model, rates, queue>>

LoadLedger(r) ==
  /\ run[r].pc = "loadLedger"
  /\ run' = [run EXCEPT ![r].pc = "tools",
                        ![r].seen = [k \in 1..MaxUses |-> ledger[<<run[r].call, k>>]]]
  /\ NoFault
  /\ UNCHANGED <<table, model, rates, queue>>

-----------------------------------------------------------------------------
(* One turn: lease, call, release, store.                                  *)

Held == Cardinality({r \in Runs : lease[r] = "live"}) + orphans

HasOneMore == Held <= Cap                                                \* mutant
HasRoom    == Held < Cap

(* Without a lease the run ends and the job is bounced back to the queue.  *)
Turn(r) ==
  /\ run[r].pc = "turn" /\ NoFault
  /\ \/ /\ run[r].turns >= MaxTurns
        /\ run' = [run EXCEPT ![r].pc = "done", ![r].result = "max_turns"]
        /\ UNCHANGED <<lease, owner>>
     \/ /\ run[r].turns < MaxTurns /\ HasRoom
        /\ lease' = [lease EXCEPT ![r] = "live"]
        /\ run' = [run EXCEPT ![r].pc = "call"]
        /\ UNCHANGED owner
     \/ /\ run[r].turns < MaxTurns /\ ~HasRoom
        /\ Over(r)
        /\ UNCHANGED lease
  /\ UNCHANGED <<table, model, orphans, outcome, overlap>>

ModelAnswers(r) ==
  /\ run[r].pc = "call" /\ Len(reply) < MaxCalls
  /\ \E a \in Replies :
       reply' = Append(reply, [job |-> run[r].job, uses |-> a.uses, cut |-> a.cut])
  /\ run' = [run EXCEPT ![r].pc = "release", ![r].call = Len(reply')]
  /\ NoFault
  /\ UNCHANGED <<table, ran, rates, queue>>

(* releaseLease: its error is swallowed, and the row stays.                *)
Release(r) ==
  /\ run[r].pc = "release"
  /\ Drop(r)
  /\ IF orphans' = orphans THEN NoFault ELSE Fault
  /\ run' = [run EXCEPT ![r].pc = "store"]
  /\ UNCHANGED <<table, model, queue>>

(* now() passes expires_at, or the owner's row is deleted.  Nothing renews *)
(* a lease during a call.                                                  *)
LeaseLapses(r) ==
  /\ lease[r] = "live" /\ Fault
  /\ lease' = [lease EXCEPT ![r] = "lapsed"]
  /\ UNCHANGED <<table, model, orphans, queue, run>>

OrphanStays == orphans > Cap /\ UNCHANGED vars                            \* mutant
OrphanExpires ==
  /\ orphans > 0
  /\ orphans' = orphans - 1
  /\ NoFault
  /\ UNCHANGED <<table, model, lease, queue, run>>

(* persistMessage: ON CONFLICT (job_id, message_idx) DO NOTHING.           *)
Persisted(j, i, m) ==
  msgs' = IF i > Len(msgs[j]) THEN [msgs EXCEPT ![j] = Append(@, m)] ELSE msgs

StoreAnswer(r) ==
  LET here == [run[r] EXCEPT !.next = @ + 1, !.turns = @ + 1]
  IN /\ run[r].pc = "store" /\ NoFault
     /\ Persisted(run[r].job, run[r].next,
                  [role |-> "assistant", call |-> run[r].call, told |-> <<>>])
     /\ run' = [run EXCEPT ![r] =
          IF Asked(here.call) = <<>>
          THEN [here EXCEPT !.pc = "done",
                  !.result = IF reply[here.call].cut THEN "max_tokens" ELSE "end_turn"]
          ELSE [here EXCEPT !.pc = "tools", !.told = <<>>, !.seen = Idle.seen]]
     /\ UNCHANGED <<ledger, model, rates, queue>>

-----------------------------------------------------------------------------
(* The tools of a reply, one after the other.                              *)
K(r)    == Len(run[r].told) + 1
Use(r)  == <<run[r].call, K(r)>>
Kind(u) == Asked(u[1])[u[2]]
More(r) == run[r].pc = "tools" /\ K(r) <= Len(Asked(run[r].call))

Tell(r, what) == run' = [run EXCEPT ![r].pc = "tools", ![r].told = Append(@, what)]
Mark(u, status) == ledger' = [ledger EXCEPT ![u] = status]

ReplayRaw(r) ==                                                          \* mutant
  /\ More(r) /\ run[r].seen[K(r)] \in {"complete", "failed"}
  /\ Tell(r, run[r].seen[K(r)])
  /\ NoFault
  /\ UNCHANGED <<table, model, rates, queue>>

(* The outcome is in the ledger as it was loaded.                          *)
Replay(r) ==
  /\ More(r) /\ run[r].seen[K(r)] \in {"complete", "failed"}
  /\ Tell(r, IF run[r].seen[K(r)] = "complete" THEN "ok" ELSE "error")
  /\ NoFault
  /\ UNCHANGED <<table, model, rates, queue>>

RefuseUnknown(r) ==
  /\ More(r) /\ run[r].seen[K(r)] \in {"none", "pending"} /\ Kind(Use(r)) = "unknown"
  /\ Mark(Use(r), "failed")
  /\ Tell(r, "error")
  /\ NoFault
  /\ UNCHANGED <<msgs, model, rates, queue>>

(* A tool that may have run, and is not safe to run again, fails the job.  *)
RefuseRerun(r) ==
  /\ More(r) /\ run[r].seen[K(r)] = "pending" /\ Kind(Use(r)) = "once"
  /\ Over(r)
  /\ NoFault
  /\ UNCHANGED <<table, model, rates, outcome, overlap>>

MayRunAny(r) == Kind(Use(r)) # "unknown"                                 \* mutant
MayRun(r) ==
  \/ run[r].seen[K(r)] = "none" /\ Kind(Use(r)) # "unknown"
  \/ run[r].seen[K(r)] = "pending" /\ Kind(Use(r)) = "safe"

(* persistToolExecPending: ON CONFLICT DO NOTHING.                         *)
Begin(r) ==
  /\ More(r) /\ run[r].seen[K(r)] \in {"none", "pending"} /\ MayRun(r)
  /\ Mark(Use(r), IF ledger[Use(r)] = "none" THEN "pending" ELSE ledger[Use(r)])
  /\ run' = [run EXCEPT ![r].pc = "execute"]
  /\ NoFault
  /\ UNCHANGED <<msgs, model, rates, queue>>

Execute(r) ==
  /\ run[r].pc = "execute"
  /\ ran' = [ran EXCEPT ![Use(r)] = IF @ < 2 THEN @ + 1 ELSE 2]
  /\ \/ run' = [run EXCEPT ![r].pc = "succeeded"] /\ NoFault
     \/ run' = [run EXCEPT ![r].pc = "threw"] /\ Fault
  /\ UNCHANGED <<table, reply, rates, queue>>

CompleteSwallows(r) ==                                                   \* mutant
  /\ run[r].pc = "succeeded"
  /\ \/ Mark(Use(r), "complete") /\ NoFault
     \/ Fault /\ UNCHANGED ledger
  /\ Tell(r, "ok")
  /\ UNCHANGED <<msgs, model, rates, queue>>

(* persistToolExecComplete stands in the same try as the tool: when it     *)
(* fails, the tool counts as failed.                                       *)
Complete(r) ==
  /\ run[r].pc = "succeeded"
  /\ \/ Mark(Use(r), "complete") /\ Tell(r, "ok") /\ NoFault
     \/ /\ Fault
        /\ ledger' \in {ledger, [ledger EXCEPT ![Use(r)] = "complete"]}
        /\ run' = [run EXCEPT ![r].pc = "threw"]
  /\ UNCHANGED <<msgs, model, rates, queue>>

Fail(r) ==
  /\ run[r].pc = "threw"
  /\ Mark(Use(r), "failed")
  /\ Tell(r, "error")
  /\ NoFault
  /\ UNCHANGED <<msgs, model, rates, queue>>

StoreResults(r) ==
  /\ run[r].pc = "tools" /\ ~More(r) /\ NoFault
  /\ Persisted(run[r].job, run[r].next,
               [role |-> "user", call |-> run[r].call, told |-> run[r].told])
  /\ run' = [run EXCEPT ![r].pc = "turn", ![r].next = @ + 1, ![r].told = <<>>]
  /\ UNCHANGED <<ledger, model, rates, queue>>

(* completeJob is fenced by the token.                                     *)
Finish(r) ==
  /\ run[r].pc = "done"
  /\ outcome' = [j \in Jobs |-> IF owner[j] = r THEN run[r].result ELSE outcome[j]]
  /\ Over(r)
  /\ NoFault
  /\ UNCHANGED <<table, model, rates, overlap>>

-----------------------------------------------------------------------------
Init ==
  /\ msgs = [j \in Jobs |-> <<>>] /\ reply = <<>>
  /\ ledger = [u \in Uses |-> "none"] /\ ran = [u \in Uses |-> 0]
  /\ lease = [r \in Runs |-> "none"] /\ orphans = 0
  /\ owner = [j \in Jobs |-> NoRun] /\ outcome = [j \in Jobs |-> "none"]
  /\ run = [r \in Runs |-> Idle] /\ overlap = FALSE /\ faults = 0

(* What the handler does next when nothing stops it.                       *)
Proceed(r) ==
  \/ LoadMessages(r) \/ LoadLedger(r) \/ Turn(r) \/ ModelAnswers(r) \/ Release(r)
  \/ StoreAnswer(r) \/ Replay(r) \/ RefuseUnknown(r) \/ RefuseRerun(r) \/ Begin(r)
  \/ Execute(r) \/ Complete(r) \/ Fail(r) \/ StoreResults(r) \/ Finish(r)

Next ==
  \/ \E r \in Runs : Proceed(r) \/ Die(r) \/ LeaseLapses(r)
  \/ \E r \in Runs, j \in Jobs : Claim(r, j)
  \/ \E j \in Jobs : LoseLock(j)
  \/ OrphanExpires

Spec == Init /\ [][Next]_vars

(* Workers poll, a handler that is not stopped goes on, leases expire.     *)
Fairness ==
  /\ \A j \in Jobs : WF_vars(\E r \in Runs : Claim(r, j))
  /\ \A r \in Runs : WF_vars(Proceed(r))
  /\ WF_vars(OrphanExpires)

FairSpec == Spec /\ Fairness

-----------------------------------------------------------------------------
Status == {"none", "pending", "complete", "failed"}

TypeOK ==
  /\ msgs \in [Jobs -> Seq([role : {"assistant", "user"}, call : Calls,
                            told : Seq({"ok", "error"})])]
  /\ reply \in Seq([job : Jobs, uses : Seq(Kinds), cut : BOOLEAN]) /\ Len(reply) <= MaxCalls
  /\ ledger \in [Uses -> Status] /\ ran \in [Uses -> 0..2]
  /\ lease \in [Runs -> {"none", "live", "lapsed"}] /\ orphans \in Nat
  /\ owner \in [Jobs -> Runs \cup {NoRun}]
  /\ outcome \in [Jobs -> Stops \cup {"none"}]
  /\ run \in [Runs -> [job : Jobs \cup {NoJob},
                       pc : {"idle", "load", "loadLedger", "turn", "call", "release", "store",
                             "tools", "execute", "succeeded", "threw", "done"},
                       next : Nat, turns : Nat, call : 0..MaxCalls,
                       seen : [1..MaxUses -> Status],
                       told : Seq({"ok", "error"}), result : Stops \cup {"none"}]]
  /\ overlap \in BOOLEAN /\ faults \in 0..MaxFaults

InCall == {r \in Runs : run[r].pc = "call"}

(* At most Cap calls are under way, beside those that outlived their own   *)
(* lease, whatever crashes and failed releases leave behind.               *)
CallsCapped ==
  Cardinality(InCall) <= Cap + Cardinality({r \in InCall : lease[r] = "lapsed"})

(* A crash costs at most the one reply that was not stored yet.            *)
RepliesKept ==
  ~overlap => \A j \in Jobs :
    Cardinality({c \in 1..Len(reply) : reply[c].job = j}) <= Turns(j) + faults
      + Cardinality({r \in Working(j) : run[r].pc \in {"release", "store"}})

(* A resumed run executes a tool again only when it may have been cut off  *)
(* before the outcome was stored and is safe to run twice.                 *)
RerunsAreSafe ==
  [][\A u \in Uses : ~overlap /\ ran'[u] # ran[u]
       => ledger[u] = "pending" /\ (ran[u] = 0 \/ Kind(u) = "safe")]_vars

(* The stored conversation alternates, every message with results answers  *)
(* the reply before it, tool by tool, and says what the ledger says.       *)
Coherent(m) ==
  \A i \in 1..Len(m) :
    IF i % 2 = 1 THEN m[i].role = "assistant"
    ELSE /\ m[i].role = "user" /\ m[i].call = m[i - 1].call
         /\ Len(m[i].told) = Len(Asked(m[i].call))
         /\ \A k \in 1..Len(m[i].told) :
              ledger[<<m[i].call, k>>] = IF m[i].told[k] = "ok" THEN "complete" ELSE "failed"

TranscriptCoherent == ~overlap => \A j \in Jobs : Coherent(msgs[j])

(* A use whose tool may not run again, and whose outcome nobody stored.    *)
Wedged(j) ==
  \E i \in 1..Len(msgs[j]), k \in 1..MaxUses :
    /\ k <= Len(Asked(msgs[j][i].call)) /\ Kind(<<msgs[j][i].call, k>>) = "once"
    /\ ledger[<<msgs[j][i].call, k>>] = "pending"

(* Every job completes, whatever crashes before, leases and locks are lost *)
(* on the way, unless one of its unsafe tools was cut off.                 *)
EveryJobCompletes == \A j \in Jobs : <>[](outcome[j] # "none" \/ Wedged(j))

=============================================================================
