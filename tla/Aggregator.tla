----------------------------- MODULE Aggregator -----------------------------
(***************************************************************************)
(* A fan-out of gbrain agent run: the submission of an aggregator job and  *)
(* its children (commands/agent.ts), the messages the children leave in    *)
(* its inbox as they end, and the handler that reads them                  *)
(* (minions/handlers/subagent-aggregator.ts).  Each call into the database *)
(* is a step; MinionQueue has the statements of the queue in full.         *)
(***************************************************************************)
EXTENDS FiniteSets

CONSTANTS
  Children,   \* the entries of the manifest
  Runs,       \* executions of the aggregator, each claimed once
  NoRun,
  Events      \* what may go wrong: "stall", "die", "lose", "fail"

ASSUME RunsAssumption == NoRun \notin Runs

VARIABLES
  submitter,  \* where the command that submits the fan-out is
  child,      \* the status of each child
  agg,        \* the aggregator's row: status, holder and data.children_ids
  inbox,      \* child_done messages: child, outcome, read_at set
  run,        \* each execution: place, children_ids at its claim, messages
  report,     \* the stored result: an outcome per child that was asked for
  upsets      \* what has happened that the handler does not expect

vars == <<submitter, child, agg, inbox, run, report, upsets>>

Outcomes == {"complete", "failed", "dead", "cancelled", "timeout"}
NoReport == [c \in {} |-> "failed"]
Idle     == [pc |-> "idle", ids |-> {}, got |-> {}]

Ended(c)  == child[c] \in Outcomes
Terminal  == agg.status \in {"completed", "dead"}
Holds(r)  == agg.status = "active" /\ agg.holder = r
Allowed(event) == event \in Events

-----------------------------------------------------------------------------
(* runFanout: the aggregator first, then the children, then their ids.     *)
SubmitAggregator ==
  /\ submitter = "new"
  /\ submitter' = "adding"
  /\ agg' = [agg EXCEPT !.status = "waiting"]
  /\ UNCHANGED <<child, inbox, run, report, upsets>>

SubmitChild(c) ==
  /\ submitter = "adding" /\ child[c] = "unborn"
  /\ child' = [child EXCEPT ![c] = "live"]
  /\ agg' = [agg EXCEPT !.status = IF @ \in {"waiting", "active"} THEN "waiting-children" ELSE @]
  /\ UNCHANGED <<submitter, inbox, run, report, upsets>>

WriteIds ==
  /\ submitter = "adding" /\ \A c \in Children : child[c] # "unborn"
  /\ submitter' = "done"
  /\ agg' = [agg EXCEPT !.ids = Children]
  /\ UNCHANGED <<child, inbox, run, report, upsets>>

SubmitterDies ==
  /\ Allowed("die") /\ submitter = "adding"
  /\ submitter' = "dead"
  /\ UNCHANGED <<child, agg, inbox, run, report, upsets>>

-----------------------------------------------------------------------------
(* The queue's part: a child ends, tells its parent, and wakes it when it  *)
(* was the last one.                                                       *)
PostedOnSuccess(c, outcome) ==                                           \* mutant
  IF Terminal \/ outcome # "complete" THEN inbox
  ELSE inbox \cup {[child |-> c, outcome |-> outcome, read |-> FALSE]}

Posted(c, outcome) ==
  IF Terminal THEN inbox ELSE inbox \cup {[child |-> c, outcome |-> outcome, read |-> FALSE]}

EndChild(c, outcome) ==
  /\ child[c] = "live"
  /\ child' = [child EXCEPT ![c] = outcome]
  /\ inbox' = Posted(c, outcome)
  /\ agg' = [agg EXCEPT !.status =
               IF @ = "waiting-children" /\ \A d \in Children \ {c} : child[d] # "live"
               THEN "waiting" ELSE @]
  /\ UNCHANGED <<submitter, run, report, upsets>>

(* handleStalled dead-letters a child and does neither.                    *)
StallChild(c) ==
  /\ Allowed("stall") /\ child[c] = "live"
  /\ child' = [child EXCEPT ![c] = "dead"]
  /\ upsets' = upsets \cup {"silent"}
  /\ UNCHANGED <<submitter, agg, inbox, run, report>>

-----------------------------------------------------------------------------
(* An execution of the aggregator.  The claim returns the row's data.      *)
Claim(r) ==
  /\ agg.status = "waiting" /\ run[r].pc = "idle"
  /\ agg' = [agg EXCEPT !.status = "active", !.holder = r]
  /\ run' = [run EXCEPT ![r] = [pc |-> IF agg.ids = {} THEN "finish" ELSE "check",
                                ids |-> agg.ids, got |-> {}]]
  /\ upsets' = IF submitter = "done" THEN upsets ELSE upsets \cup {"early"}
  /\ UNCHANGED <<submitter, child, inbox, report>>

(* readInbox looks at the lock first and then marks the messages read.     *)
CheckLock(r) ==
  /\ run[r].pc = "check"
  /\ run' = [run EXCEPT ![r].pc = IF Holds(r) THEN "mark" ELSE "finish"]
  /\ UNCHANGED <<submitter, child, agg, inbox, report, upsets>>

MarkRead(r) ==
  /\ run[r].pc = "mark"
  /\ inbox' = {[m EXCEPT !.read = TRUE] : m \in inbox}
  /\ run' = [run EXCEPT ![r].pc = "finish", ![r].got = {m \in inbox : ~m.read}]
  /\ upsets' = IF \E m \in inbox : m.read THEN upsets \cup {"reread"} ELSE upsets
  /\ UNCHANGED <<submitter, child, agg, report>>

(* A child without a message is reported as failed, whatever its outcome   *)
(* was; the error beside it says that no message was observed.             *)
Aggregate(r) ==
  [c \in run[r].ids |->
     IF \E m \in run[r].got : m.child = c
     THEN (CHOOSE m \in run[r].got : m.child = c).outcome ELSE "failed"]

(* completeJob, fenced by the token.                                       *)
Finish(r) ==
  /\ run[r].pc = "finish"
  /\ run' = [run EXCEPT ![r].pc = "over"]
  /\ IF Holds(r)
     THEN agg' = [agg EXCEPT !.status = "completed", !.holder = NoRun] /\ report' = Aggregate(r)
     ELSE UNCHANGED <<agg, report>>
  /\ UNCHANGED <<submitter, child, inbox, upsets>>

(* A statement of the handler fails, before or after its effect: failJob.  *)
FailRun(r) ==
  /\ Allowed("fail") /\ run[r].pc \in {"check", "mark", "finish"}
  /\ run' = [run EXCEPT ![r].pc = "over"]
  /\ IF Holds(r)
     THEN \E next \in {"waiting", "dead"} : agg' = [agg EXCEPT !.status = next, !.holder = NoRun]
     ELSE UNCHANGED agg
  /\ UNCHANGED <<submitter, child, inbox, report, upsets>>

(* The worker dies or loses its lock, and the stall sweep puts the job     *)
(* back; the run may go on.                                                *)
LoseRun ==
  /\ Allowed("lose") /\ agg.status = "active"
  /\ agg' = [agg EXCEPT !.status = "waiting", !.holder = NoRun]
  /\ UNCHANGED <<submitter, child, inbox, run, report, upsets>>

-----------------------------------------------------------------------------
Init ==
  /\ submitter = "new"
  /\ child = [c \in Children |-> "unborn"]
  /\ agg = [status |-> "absent", holder |-> NoRun, ids |-> {}]
  /\ inbox = {} /\ run = [r \in Runs |-> Idle]
  /\ report = NoReport /\ upsets = {}

Next ==
  \/ SubmitAggregator \/ WriteIds \/ SubmitterDies \/ LoseRun
  \/ \E c \in Children :
       SubmitChild(c) \/ StallChild(c) \/ \E outcome \in Outcomes : EndChild(c, outcome)
  \/ \E r \in Runs : Claim(r) \/ CheckLock(r) \/ MarkRead(r) \/ Finish(r) \/ FailRun(r)

Spec == Init /\ [][Next]_vars

-----------------------------------------------------------------------------
(* The aggregator reports every child, as long as nothing unexpected       *)
(* happened.  A child is reported with the outcome it had; where it is     *)
(* not, the report says failed, never more than happened, and either a     *)
(* child had ended without a message or an earlier execution had read the  *)
(* messages.                                                               *)
ReportTrue ==
  agg.status = "completed" =>
    /\ upsets = {} => DOMAIN report = Children
    /\ \A c \in DOMAIN report :
         report[c] # child[c] => report[c] = "failed" /\ upsets \cap {"silent", "reread"} # {}

=============================================================================
