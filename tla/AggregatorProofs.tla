-------------------------- MODULE AggregatorProofs --------------------------
(* Theorems about Aggregator, for any children, runs and events.           *)
EXTENDS Aggregator, TLAPS

Message == [child : Children, outcome : Outcomes, read : BOOLEAN]

TypeOK ==
  /\ submitter \in {"new", "adding", "done", "dead"}
  /\ child \in [Children -> {"unborn", "live"} \cup Outcomes]
  /\ agg \in [status : {"absent", "waiting", "waiting-children", "active", "completed", "dead"},
              holder : Runs \cup {NoRun}, ids : SUBSET Children]
  /\ inbox \subseteq Message
  /\ run \in [Runs -> [pc : {"idle", "check", "mark", "finish", "over"},
                       ids : SUBSET Children, got : SUBSET Message]]
  /\ upsets \subseteq {"silent", "early", "reread"}

-----------------------------------------------------------------------------
(* What holds whatever happens: nobody has, or reports, an outcome that    *)
(* the child did not have, but for a failure without a message.            *)
True(m) == m.outcome = child[m.child]

Truthful ==
  /\ \A m \in inbox : True(m)
  /\ \A r \in Runs : \A m \in run[r].got : True(m)
  /\ \A c \in DOMAIN report :
       c \in Children /\ report[c] \in Outcomes /\ report[c] \in {"failed", child[c]}

(* The join: the aggregator is queued or running only between children.    *)
Joined == agg.status \in {"waiting", "active"} => \A c \in Children : child[c] # "live"

(* The children come after the aggregator and before WriteIds.             *)
Submitted ==
  /\ submitter = "new" => \A c \in Children : child[c] = "unborn"
  /\ submitter = "done" => agg.ids = Children
  /\ \A c \in Children :
       submitter = "done" \/ c \in agg.ids \/ (\E r \in Runs : c \in run[r].ids) => child[c] # "unborn"

BaseInv == TypeOK /\ Truthful /\ Joined /\ Submitted

-----------------------------------------------------------------------------
(* What holds until a child ends silently or messages are read again.      *)
Unheard == {"silent", "reread"}

\* Every end is told, as long as there is somebody to tell.
AllTold == ~ Terminal => \A c \in Children : Ended(c) => \E m \in inbox : m.child = c

\* The holder has, when it is done, a message of each child it asks for.
HolderHeard ==
  \A r \in Runs : Holds(r) /\ run[r].pc = "finish" =>
    \A c \in run[r].ids : \E m \in run[r].got : m.child = c

ReportedTrue == \A c \in DOMAIN report : report[c] = child[c]

Told == AllTold /\ HolderHeard /\ ReportedTrue

-----------------------------------------------------------------------------
(* What holds until the aggregator is claimed during its submission: it    *)
(* works, and reports, after its children, and asks for each of them.      *)
Late ==
  /\ agg.status \in {"active", "completed"} => submitter = "done"
  /\ \A r \in Runs : Holds(r) => run[r].ids = Children
  /\ agg.status = "completed" => DOMAIN report = Children

ReportInv ==
  /\ BaseInv
  /\ upsets \cap Unheard = {} => Told
  /\ "early" \notin upsets => Late

-----------------------------------------------------------------------------
(* Types, truth, the join and the submission.                              *)
LEMMA BaseInit == Init => BaseInv
BY DEF Init, BaseInv, TypeOK, Truthful, Joined, Submitted, Idle, NoReport, Message, Outcomes

\* The submission writes no message and no outcome.
LEMMA SubmissionKeepsBase ==
  ASSUME BaseInv, SubmitAggregator \/ WriteIds \/ SubmitterDies \/ \E c \in Children : SubmitChild(c)
  PROVE  BaseInv'
<1> USE DEF BaseInv, TypeOK, Truthful, Joined, Submitted, True, Ended, Outcomes
<1>1. CASE SubmitAggregator
  BY <1>1 DEF SubmitAggregator
<1>2. CASE WriteIds
  BY <1>2 DEF WriteIds
<1>3. CASE SubmitterDies
  BY <1>3 DEF SubmitterDies
<1>4. ASSUME NEW c \in Children, SubmitChild(c) PROVE BaseInv'
  <2>1. TypeOK'
    BY <1>4 DEF SubmitChild
  <2>2. \A d \in Children : child[d] \in Outcomes => child'[d] = child[d]
    BY <1>4 DEF SubmitChild
  <2>3. Truthful'
    <3>1. UNCHANGED <<inbox, run, report>>
      BY <1>4 DEF SubmitChild
    <3> QED BY <2>2, <3>1 DEF Message
  <2>4. Joined' /\ Submitted'
    BY <1>4 DEF SubmitChild
  <2> QED BY <2>1, <2>3, <2>4
<1> QED BY <1>1, <1>2, <1>3, <1>4

\* An end is told with the outcome it has, and wakes the aggregator as the last.
LEMMA EndsKeepBase ==
  ASSUME BaseInv, NEW c \in Children,
         StallChild(c) \/ \E outcome \in Outcomes : EndChild(c, outcome)
  PROVE  BaseInv'
<1> USE DEF BaseInv
<1>1. \A d \in Children : Ended(d) => child'[d] = child[d]
  BY DEF StallChild, EndChild, TypeOK, Ended, Outcomes
<1>2. UNCHANGED <<run, report, submitter>>
  BY DEF StallChild, EndChild
<1>3. TypeOK'
  <2>1. CASE StallChild(c)
    BY <2>1 DEF StallChild, TypeOK, Outcomes
  <2>2. ASSUME NEW outcome \in Outcomes, EndChild(c, outcome) PROVE TypeOK'
    <3>1. inbox' \subseteq inbox \cup {[child |-> c, outcome |-> outcome, read |-> FALSE]}
      BY <2>2 DEF EndChild, Posted
    <3>2. [child |-> c, outcome |-> outcome, read |-> FALSE] \in Message
      BY DEF Message
    <3>3. inbox' \subseteq Message
      BY <3>1, <3>2 DEF TypeOK
    <3> QED BY <2>2, <3>3 DEF EndChild, TypeOK
  <2> QED BY <2>1, <2>2
<1>4. ASSUME NEW m \in inbox', m \notin inbox PROVE m.child = c /\ m.outcome = child'[c]
  <2>1. PICK outcome \in Outcomes : EndChild(c, outcome)
    BY <1>4 DEF StallChild
  <2>2. m = [child |-> c, outcome |-> outcome, read |-> FALSE]
    BY <1>4, <2>1 DEF EndChild, Posted
  <2> QED BY <2>1, <2>2 DEF EndChild, TypeOK
<1>5. Truthful'
  <2>1. ASSUME NEW m \in Message, True(m) PROVE True(m)'
    BY <1>1, <2>1 DEF True, Ended, Message
  <2>2. \A m \in inbox' : True(m)'
    BY <1>4, <2>1 DEF Truthful, True, TypeOK
  <2>3. \A r \in Runs : \A m \in run[r].got : True(m)'
    BY <2>1 DEF Truthful, TypeOK
  <2>4. \A d \in DOMAIN report :
          d \in Children /\ report[d] \in Outcomes /\ report[d] \in {"failed", child'[d]}
    BY <1>1 DEF Truthful, Ended
  <2> QED BY <1>2, <2>2, <2>3, <2>4 DEF Truthful
<1>6. Joined'
  <2>1. CASE StallChild(c)
    BY <2>1 DEF StallChild, TypeOK, Joined, Outcomes
  <2>2. ASSUME NEW outcome \in Outcomes, EndChild(c, outcome) PROVE Joined'
    BY <2>2 DEF EndChild, TypeOK, Joined, Outcomes
  <2> QED BY <2>1, <2>2
<1>7. Submitted'
  BY <1>2 DEF StallChild, EndChild, TypeOK, Submitted, Outcomes
<1> QED BY <1>3, <1>5, <1>6, <1>7

\* A run reports what its messages say, and nothing of the others.
LEMMA AggregateTrue ==
  ASSUME BaseInv, NEW r \in Runs
  PROVE  /\ DOMAIN Aggregate(r) = run[r].ids
         /\ \A c \in run[r].ids :
              IF \E m \in run[r].got : m.child = c
              THEN Aggregate(r)[c] = child[c] /\ Ended(c)
              ELSE Aggregate(r)[c] = "failed"
<1>1. DOMAIN Aggregate(r) = run[r].ids
  BY DEF Aggregate
<1>2. ASSUME NEW c \in run[r].ids, \E m \in run[r].got : m.child = c
      PROVE  Aggregate(r)[c] = child[c] /\ Ended(c)
  <2> DEFINE said == CHOOSE m \in run[r].got : m.child = c
  <2>1. said \in run[r].got /\ said.child = c
    BY <1>2
  <2>2. Aggregate(r)[c] = said.outcome
    BY <1>2 DEF Aggregate
  <2>3. said \in Message /\ True(said)
    BY <2>1 DEF BaseInv, TypeOK, Truthful
  <2> HIDE DEF said
  <2> QED BY <2>1, <2>2, <2>3 DEF True, Message, Ended
<1>3. ASSUME NEW c \in run[r].ids, ~ \E m \in run[r].got : m.child = c
      PROVE  Aggregate(r)[c] = "failed"
  BY <1>3 DEF Aggregate
<1> QED BY <1>1, <1>2, <1>3

\* What a run does changes no child, and copies or reports what is true.
LEMMA RunKeepsBase ==
  ASSUME BaseInv, NEW r \in Runs,
         Claim(r) \/ CheckLock(r) \/ MarkRead(r) \/ Finish(r) \/ FailRun(r)
  PROVE  BaseInv'
<1> USE DEF BaseInv
<1>1. UNCHANGED <<child, submitter>>
  BY DEF Claim, CheckLock, MarkRead, Finish, FailRun
<1>2. TypeOK'
  <2>1. CASE Claim(r)
    BY <2>1 DEF Claim, TypeOK
  <2>2. CASE CheckLock(r)
    BY <2>2 DEF CheckLock, TypeOK
  <2>3. CASE MarkRead(r)
    <3>1. ASSUME NEW m \in inbox PROVE [m EXCEPT !.read = TRUE] \in Message
      BY DEF TypeOK, Message
    <3>2. inbox' \subseteq Message
      BY <2>3, <3>1 DEF MarkRead
    <3> QED BY <2>3, <3>2 DEF MarkRead, TypeOK
  <2>4. CASE Finish(r) \/ FailRun(r)
    <3>1. run' = [run EXCEPT ![r].pc = "over"] /\ UNCHANGED <<inbox, upsets>>
      BY <2>4 DEF Finish, FailRun
    <3>2. \/ agg' = agg
          \/ \E next \in {"completed", "waiting", "dead"} :
               agg' = [agg EXCEPT !.status = next, !.holder = NoRun]
      BY <2>4 DEF Finish, FailRun
    <3> QED BY ZenonT(60), <1>1, <3>1, <3>2 DEF TypeOK
  <2> QED BY <2>1, <2>2, <2>3, <2>4
<1>3. \A m \in inbox' : True(m)'
  <2>1. CASE MarkRead(r)
    BY <1>1, <2>1 DEF MarkRead, Truthful, True, TypeOK, Message
  <2>2. CASE ~ MarkRead(r)
    <3>1. inbox' = inbox
      BY <2>2 DEF Claim, CheckLock, Finish, FailRun
    <3> QED BY <1>1, <3>1 DEF Truthful, True
  <2> QED BY <2>1, <2>2
<1>4. \A x \in Runs : \A m \in run'[x].got : True(m)'
  <2>1. \A x \in Runs : run'[x].got \subseteq run[x].got \cup inbox
    BY DEF Claim, CheckLock, MarkRead, Finish, FailRun, TypeOK
  <2> QED BY <1>1, <2>1 DEF Truthful, True
<1>5. \A d \in DOMAIN report' :
        d \in Children /\ report'[d] \in Outcomes /\ report'[d] \in {"failed", child[d]}
  <2>1. report' = report \/ report' = Aggregate(r)
    BY DEF Claim, CheckLock, MarkRead, Finish, FailRun
  <2>2. CASE report' = Aggregate(r)
    BY <2>2, AggregateTrue DEF TypeOK, Ended, Outcomes
  <2> QED BY <2>1, <2>2 DEF Truthful
<1>6. Truthful'
  BY <1>1, <1>3, <1>4, <1>5 DEF Truthful, Ended
<1>7. Joined' /\ Submitted'
  <2>1. agg'.ids = agg.ids /\ (agg'.status \in {"waiting", "active"} => agg.status \in {"waiting", "active"})
    BY DEF Claim, CheckLock, MarkRead, Finish, FailRun, TypeOK, Holds
  <2>2. \A x \in Runs : run'[x].ids \subseteq run[x].ids \cup agg.ids
    BY DEF Claim, CheckLock, MarkRead, Finish, FailRun, TypeOK
  <2> QED BY <1>1, <2>1, <2>2 DEF Joined, Submitted
<1> QED BY <1>2, <1>6, <1>7

LEMMA BaseStep == BaseInv /\ [Next]_vars => BaseInv'
<1> SUFFICES ASSUME BaseInv, [Next]_vars PROVE BaseInv'
  OBVIOUS
<1>1. CASE LoseRun
  BY <1>1 DEF LoseRun, BaseInv, TypeOK, Truthful, Joined, Submitted, True, Ended
<1>2. CASE UNCHANGED vars
  BY <1>2 DEF vars, BaseInv, TypeOK, Truthful, Joined, Submitted, True, Ended
<1> QED BY <1>1, <1>2, SubmissionKeepsBase, EndsKeepBase, RunKeepsBase DEF Next

-----------------------------------------------------------------------------
(* The messages, and what a report of them says.                           *)
\* Nothing that happened is forgotten.
LEMMA UpsetsStay == [Next]_vars => upsets \subseteq upsets'
BY DEF Next, SubmitAggregator, WriteIds, SubmitterDies, LoseRun, SubmitChild, StallChild, EndChild,
       Claim, CheckLock, MarkRead, Finish, FailRun, vars

\* The submission ends no child, writes no message and touches no run.
LEMMA SubmissionKeepsTold ==
  ASSUME BaseInv, Told,
         SubmitAggregator \/ WriteIds \/ SubmitterDies \/ \E c \in Children : SubmitChild(c)
  PROVE  Told'
<1>1. UNCHANGED <<inbox, run, report>> /\ submitter # "done"
  BY DEF SubmitAggregator, WriteIds, SubmitterDies, SubmitChild
<1>2. \A c \in Children : /\ Ended(c)' => Ended(c)
                          /\ Ended(c) => child'[c] = child[c]
  BY DEF SubmitAggregator, WriteIds, SubmitterDies, SubmitChild, BaseInv, TypeOK, Ended, Outcomes
<1>3. ~ Terminal' => ~ Terminal \/ submitter = "new"
  BY DEF SubmitAggregator, WriteIds, SubmitterDies, SubmitChild, BaseInv, TypeOK, Terminal
<1>4. submitter = "new" => \A c \in Children : ~ Ended(c)
  BY DEF BaseInv, Submitted, Ended, Outcomes
<1>5. AllTold'
  <2> SUFFICES ASSUME ~ Terminal', NEW c \in Children, Ended(c)'
               PROVE  \E m \in inbox : m.child = c
    BY <1>1 DEF AllTold
  <2>1. Ended(c) /\ ~ Terminal
    BY <1>2, <1>3, <1>4
  <2> QED BY <2>1 DEF Told, AllTold
<1>6. \A r \in Runs : Holds(r)' => Holds(r)
  BY DEF SubmitAggregator, WriteIds, SubmitterDies, SubmitChild, BaseInv, TypeOK, Holds
<1>7. HolderHeard'
  BY <1>1, <1>6 DEF Told, HolderHeard
<1>8. ReportedTrue'
  BY <1>1, <1>2 DEF Told, ReportedTrue, BaseInv, Truthful, Ended
<1> QED BY <1>5, <1>7, <1>8 DEF Told

\* A child that ends and tells it.
LEMMA EndKeepsTold ==
  ASSUME BaseInv, Told, NEW c \in Children, NEW outcome \in Outcomes, EndChild(c, outcome)
  PROVE  Told'
<1>1. UNCHANGED <<submitter, run, report>> /\ ~ Ended(c) /\ (Terminal <=> Terminal')
      /\ \A r \in Runs : Holds(r)' => Holds(r)
  BY DEF EndChild, Ended, Outcomes, Terminal, Holds, BaseInv, TypeOK
<1>2. AllTold'
  <2> SUFFICES ASSUME ~ Terminal, NEW d \in Children, Ended(d)'
               PROVE  \E m \in inbox' : m.child = d
    BY <1>1 DEF AllTold
  <2>1. inbox' = inbox \cup {[child |-> c, outcome |-> outcome, read |-> FALSE]}
    BY DEF EndChild, Posted
  <2>2. CASE d = c
    <3>1. [child |-> c, outcome |-> outcome, read |-> FALSE].child = d
      BY <2>2
    <3> QED BY <2>1, <3>1
  <2>3. CASE d # c
    BY <2>1, <2>3 DEF EndChild, Told, AllTold, Ended, BaseInv, TypeOK
  <2> QED BY <2>2, <2>3
<1>3. HolderHeard'
  BY <1>1 DEF Told, HolderHeard
<1>4. ReportedTrue'
  <2>1. \A d \in DOMAIN report : d # c /\ d \in Children
    BY <1>1 DEF BaseInv, Truthful, Told, ReportedTrue, Ended
  <2> QED BY <1>1, <2>1 DEF EndChild, Told, ReportedTrue, BaseInv, TypeOK
<1> QED BY <1>2, <1>3, <1>4 DEF Told

\* The holder reads a message of every child, since none had been read before.
LEMMA ReadKeepsTold ==
  ASSUME BaseInv, Told, NEW r \in Runs, Claim(r) \/ CheckLock(r) \/ MarkRead(r),
         "reread" \notin upsets'
  PROVE  Told'
<1>1. UNCHANGED <<submitter, child, report>>
  BY DEF Claim, CheckLock, MarkRead
<1>2. AllTold'
  <2>1. CASE ~ MarkRead(r)
    BY <1>1, <2>1 DEF Claim, CheckLock, Told, AllTold, Terminal, Ended, BaseInv, TypeOK
  <2>2. CASE MarkRead(r)
    <3>1. ASSUME NEW m \in inbox PROVE \E n \in inbox' : n.child = m.child
      <4>1. [m EXCEPT !.read = TRUE] \in inbox'
        BY <2>2 DEF MarkRead
      <4>2. [m EXCEPT !.read = TRUE].child = m.child
        BY DEF BaseInv, TypeOK, Message
      <4> QED BY <4>1, <4>2
    <3>2. SUFFICES ASSUME ~ Terminal, NEW c \in Children, Ended(c)
                   PROVE  \E n \in inbox' : n.child = c
      BY <1>1, <2>2 DEF AllTold, Terminal, Ended, MarkRead
    <3>3. PICK m \in inbox : m.child = c
      BY <3>2 DEF Told, AllTold
    <3> QED BY <3>1, <3>3
  <2> QED BY <2>1, <2>2
<1>3. HolderHeard'
  <2> SUFFICES ASSUME NEW x \in Runs, Holds(x)', run'[x].pc = "finish", NEW c \in run'[x].ids
               PROVE  \E m \in run'[x].got : m.child = c
    BY DEF HolderHeard
  <2>1. CASE Claim(r)
    <3>1. x = r /\ run'[r].ids = {}
      BY <2>1 DEF Claim, Holds, BaseInv, TypeOK
    <3> QED BY <3>1
  <2>2. CASE CheckLock(r)
    <3>1. x # r /\ run'[x] = run[x] /\ Holds(x)
      BY <2>2 DEF CheckLock, Holds, BaseInv, TypeOK
    <3> QED BY <3>1 DEF Told, HolderHeard
  <2>3. CASE MarkRead(r) /\ x # r
    <3>1. run'[x] = run[x] /\ Holds(x)
      BY <2>3 DEF MarkRead, Holds, BaseInv, TypeOK
    <3> QED BY <3>1 DEF Told, HolderHeard
  <2>4. CASE MarkRead(r) /\ x = r
    <3>1. run'[r].got = {m \in inbox : ~ m.read} /\ \A m \in inbox : ~ m.read
      BY <2>4 DEF MarkRead, BaseInv, TypeOK
    <3>2. c \in run[r].ids /\ c \in Children /\ Holds(r)
      BY <2>4 DEF MarkRead, Holds, BaseInv, TypeOK
    <3>3. Ended(c) /\ ~ Terminal
      BY <3>2 DEF Holds, Terminal, BaseInv, Joined, Submitted, TypeOK, Ended
    <3> QED BY <2>4, <3>1, <3>2, <3>3 DEF Told, AllTold
  <2> QED BY <2>1, <2>2, <2>3, <2>4
<1>4. ReportedTrue'
  BY <1>1 DEF Told, ReportedTrue
<1> QED BY <1>2, <1>3, <1>4 DEF Told

\* The holder reports what it has heard.
LEMMA FinishKeepsTold ==
  ASSUME BaseInv, Told, NEW r \in Runs, Finish(r) \/ FailRun(r)
  PROVE  Told'
<1>1. UNCHANGED <<submitter, child, inbox>> /\ run' = [run EXCEPT ![r].pc = "over"]
  BY DEF Finish, FailRun
<1>2. AllTold'
  BY <1>1 DEF Finish, FailRun, Told, AllTold, Terminal, Ended, Holds, BaseInv, TypeOK
<1>3. \A x \in Runs : Holds(x)' /\ run'[x].pc = "finish" => Holds(x) /\ run'[x] = run[x]
  <2>1. agg' = agg \/ agg'.status # "active"
    BY DEF Finish, FailRun, BaseInv, TypeOK
  <2> QED BY <1>1, <2>1 DEF Holds, BaseInv, TypeOK
<1>4. HolderHeard'
  BY <1>3 DEF Told, HolderHeard
<1>5. ReportedTrue'
  <2>1. CASE report' = report
    BY <1>1, <2>1 DEF Told, ReportedTrue
  <2>2. CASE Holds(r) /\ run[r].pc = "finish" /\ report' = Aggregate(r)
    <3>1. \A c \in run[r].ids : \E m \in run[r].got : m.child = c
      BY <2>2 DEF Told, HolderHeard
    <3> QED BY <1>1, <2>2, <3>1, AggregateTrue DEF ReportedTrue
  <2> QED BY <2>1, <2>2 DEF Finish, FailRun
<1> QED BY <1>2, <1>4, <1>5 DEF Told

LEMMA ToldStep ==
  ASSUME BaseInv, Told, [Next]_vars, upsets' \cap Unheard = {}
  PROVE  Told'
<1>1. CASE LoseRun
  <2>1. \A r \in Runs : ~ Holds(r)'
    BY <1>1 DEF LoseRun, BaseInv, TypeOK, Holds
  <2>2. UNCHANGED <<child, inbox, report>> /\ ~ Terminal
    BY <1>1 DEF LoseRun, Terminal, BaseInv, TypeOK
  <2> QED BY <2>1, <2>2 DEF Told, AllTold, HolderHeard, ReportedTrue, Ended
<1>2. CASE UNCHANGED vars
  BY <1>2 DEF vars, Told, AllTold, HolderHeard, ReportedTrue, Holds, Terminal, Ended
<1>3. ASSUME NEW c \in Children, StallChild(c) PROVE FALSE
  BY <1>3 DEF StallChild, Unheard
<1>4. "reread" \notin upsets'
  BY DEF Unheard
<1> QED BY <1>1, <1>2, <1>3, <1>4, SubmissionKeepsTold, EndKeepsTold, ReadKeepsTold, FinishKeepsTold
        DEF Next

-----------------------------------------------------------------------------
(* An aggregator that is claimed after its submission.                     *)
LEMMA LateStep ==
  ASSUME BaseInv, Late, [Next]_vars, "early" \notin upsets'
  PROVE  Late'
<1> USE DEF BaseInv, TypeOK
<1>1. CASE SubmitAggregator \/ WriteIds \/ SubmitterDies \/ \E c \in Children : SubmitChild(c)
  <2>1. UNCHANGED <<run, report>> /\ submitter # "done"
    BY <1>1 DEF SubmitAggregator, WriteIds, SubmitterDies, SubmitChild
  <2>2. agg'.status \notin {"active", "completed"}
    BY <1>1, <2>1 DEF SubmitAggregator, WriteIds, SubmitterDies, SubmitChild, Late
  <2> QED BY <2>1, <2>2 DEF Late, Holds
<1>2. ASSUME NEW c \in Children, StallChild(c) \/ \E outcome \in Outcomes : EndChild(c, outcome)
      PROVE  Late'
  <2>1. UNCHANGED <<submitter, run, report>> /\ agg'.holder = agg.holder
        /\ \A s \in {"active", "completed"} : agg'.status = s => agg.status = s
    BY <1>2 DEF StallChild, EndChild
  <2> QED BY <2>1 DEF Late, Holds
<1>3. ASSUME NEW r \in Runs, Claim(r)  PROVE Late'
  <2>1. submitter = "done" /\ submitter' = submitter /\ agg'.status = "active"
        /\ agg'.holder = r /\ run'[r].ids = agg.ids /\ agg.ids = Children
    BY <1>3 DEF Claim, Submitted
  <2> QED BY <2>1 DEF Late, Holds
<1>4. ASSUME NEW r \in Runs, CheckLock(r) \/ MarkRead(r)  PROVE Late'
  <2>1. UNCHANGED <<submitter, agg, report>> /\ \A x \in Runs : run'[x].ids = run[x].ids
    BY <1>4 DEF CheckLock, MarkRead
  <2> QED BY <2>1 DEF Late, Holds
<1>5. ASSUME NEW r \in Runs, Finish(r) \/ FailRun(r)  PROVE Late'
  <2>1. submitter' = submitter /\ \A x \in Runs : run'[x].ids = run[x].ids
    BY <1>5 DEF Finish, FailRun
  <2>2. CASE UNCHANGED <<agg, report>>
    BY <2>1, <2>2 DEF Late, Holds
  <2>3. CASE Holds(r) /\ Finish(r)
    <3>1. agg'.status = "completed" /\ DOMAIN report' = run[r].ids
      BY <2>3, AggregateTrue DEF Finish
    <3> QED BY <2>1, <2>3, <3>1 DEF Late, Holds
  <2>4. CASE Holds(r) /\ FailRun(r)
    <3>1. agg'.status \in {"waiting", "dead"}
      BY <2>4 DEF FailRun
    <3> QED BY <2>1, <3>1 DEF Late, Holds
  <2> QED BY <1>5, <2>2, <2>3, <2>4 DEF Finish, FailRun
<1>6. CASE LoseRun
  <2>1. agg'.status = "waiting"
    BY <1>6 DEF LoseRun
  <2> QED BY <2>1 DEF Late, Holds
<1>7. CASE UNCHANGED vars
  BY <1>7 DEF vars, Late, Holds
<1> QED BY <1>1, <1>2, <1>3, <1>4, <1>5, <1>6, <1>7 DEF Next

\* The rows, the messages and the runs of a fan-out keep their types.
THEOREM TypeCorrect == Spec => []TypeOK
<1>1. BaseInv => TypeOK
  BY DEF BaseInv
<1> QED BY <1>1, BaseInit, BaseStep, PTL DEF Spec

\* An aggregator that was not claimed during its submission reports every child.
\* A child is reported with the outcome it had, unless a child had ended without a
\* message or an earlier execution had read the messages; even then a report that
\* is not so says failed.
THEOREM ReportsAreTrue == Spec => []ReportTrue
<1>1. Init => ReportInv
  <2>1. Init => Told /\ Late
    BY DEF Init, Told, AllTold, HolderHeard, ReportedTrue, Late, Holds, Ended, Outcomes, NoReport
  <2> QED BY <2>1, BaseInit DEF ReportInv
<1>2. ReportInv /\ [Next]_vars => ReportInv'
  BY BaseStep, ToldStep, LateStep, UpsetsStay DEF ReportInv, Unheard
<1>3. ReportInv => ReportTrue
  BY DEF ReportInv, BaseInv, Truthful, Told, ReportedTrue, Late, ReportTrue, Unheard
<1> QED BY <1>1, <1>2, <1>3, PTL DEF Spec
=============================================================================
