----------------------------- MODULE PageFence -----------------------------
(***************************************************************************)
(* The lock file of one page (core/page-lock.ts) and the writers under it: *)
(* writeFactsToFence adds a fact to the page's markdown and to the table   *)
(* (core/facts/fence-write.ts), forgetFactInFence strikes one out          *)
(* (core/facts/forget.ts).  Without the lock, the extract_facts phase      *)
(* (core/cycle/extract-facts.ts) makes the table follow the page as it was *)
(* last imported, and a fact that cannot be struck out expires only in the *)
(* table.                                                                  *)
(*                                                                         *)
(* A process runs its calls one at a time from await to await; the calls   *)
(* of two processes and the phase interleave at every step.                *)
(***************************************************************************)
EXTENDS Naturals, FiniteSetsExt

CONSTANTS
  Calls, Procs,   \* calls under the lock, and the pids that make them
  Pid,            \* the process of a call
  NoCall,
  Events          \* what may go wrong: "crash", "age", "rewrite", "blind", "fail",
                  \* "unfenced"

ASSUME CallsAssumption == Pid \in [Calls -> Procs] /\ NoCall \notin Calls

VARIABLES
  lock,    \* the lock file: who wrote it, whether its pid is there, its age
  up,      \* the pid names a running process
  call,    \* each call: place, kind, what it read, whether its lock grew old
  fence,   \* the rows of the page's facts fence
  facts,   \* the rows of the facts table for the page
  bare,    \* the numbers that were forgotten in the table and not on the page
  db,      \* the rows of the fence as the page was last imported
  pass,    \* extract_facts at the page: its place, the rows it read
  upsets   \* what has happened that the rows cannot recover from

vars == <<lock, up, call, fence, facts, bare, db, pass, upsets>>
page == <<fence, facts, bare>>
cycle == <<db, pass>>

NoLock  == [by |-> NoCall, whole |-> FALSE, old |-> FALSE]
Unborn  == [pc |-> "idle", kind |-> "none", old |-> FALSE, body |-> {}, num |-> 0,
            late |-> FALSE, gone |-> FALSE]
Attempt == {"stat", "read", "open", "fill"}
Holding == {"held", "number", "rename", "strike", "insert", "expire", "unstruck", "release", "unlink"}
AtRest  == [pc |-> "rest", body |-> {}]

Allowed(event) == event \in Events
Goes(c, l)     == call' = [call EXCEPT ![c].pc = l]
Over(c)        == [Unborn EXCEPT !.pc = "over", !.late = call[c].late]
Ends(c)        == call' = [call EXCEPT ![c] = Over(c)]
Notes(what)    == upsets' = upsets \cup {what}

\* The thread of the process is not in the middle of another call.
Runs(c) == /\ up[Pid[c]]
           /\ \A d \in Calls \ {c} : Pid[d] = Pid[c] => call[d].pc \notin Attempt \cup {"strike", "unlink"}

-----------------------------------------------------------------------------
(* tryAcquireOnce, polled by acquirePageLock: synchronous, but every call  *)
(* into the file system is a step for the other processes.                 *)
\* Another is writing the file, or has replaced the one whose age was read.
Races(c) == \/ \E d \in Calls \ {c} : call[d].pc \in {"open", "fill"}
            \/ lock # NoLock /\ call[c].old /\ ~lock.old

Takes(c) ==
  /\ Goes(c, "open")
  /\ IF Races(c) THEN Notes("raced") ELSE UNCHANGED upsets

Begin(c) ==
  /\ call[c].pc = "idle" /\ up[Pid[c]]
  /\ call' = [call EXCEPT ![c].pc = "poll", ![c].kind = "add"]
  /\ UNCHANGED <<lock, up, page, upsets>>

(* A row that expired already is left alone.  Without the columns of a     *)
(* fence, a local path or a file where it looks for one (which is not      *)
(* where the pages of a source other than the default are written), forget *)
(* takes no lock.                                                          *)
BeginForget(c, f) ==
  /\ call[c].pc = "idle" /\ up[Pid[c]] /\ ~f.out
  /\ \E l \in {"poll"} \cup IF Allowed("unfenced") THEN {"bare"} ELSE {} :
       call' = [call EXCEPT ![c].pc = l, ![c].kind = "forget", ![c].num = f.num]
  /\ UNCHANGED <<lock, up, page, upsets>>

Exists(c) ==
  /\ call[c].pc = "poll" /\ Runs(c)
  /\ IF lock = NoLock THEN Takes(c) ELSE Goes(c, "stat") /\ UNCHANGED upsets
  /\ UNCHANGED <<lock, up, page>>

Stat(c) ==
  /\ call[c].pc = "stat"
  /\ IF lock = NoLock THEN Takes(c)
     ELSE call' = [call EXCEPT ![c].pc = "read", ![c].old = lock.old] /\ UNCHANGED upsets
  /\ UNCHANGED <<lock, up, page>>

(* An empty or missing file has no pid, and counts as stale; a pid of the  *)
(* own process is alive.                                                   *)
AliveElsewhere(c) == lock.whole /\ Pid[lock.by] # Pid[c] /\ up[Pid[lock.by]]   \* mutant
Alive(c) == lock.whole /\ up[Pid[lock.by]]

Read(c) ==
  /\ call[c].pc = "read"
  /\ IF Alive(c) /\ ~call[c].old
     THEN (Goes(c, "poll") \/ Ends(c)) /\ UNCHANGED upsets
     ELSE Takes(c)
  /\ UNCHANGED <<lock, up, page>>

Open(c) ==
  /\ call[c].pc = "open"
  /\ lock' = [by |-> c, whole |-> FALSE, old |-> FALSE]
  /\ Goes(c, "fill")
  /\ UNCHANGED <<up, page, upsets>>

(* The text goes to the file that was opened, which may be gone, or shared *)
(* with another writer.                                                    *)
Fill(c) ==
  /\ call[c].pc = "fill"
  /\ \/ lock # NoLock /\ lock' = [by |-> c, whole |-> TRUE, old |-> FALSE]
     \/ lock.by # c /\ UNCHANGED lock
  /\ Goes(c, "held")
  /\ UNCHANGED <<up, page, upsets>>

-----------------------------------------------------------------------------
(* writeFactsToFence: the body, the greatest number of the table, the new  *)
(* body by way of a temporary file, the row of the table.                  *)
ReadBody(c) ==
  /\ call[c].pc = "held" /\ call[c].kind = "add" /\ Runs(c)
  /\ call' = [call EXCEPT ![c].pc = "number", ![c].body = fence]
  /\ UNCHANGED <<lock, up, page, upsets>>

Top(rows) == Max({0} \cup {f.num : f \in rows})

NumberAfter(c)  == 1 + Top(call[c].body \cup facts)

(* A lookup that fails counts as no rows.                                  *)
Number(c) ==
  /\ call[c].pc = "number" /\ up[Pid[c]]
  /\ \/ /\ call' = [call EXCEPT ![c].pc = "rename", ![c].num = NumberAfter(c)]
        /\ UNCHANGED upsets
     \/ /\ Allowed("blind") /\ Notes("blind")
        /\ call' = [call EXCEPT ![c].pc = "rename", ![c].num = 1 + Top(call[c].body)]
  /\ UNCHANGED <<lock, up, page>>

RowOf(c) == [num |-> call[c].num, by |-> c, out |-> FALSE]

(* A new body whose fence does not parse is not renamed into place.        *)
WriteBody(c) ==
  /\ call[c].pc = "rename" /\ Runs(c)
  /\ \/ /\ fence' = call[c].body \cup {RowOf(c)}
        /\ call' = [call EXCEPT ![c].pc = "insert", ![c].body = {}]
     \/ /\ Allowed("unfenced") /\ UNCHANGED fence
        /\ call' = [call EXCEPT ![c].pc = "release", ![c].body = {}]
  /\ UNCHANGED <<lock, up, facts, bare, upsets>>

(* ON CONFLICT DO NOTHING drops a row whose number is taken, which is no   *)
(* loss if extract_facts brought the same fact in; the insert may also     *)
(* fail, and is thrown.  Either way the lock is given back.                *)
Taken(num)    == \E f \in facts : f.num = num
TakenFrom(c)  == \E f \in facts : f.num = call[c].num /\ f.by # c

Insert(c) ==
  /\ call[c].pc = "insert" /\ up[Pid[c]]
  /\ \/ ~Taken(call[c].num) /\ facts' = facts \cup {RowOf(c)}
     \/ (Taken(call[c].num) \/ Allowed("fail")) /\ UNCHANGED facts
  /\ IF TakenFrom(c) THEN Notes("refused") ELSE UNCHANGED upsets
  /\ Goes(c, "release")
  /\ UNCHANGED <<lock, up, fence, bare>>

-----------------------------------------------------------------------------
Struck(rows, n) == {[f EXCEPT !.out = f.out \/ f.num = n] : f \in rows}

(* forgetFactInFence: the row is struck out of the file that was read,     *)
(* where it is still there, and then expires in the table.                 *)
ReadTarget(c) ==
  /\ call[c].pc = "held" /\ call[c].kind = "forget" /\ Runs(c)
  /\ IF \E f \in fence : f.num = call[c].num
     THEN call' = [call EXCEPT ![c].pc = "strike", ![c].body = fence]
     ELSE Goes(c, "unstruck")
  /\ UNCHANGED <<lock, up, page, upsets>>

Strike(c) ==
  /\ call[c].pc = "strike"
  /\ \/ /\ fence' = Struck(call[c].body, call[c].num)
        /\ call' = [call EXCEPT ![c].pc = "expire", ![c].body = {}]
     \/ /\ Allowed("unfenced") /\ UNCHANGED fence
        /\ call' = [call EXCEPT ![c].pc = "unstruck", ![c].body = {}]
  /\ UNCHANGED <<lock, up, facts, bare, upsets>>

\* By the id of the row, which a wipe has deleted.
Expires(c) ==
  \/ facts' = IF call[c].gone THEN facts ELSE Struck(facts, call[c].num)
  \/ Allowed("fail") /\ UNCHANGED facts

Expire(c) ==
  /\ call[c].pc = "expire" /\ up[Pid[c]]
  /\ Expires(c) /\ Goes(c, "release")
  /\ UNCHANGED <<lock, up, fence, bare, upsets>>

(* The fallbacks: under the lock the row is not on the page, or striking   *)
(* it would break the fence; without it there was no file.                 *)
ExpireOnly(c) ==
  /\ call[c].pc \in {"unstruck", "bare"} /\ up[Pid[c]]
  /\ Expires(c) /\ bare' = IF facts' = facts THEN bare ELSE bare \cup {call[c].num}
  /\ IF call[c].pc = "bare" THEN Ends(c) ELSE Goes(c, "release")
  /\ UNCHANGED <<lock, up, fence, upsets>>

-----------------------------------------------------------------------------
(* release: by the pid in the file.                                        *)
Check(c) ==
  /\ call[c].pc = "release" /\ Runs(c)
  /\ IF lock.whole /\ Pid[lock.by] = Pid[c] THEN Goes(c, "unlink") ELSE Ends(c)
  /\ UNCHANGED <<lock, up, page, upsets>>

Unlink(c) ==
  /\ call[c].pc = "unlink"
  /\ lock' = NoLock
  /\ Ends(c)
  /\ UNCHANGED <<up, page, upsets>>

-----------------------------------------------------------------------------
(* runExtractFacts at the page: its own copy of the body, the rows of the  *)
(* table, then a wipe where the table has rows that are not on the page,   *)
(* and the rows that are missing, none of them expired.                    *)
Import ==
  /\ db # fence /\ db' = fence
  /\ UNCHANGED <<lock, up, call, page, pass, upsets>>

ReadPage ==
  /\ pass = AtRest
  /\ pass' = [pc |-> "list", body |-> db]
  /\ UNCHANGED <<lock, up, call, page, db, upsets>>

Same(f, g) == f.num = g.num /\ f.by = g.by
Held(f, rows) == \E g \in rows : Same(f, g)
Missing(rows, from) == {f \in from : ~Held(f, rows)}

List ==
  /\ pass.pc = "list"
  /\ \/ /\ Missing(pass.body, facts) # {}
        /\ pass' = [pass EXCEPT !.pc = "wipe"]
     \/ /\ Missing(pass.body, facts) = {} /\ Missing(facts, pass.body) # {}
        /\ pass' = [pass EXCEPT !.pc = "insert"]
     \/ /\ Missing(pass.body, facts) = {} /\ Missing(facts, pass.body) = {}
        /\ pass' = AtRest
  /\ UNCHANGED <<lock, up, call, page, db, upsets>>

Wipe ==
  /\ pass.pc = "wipe"
  /\ facts' = {}
  /\ call' = [c \in Calls |-> [call[c] EXCEPT !.gone = call[c].kind = "forget"]]
  /\ pass' = IF pass.body = {} THEN AtRest ELSE [pass EXCEPT !.pc = "insert"]
  /\ UNCHANGED <<lock, up, fence, bare, db, upsets>>

Refill ==
  /\ pass.pc = "insert"
  /\ LET rows == {f \in pass.body : ~Taken(f.num)} IN
       /\ facts' = facts \cup {[f EXCEPT !.out = FALSE] : f \in rows}
       /\ IF Missing(fence, rows) # {} THEN Notes("revived") ELSE UNCHANGED upsets
  /\ pass' = AtRest
  /\ UNCHANGED <<lock, up, call, fence, bare, db>>

\* An error, an abort or a crash of its process ends the phase between two steps.
Abandon ==
  /\ Allowed("fail") /\ pass # AtRest
  /\ pass' = AtRest
  /\ UNCHANGED <<lock, up, call, page, db, upsets>>

-----------------------------------------------------------------------------
(* Five minutes pass over a lock file.                                     *)
Age ==
  /\ Allowed("age") /\ lock # NoLock /\ ~lock.old
  /\ lock' = [lock EXCEPT !.old = TRUE]
  /\ call' = [call EXCEPT ![lock.by].late = @ \/ call[lock.by].pc \in Holding]
  /\ UNCHANGED <<up, page, cycle, upsets>>

(* The page is written by something that does not keep its fence.          *)
Rewrite ==
  /\ Allowed("rewrite") /\ fence # {}
  /\ fence' = {} /\ Notes("rewritten")
  /\ UNCHANGED <<lock, up, call, facts, bare, cycle>>

Crash(p) ==
  /\ Allowed("crash") /\ up[p]
  /\ up' = [up EXCEPT ![p] = FALSE]
  /\ call' = [c \in Calls |-> IF Pid[c] = p /\ call[c].pc # "idle" THEN Over(c) ELSE call[c]]
  /\ UNCHANGED <<lock, page, cycle, upsets>>

Start(p) ==
  /\ ~up[p]
  /\ up' = [up EXCEPT ![p] = TRUE]
  /\ UNCHANGED <<lock, call, page, cycle, upsets>>

Init ==
  /\ lock = NoLock /\ up = [p \in Procs |-> TRUE]
  /\ call = [c \in Calls |-> Unborn]
  /\ fence = {} /\ facts = {} /\ bare = {}
  /\ db = {} /\ pass = AtRest /\ upsets = {}

CallStep(c) ==
  \/ Begin(c) \/ \E f \in facts : BeginForget(c, f)
  \/ Exists(c) \/ Stat(c) \/ Read(c) \/ Open(c) \/ Fill(c)
  \/ ReadBody(c) \/ Number(c) \/ WriteBody(c) \/ Insert(c)
  \/ ReadTarget(c) \/ Strike(c) \/ Expire(c) \/ ExpireOnly(c)
  \/ Check(c) \/ Unlink(c)

Next ==
  \/ Age \/ Rewrite
  \/ \E p \in Procs : Crash(p) \/ Start(p)
  \/ Import \/ ReadPage \/ List \/ Wipe \/ Refill \/ Abandon
  \/ \E c \in Calls : CallStep(c) /\ UNCHANGED cycle

Spec == Init /\ [][Next]_vars

-----------------------------------------------------------------------------
Exclusive == "raced" \notin upsets /\ \A c \in Calls : ~call[c].late

(* While no two processes took the lock at once and nobody worked past its *)
(* five minutes, the table and the page agree, whatever crashes and        *)
(* failures cut a writer off and whatever extract_facts deletes and puts   *)
(* back between two steps of one: no number is given to a second fact,     *)
(* unless the page lost its fence and the table could not be asked, or was *)
(* refilled from the page before the loss; and while the page keeps its    *)
(* fence, what the table holds is in it, struck if it was forgotten, but   *)
(* for the facts that were forgotten in the table alone.                   *)
FactsKept ==
  Exclusive =>
    /\ "refused" \in upsets => "rewritten" \in upsets /\ {"blind", "revived"} \cap upsets # {}
    /\ "rewritten" \notin upsets =>
         \A f \in facts : \E g \in fence : Same(f, g) /\ (f.out /\ f.num \notin bare => g.out)

=============================================================================
