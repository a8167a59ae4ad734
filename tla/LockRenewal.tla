----------------------------- MODULE LockRenewal -----------------------------
(***************************************************************************)
(* The renewal of a job's lock by the worker that runs it: the interval    *)
(* timer of launchJob (minions/worker.ts) and runLockRenewalTick           *)
(* (minions/lock-renewal-tick.ts), against the stall sweep of the queue.   *)
(*                                                                         *)
(* Time is a number.  Every variable that measures it is relative to now,  *)
(* so that a clock that only grows is not part of the state.  Timers of    *)
(* the worker are punctual, and its clock runs as fast as the database's.  *)
(***************************************************************************)
EXTENDS Integers

CONSTANTS Duration,      \* lockDuration
          Interval,      \* lockDuration / 2
          CallTimeout,   \* callTimeoutMs
          Margin,        \* safetyMarginMs
          ClaimDelay     \* bound: how long the answer to a claim takes

ASSUME RenewalAssumption ==
  /\ Duration \in Nat /\ Interval \in Nat \ {0} /\ CallTimeout \in Nat \ {0}
  /\ Margin \in Nat \ {0} /\ ClaimDelay \in Nat /\ Margin < Duration

VARIABLES
  left,      \* lock_until - now, for the last lock this run was given
  token,     \* of the row: still this run's, or not
  age,       \* now - lastSuccessfulRenewalAt
  toNext,    \* until the interval fires again
  pc,        \* the tick: between ticks, in renewLock, in reconnect, given up
  elapsed,   \* since renewLock or reconnect was called
  answer,    \* of the renewLock being waited for, once the database ran it
  strays,    \* 1 when a renewLock nobody waits for may still run, else 0
  engine     \* only Postgres has a pool to reconnect

lock == <<left, token>>
tick == <<pc, elapsed, answer>>
tickVars == <<lock, age, toNext, tick, strays, engine>>

-----------------------------------------------------------------------------
(* The interval: a tick that is still in flight makes the timer skip one.  *)

NextTick  == Interval

Fire ==
  /\ toNext = 0 /\ pc # "over"
  /\ toNext' = NextTick
  /\ IF pc = "between" THEN pc' = "renew" /\ elapsed' = 0 /\ answer' = "none"
                       ELSE UNCHANGED tick
  /\ UNCHANGED <<lock, age, strays, engine>>

(* renewLock reaches the row, which is fenced by the token.                *)
Renewed == left' = IF token = "ours" THEN Duration ELSE left

Land ==
  /\ pc = "renew" /\ answer = "none"
  /\ Renewed
  /\ answer' = IF token = "ours" THEN "renewed" ELSE "lost"
  /\ UNCHANGED <<token, age, toNext, pc, elapsed, strays, engine>>

(* So does, some time later, a call nobody waits for any more.             *)
LandLate ==
  /\ strays = 1
  /\ Renewed
  /\ strays' \in 0..1
  /\ UNCHANGED <<token, age, toNext, tick, engine>>

Answered ==
  /\ pc = "renew" /\ answer # "none"
  /\ IF answer = "renewed" THEN age' = 0 /\ pc' = "between"
                           ELSE age' = age /\ pc' = "over"
  /\ elapsed' = 0 /\ answer' = "none"
  /\ UNCHANGED <<lock, toNext, strays, engine>>

SinceCall == elapsed >= Duration - Margin                                \* mutant
Expired   == age >= Duration - Margin

(* The call throws or the race is lost.  Near the deadline the run gives   *)
(* up; before it, a pool is rebuilt once, and the next tick tries again.   *)
CallFails ==
  /\ pc = "renew"
  /\ pc' = IF Expired THEN "over" ELSE IF engine = "postgres" THEN "reconnect" ELSE "between"
  /\ strays' = IF answer = "none" THEN 1 ELSE strays
  /\ elapsed' = 0 /\ answer' = "none"
  /\ UNCHANGED <<lock, age, toNext, engine>>

Reconnected ==
  /\ pc = "reconnect"
  /\ pc' = "between" /\ elapsed' = 0
  /\ UNCHANGED <<lock, age, toNext, answer, strays, engine>>

(* The handler ends by itself.                                             *)
Ends ==
  /\ pc # "over" /\ pc' = "over" /\ elapsed' = 0 /\ answer' = "none"
  /\ UNCHANGED <<lock, age, toNext, strays, engine>>

-----------------------------------------------------------------------------
(* The queue: an expired lock is taken by the sweep, whoever runs the job. *)
Reclaim ==
  /\ token = "ours" /\ left < 0
  /\ token' = "none"
  /\ UNCHANGED <<left, age, toNext, tick, strays, engine>>

(* Time passes up to the next timer.                                       *)
Timed == pc \in {"renew", "reconnect"} /\ elapsed >= CallTimeout

Pass ==
  /\ pc # "over" /\ toNext > 0 /\ ~Timed
  /\ left' = left - 1 /\ age' = age + 1 /\ toNext' = toNext - 1
  /\ elapsed' = IF pc = "between" THEN elapsed ELSE elapsed + 1
  /\ UNCHANGED <<token, pc, answer, strays, engine>>

TickInit ==
  /\ left \in (Duration - ClaimDelay)..Duration /\ token = "ours" /\ age = 0
  /\ toNext = Interval /\ pc = "between" /\ elapsed = 0 /\ answer = "none"
  /\ strays = 0 /\ engine \in {"postgres", "pglite"}

TickNext ==
  \/ Fire \/ Land \/ LandLate \/ Answered \/ CallFails \/ Reconnected
  \/ Ends \/ Reclaim \/ Pass

TickSpec == TickInit /\ [][TickNext]_tickVars

-----------------------------------------------------------------------------
TickTypeOK ==
  /\ left \in Int /\ token \in {"ours", "none"} /\ age \in Nat /\ toNext \in 0..Interval
  /\ pc \in {"between", "renew", "reconnect", "over"} /\ elapsed \in 0..CallTimeout
  /\ answer \in {"none", "renewed", "lost"} /\ strays \in 0..1
  /\ engine \in {"postgres", "pglite"}

Lag == IF ClaimDelay > CallTimeout THEN ClaimDelay ELSE CallTimeout

(* A run that has not given up is never further behind its lock than this: *)
(* for so long, at most, may another run of the job go on beside it.       *)
Overlap == Lag + 2 * CallTimeout + Interval - Margin

OverlapBounded == pc # "over" => left + Overlap > 0

=============================================================================
