---------------------------- MODULE SourceRequests ----------------------------
(***************************************************************************)
(* The requests that the searches of the service send to ONE marketplace.  *)
(* Every search runs a collector for the source: one search call, then one *)
(* detail call for every selected candidate, all at once                   *)
(* (application/search_pipeline.py, _collect_source, _fetch_details).  A   *)
(* call first asks the limiter of the source, a FIFO lock held while the   *)
(* caller sleeps until the interval since the last call is over            *)
(* (collectors/rate_limit.py), and only then starts its deadline           *)
(* (asyncio.wait_for); transient failures are retried with exponential     *)
(* backoff until the attempts or the deadline run out                      *)
(* (collectors/http.py, collectors/retry.py).                              *)
(*                                                                         *)
(* Time is a clock of whole ticks.  A tick is longer than the turns of the *)
(* event loop that one event needs: a task that can go on does so before   *)
(* the clock moves, and a timer fires at most Lag ticks late.              *)
(***************************************************************************)
EXTENDS Integers, Sequences, FiniteSets, FiniteSetsExt

CONSTANTS
  Collectors,     \* the searches that collect from this source
  MaxDetails,     \* max_detail_candidates
  Interval,       \* minimum_interval_seconds of the limiter, in ticks
  Timeout,        \* source_timeout_seconds
  MaxAttempts,    \* RetryPolicy.max_attempts
  BaseDelay,      \* RetryPolicy.base_delay_seconds
  MaxDelay,       \* RetryPolicy.max_delay_seconds
  Lag,            \* how late the event loop may run a timer
  StartBy,        \* bound: the last tick at which a search may start
  MaxTime,        \* bound: when the clock stops
  Nobody          \* the holder of a free lock

ASSUME RequestsAssumption ==
  /\ MaxDetails \in Nat /\ Interval \in Nat /\ Timeout \in Nat
  /\ MaxAttempts \in Nat \ {0} /\ BaseDelay \in Nat /\ MaxDelay \in Nat
  /\ Lag \in Nat /\ StartBy \in Nat /\ MaxTime \in Nat
  /\ Nobody \notin Collectors \X Nat

\* Call 0 of a collector is its search, the others are its details.
Calls == Collectors \X (0 .. MaxDetails)

\* "ready": about to ask; "queued": waits for the lock; "pausing": sleeps
\* with the lock; "sent": awaits an answer; "backoff": sleeps before a retry.
Waiting == {"ready", "queued", "pausing"}
Running == {"sent", "backoff"}
Ended   == {"answered", "failed"}
Steps   == {"none"} \cup Waiting \cup Running \cup Ended

Phases == {"idle", "search", "details", "ready", "partial", "unavailable"}

VARIABLES
  now,          \* time.monotonic()
  nextAllowed,  \* _next_allowed[source]
  holder,       \* who holds _locks[source]
  queue,        \* who waits for it, in order
  call,         \* the state of each call
  phase,        \* the state of each collector
  selected,     \* how many details each collector fetches
  granted       \* history: when the limiter let the last call through

vars == <<now, nextAllowed, holder, queue, call, phase, selected, granted>>

\* arrived and ahead are history: when the call asked the limiter, and behind
\* how many others.
CallRecord == [at : Steps, due : Int, deadline : Nat,
               attempts : 0 .. MaxAttempts, arrived : Nat, ahead : Nat]
NoCall == [at |-> "none", due |-> 0, deadline |-> 0, attempts |-> 0,
           arrived |-> 0, ahead |-> 0]

Init ==
  /\ now = 0
  /\ nextAllowed = 0
  /\ holder = Nobody
  /\ queue = <<>>
  /\ call = [id \in Calls |-> NoCall]
  /\ phase = [c \in Collectors |-> "idle"]
  /\ selected = [c \in Collectors |-> 0]
  /\ granted = -Interval

-----------------------------------------------------------------------------
(* The limiter *)

\* The call goes on to its adapter: its deadline starts here, after the wait
\* for the limiter.  A detail whose URL is on a foreign host is refused by the
\* adapter without a request.
Granted(id) ==
  /\ granted' = now
  /\ \/ call' = [call EXCEPT ![id] =
           [NoCall EXCEPT !.at = "sent", !.attempts = 1, !.deadline = now + Timeout]]
     \/ /\ id[2] # 0
        /\ call' = [call EXCEPT ![id] = [NoCall EXCEPT !.at = "failed"]]

\* The body of the lock in acquire: sleep if it is too early.  The time of
\* the next call counts from the moment this one really goes on.
EnterLock(id, asked) ==
  \/ /\ now >= nextAllowed
     /\ Granted(id)
     /\ nextAllowed' = now + Interval
     /\ holder' = Nobody
  \/ /\ now < nextAllowed
     /\ call' = [call EXCEPT ![id] = [asked EXCEPT !.at = "pausing", !.due = nextAllowed]]
     /\ holder' = id
     /\ UNCHANGED <<nextAllowed, granted>>

\* The calls before this one in line.
Ahead == Len(queue) + (IF holder = Nobody THEN 0 ELSE 1)

\* Tasks of a gather start in the order of their candidates.
InTurn(id) == \A k \in 1 .. id[2] - 1 : call[<<id[1], k>>].at # "ready"

\* SourceRateLimiter.acquire up to its first suspension.
Acquire(id) ==
  LET asked == [call[id] EXCEPT !.arrived = now, !.ahead = Ahead]
  IN  /\ call[id].at = "ready"
      /\ InTurn(id)
      /\ IF Interval = 0
         THEN Granted(id) /\ UNCHANGED <<nextAllowed, holder, queue>>
         ELSE \/ /\ Ahead = 0
                 /\ EnterLock(id, asked)
                 /\ UNCHANGED queue
              \/ /\ Ahead # 0
                 /\ queue' = Append(queue, id)
                 /\ call' = [call EXCEPT ![id] = [asked EXCEPT !.at = "queued"]]
                 /\ UNCHANGED <<nextAllowed, holder, granted>>
      /\ UNCHANGED <<now, phase, selected>>

\* Mutant: the newest waiter is woken first.
TakeLockNewestFirst(id) ==
  /\ holder = Nobody
  /\ queue # <<>>
  /\ id = queue[Len(queue)]
  /\ queue' = SubSeq(queue, 1, Len(queue) - 1)
  /\ EnterLock(id, call[id])
  /\ UNCHANGED <<now, phase, selected>>

\* The lock was released and has woken the first of its waiters.
TakeLock(id) ==
  /\ holder = Nobody
  /\ queue # <<>>
  /\ id = Head(queue)
  /\ queue' = Tail(queue)
  /\ EnterLock(id, call[id])
  /\ UNCHANGED <<now, phase, selected>>

\* Mutant: the next call counts from the time this one was due.
WakeOnSchedule(id) ==
  /\ call[id].at = "pausing"
  /\ now >= call[id].due
  /\ Granted(id)
  /\ nextAllowed' = nextAllowed + Interval
  /\ holder' = Nobody
  /\ UNCHANGED <<now, queue, phase, selected>>

\* Mutant: a detail refused for its host leaves the lock taken.
WakeKeepingLock(id) ==
  /\ call[id].at = "pausing"
  /\ now >= call[id].due
  /\ Granted(id)
  /\ nextAllowed' = now + Interval
  /\ holder' = IF call'[id].at = "failed" THEN holder ELSE Nobody
  /\ UNCHANGED <<now, queue, phase, selected>>

\* The sleep in acquire ends: the caller goes on and releases the lock.
Wake(id) ==
  /\ call[id].at = "pausing"
  /\ now >= call[id].due
  /\ Granted(id)
  /\ nextAllowed' = now + Interval
  /\ holder' = Nobody
  /\ UNCHANGED <<now, queue, phase, selected>>

-----------------------------------------------------------------------------
(* One call: attempts, backoff, deadline *)

Delay(attempt) == Min({MaxDelay, BaseDelay * 2^attempt})

\* The delays before the attempt with this number (the first one is 1).
Backoff[attempt \in Nat] ==
  IF attempt <= 1 THEN 0 ELSE Backoff[attempt - 1] + Delay(attempt - 2)

Fail(id) == [call EXCEPT ![id] = [NoCall EXCEPT !.at = "failed"]]

\* The search is over and its first n candidates get a detail call each.
WithDetails(c, n) ==
  [id \in Calls |->
     IF id = <<c, 0>> THEN [NoCall EXCEPT !.at = "answered"]
     ELSE IF id[1] = c /\ id[2] <= n THEN [NoCall EXCEPT !.at = "ready"]
     ELSE call[id]]

\* Mutant: one detail more than the limit.
AnswerSearchOneMore(c, n) ==
  /\ call[<<c, 0>>].at = "sent"
  /\ call' = WithDetails(c, n + 1)
  /\ selected' = [selected EXCEPT ![c] = n + 1]
  /\ phase' = [phase EXCEPT ![c] = "details"]
  /\ UNCHANGED <<now, nextAllowed, holder, queue, granted>>

\* The page of candidates arrives: all selected details become ready at once.
AnswerSearch(c, n) ==
  /\ call[<<c, 0>>].at = "sent"
  /\ call' = WithDetails(c, n)
  /\ selected' = [selected EXCEPT ![c] = n]
  /\ phase' = [phase EXCEPT ![c] = "details"]
  /\ UNCHANGED <<now, nextAllowed, holder, queue, granted>>

AnswerDetail(id) ==
  /\ id[2] # 0
  /\ call[id].at = "sent"
  /\ call' = [call EXCEPT ![id] = [NoCall EXCEPT !.at = "answered"]]
  /\ UNCHANGED <<now, nextAllowed, holder, queue, phase, selected, granted>>

\* An answer that is_retryable rejects, or a page the parser cannot read.
FailForGood(id) ==
  /\ call[id].at = "sent"
  /\ call' = Fail(id)
  /\ UNCHANGED <<now, nextAllowed, holder, queue, phase, selected, granted>>

\* Mutant: every delay is the first one.
FailAttemptFlat(id) ==
  /\ call[id].at = "sent"
  /\ call' = IF call[id].attempts >= MaxAttempts THEN Fail(id)
             ELSE [call EXCEPT ![id].at = "backoff", ![id].due = now + Delay(0)]
  /\ UNCHANGED <<now, nextAllowed, holder, queue, phase, selected, granted>>

\* A timeout, a network error, a 429 or a 5xx: the last attempt fails the
\* call, another one sleeps before the next.  (A delay of zero is a sleep that
\* is over at once.)
FailAttempt(id) ==
  /\ call[id].at = "sent"
  /\ \/ /\ call[id].attempts >= MaxAttempts
        /\ call' = Fail(id)
     \/ /\ call[id].attempts < MaxAttempts
        /\ call' = [call EXCEPT ![id].at = "backoff",
                                ![id].due = now + Delay(call[id].attempts - 1)]
  /\ UNCHANGED <<now, nextAllowed, holder, queue, phase, selected, granted>>

\* Mutant: the timeout is that of an attempt, not of the whole call.
RetryAfresh(id) ==
  /\ call[id].at = "backoff"
  /\ now >= call[id].due
  /\ call' = [call EXCEPT ![id].at = "sent", ![id].attempts = @ + 1, ![id].due = 0,
                          ![id].deadline = now + Timeout]
  /\ UNCHANGED <<now, nextAllowed, holder, queue, phase, selected, granted>>

\* The sleep in with_retry ends: the request is sent again.
Retry(id) ==
  /\ call[id].at = "backoff"
  /\ now >= call[id].due
  /\ call' = [call EXCEPT ![id].at = "sent", ![id].attempts = @ + 1, ![id].due = 0]
  /\ UNCHANGED <<now, nextAllowed, holder, queue, phase, selected, granted>>

\* asyncio.wait_for cancels the attempt or the sleep.
Expire(id) ==
  /\ call[id].at \in Running
  /\ now >= call[id].deadline
  /\ call' = Fail(id)
  /\ UNCHANGED <<now, nextAllowed, holder, queue, phase, selected, granted>>

-----------------------------------------------------------------------------
(* The collector of one search *)

Start(c) ==
  /\ phase[c] = "idle"
  /\ now <= StartBy
  /\ phase' = [phase EXCEPT ![c] = "search"]
  /\ call' = [call EXCEPT ![<<c, 0>>].at = "ready"]
  /\ UNCHANGED <<now, nextAllowed, holder, queue, selected, granted>>

SearchFailed(c) == phase[c] = "search" /\ call[<<c, 0>>].at = "failed"

DetailsEnded(c) ==
  phase[c] = "details" /\ \A k \in 1 .. selected[c] : call[<<c, k>>].at \in Ended

\* gather returns once the last detail has ended.
Finish(c) ==
  /\ \/ /\ SearchFailed(c)
        /\ phase' = [phase EXCEPT ![c] = "unavailable"]
     \/ /\ DetailsEnded(c)
        /\ phase' = [phase EXCEPT ![c] =
             IF \E k \in 1 .. selected[c] : call[<<c, k>>].at = "failed"
             THEN "partial" ELSE "ready"]
  /\ UNCHANGED <<now, nextAllowed, holder, queue, call, selected, granted>>

-----------------------------------------------------------------------------
(* The clock *)

\* A task that can go on without a timer.
Runnable ==
  \/ \E id \in Calls : call[id].at = "ready"
  \/ holder = Nobody /\ queue # <<>>
  \/ \E c \in Collectors : SearchFailed(c) \/ DetailsEnded(c)

\* A timer that must not be later than it is.
Overdue(id) ==
  \/ call[id].at \in {"pausing", "backoff"} /\ now >= call[id].due + Lag
  \/ call[id].at \in Running /\ now >= call[id].deadline + Lag

Active == {c \in Collectors : phase[c] \in {"search", "details"}}

\* Once nothing is under way and no search may start, the clock is no matter.
Tick ==
  /\ Active # {} \/ now < StartBy
  /\ now < MaxTime
  /\ ~Runnable
  /\ ~\E id \in Calls : Overdue(id)
  /\ now' = now + 1
  /\ UNCHANGED <<nextAllowed, holder, queue, call, phase, selected, granted>>

CallStep(id) ==
  \/ Acquire(id) \/ TakeLock(id) \/ Wake(id)
  \/ AnswerDetail(id) \/ FailForGood(id) \/ FailAttempt(id)
  \/ Retry(id) \/ Expire(id)

CollectorStep(c) ==
  \/ Start(c) \/ Finish(c)
  \/ \E n \in 0 .. MaxDetails : AnswerSearch(c, n)

Next ==
  \/ Tick
  \/ \E id \in Calls : CallStep(id)
  \/ \E c \in Collectors : CollectorStep(c)

Spec == Init /\ [][Next]_vars

\* What the event loop must do.  An answer need not come, a timer must fire.
Fairness ==
  /\ WF_vars(Tick)
  /\ \A id \in Calls : WF_vars(Acquire(id) \/ TakeLock(id) \/ Wake(id)
                               \/ Retry(id) \/ Expire(id))
  /\ \A c \in Collectors : WF_vars(Finish(c))

FairSpec == Spec /\ Fairness

-----------------------------------------------------------------------------
(* Properties *)

TypeOK ==
  /\ now \in Nat /\ nextAllowed \in Nat
  /\ granted \in Int
  /\ holder \in Calls \cup {Nobody}
  /\ queue \in Seq(Calls)
  /\ call \in [Calls -> CallRecord]
  /\ phase \in [Collectors -> Phases]
  /\ selected \in [Collectors -> 0 .. MaxDetails]

\* However many calls queue at the limiter, each is let through one interval
\* (and one late timer) per call ahead of it, and one more for itself, after it
\* asked: the lock is FIFO, a retry never comes back to it, and it is free
\* again as soon as its holder has slept (rate_limit.py:20).
LetThroughInTime ==
  \A id \in Calls : call[id].at \in {"queued", "pausing"} =>
    now <= call[id].arrived + (call[id].ahead + 1) * (Interval + Lag)

\* Retries do not hammer a source that fails: the n-th attempt of a call comes
\* no sooner than the sum of the growing delays after its first
\* (retry.py:52).
AttemptsBackOff ==
  \A id \in Calls : call[id].at = "sent" =>
    now >= (call[id].deadline - Timeout) + Backoff[call[id].attempts]

\* The limiter spaces the starts of the calls and the deadline ends them, so
\* together they bound how many calls of a source are under way at a time
\* (rate_limit.py:23 with search_pipeline.py:309).
CallsUnderWayBounded ==
  LET underWay == {id \in Calls : call[id].at \in Running}
  IN  underWay # {} => (Cardinality(underWay) - 1) * Interval <= Timeout + Lag

\* The limiter keeps the minimum interval between the calls it lets through
\* and lets each through once, however they arrive (rate_limit.py:11).
Passed == {id \in Calls : call[id].at \in Running \cup Ended}
Pacing == INSTANCE RequestPacing WITH Requests <- Calls, passed <- Passed
PacesRequests == Pacing!Spec

\* Every search ends, whatever the marketplace answers or leaves unanswered.
EverySearchEnds ==
  \A c \in Collectors : phase[c] = "search" ~> phase[c] \in {"ready", "partial", "unavailable"}

\* docs/architecture.md:39: "Requests use bounded exponential retries and a
\* per-source minimum interval."
Sends(id) == call'[id].at = "sent" /\ call'[id].attempts = call[id].attempts + 1
RequestsSpaced ==
  [][\A id \in Calls : Sends(id) => now >= granted + Interval]_vars
=============================================================================
