-------------------------- MODULE AIAnalysisService --------------------------
(***************************************************************************)
(* AIAnalysisService.analyze_snapshot and the tasks it starts: the result  *)
(* cache, the table of in-flight tasks with its done callbacks, the        *)
(* request gate and the pacing of provider calls.                          *)
(*                                                                         *)
(* Callers are request handlers, which may be cancelled; tasks are the     *)
(* asyncio tasks of _run_and_cache, a slot of Tasks being used again once  *)
(* nothing refers to the task any more.  The in-flight lock is never held  *)
(* across an await and the in-memory result cache never suspends, so the   *)
(* cache lookup and the lookup or creation of the task are one step.       *)
(*                                                                         *)
(* Time is relative: elapsed is the time since the last provider request,  *)
(* no longer counted once it reaches the minimum interval.                 *)
(***************************************************************************)
EXTENDS Integers, FiniteSets

CONSTANTS Callers,         \* concurrent calls of analyze_snapshot
          Keys,            \* cache keys: dataset hash, prompt and model
          Tasks,           \* slots for tasks of _run_and_cache
          NoTask,
          MaxConcurrency,  \* max_concurrency
          MinInterval      \* min_interval_seconds

ASSUME NoTaskAssumption == NoTask \notin Tasks
ASSUME TasksAssumption == IsFiniteSet(Tasks)
ASSUME GateAssumption == MaxConcurrency \in Nat \ {0}
ASSUME IntervalAssumption == MinInterval \in Nat
ASSUME KeysAssumption == Keys # {}

VARIABLES enabled,   \* the client has an API key
          pc,        \* caller -> idle or waiting for its task
          joined,    \* caller -> the task it waits for
          answer,    \* caller -> status of its last envelope
          cache,     \* keys with a cached result
          inflight,  \* key -> its entry in the in-flight table
          stage,     \* task -> how far it is
          key,       \* task -> the key it was started for
          outcome,   \* task -> how it ended
          callbacks, \* finished tasks whose done callback has not run yet
          elapsed,   \* time since the last provider request
          delay      \* task -> what is left of its pacing sleep

callerVars == <<pc, joined, answer>>
taskVars == <<stage, key, outcome>>
vars == <<enabled, callerVars, cache, inflight, taskVars, callbacks, elapsed, delay>>
-----------------------------------------------------------------------------
Outcomes == {"valid", "invalid", "failed"}
Stages == {"unused", "queued", "gated", "pacing", "calling", "done"}

\* Mutant: an invalid answer keeps its exception's name as the status.
EnvelopeStatusUnmapped ==
  [valid |-> "completed", invalid |-> "invalid", failed |-> "failed"]

\* The status of the envelope for a task that ended this way.
EnvelopeStatus ==
  [valid |-> "completed", invalid |-> "invalid_response", failed |-> "failed"]

Answers == {"not_requested", "disabled", "cached", "completed",
            "invalid_response", "failed", "cancelled"}

TypeOK ==
  /\ enabled \in BOOLEAN
  /\ pc \in [Callers -> {"idle", "waiting"}]
  /\ joined \in [Callers -> Tasks \cup {NoTask}]
  /\ answer \in [Callers -> Answers]
  /\ cache \in SUBSET Keys
  /\ inflight \in [Keys -> Tasks \cup {NoTask}]
  /\ stage \in [Tasks -> Stages]
  /\ key \in [Tasks -> Keys]
  /\ outcome \in [Tasks -> Outcomes]
  /\ callbacks \in SUBSET Tasks
  /\ elapsed \in 0 .. MinInterval
  /\ delay \in [Tasks -> 0 .. MinInterval]

Init ==
  /\ enabled \in BOOLEAN
  /\ pc = [c \in Callers |-> "idle"]
  /\ joined = [c \in Callers |-> NoTask]
  /\ answer = [c \in Callers |-> "not_requested"]
  /\ cache = {}
  /\ inflight = [k \in Keys |-> NoTask]
  /\ stage = [t \in Tasks |-> "unused"]
  /\ key = [t \in Tasks |-> CHOOSE k \in Keys : TRUE]
  /\ outcome = [t \in Tasks |-> "failed"]
  /\ callbacks = {}
  /\ elapsed \in 0 .. MinInterval
  /\ delay = [t \in Tasks |-> 0]

Running(t) == stage[t] \in {"queued", "gated", "pacing", "calling"}
Done(t) == stage[t] = "done"

\* Nothing refers to the task: its slot may stand for a new one.
Unreferenced(t) ==
  /\ ~Running(t)
  /\ t \notin callbacks
  /\ \A c \in Callers : joined[c] # t
  /\ \A k \in Keys : inflight[k] # t
-----------------------------------------------------------------------------
(* Callers: analyze_snapshot and _coalesced_analysis. *)

Reply(c, status) ==
  /\ pc' = [pc EXCEPT ![c] = "idle"]
  /\ joined' = [joined EXCEPT ![c] = NoTask]
  /\ answer' = [answer EXCEPT ![c] = status]

AnswerDisabled(c) ==
  /\ pc[c] = "idle"
  /\ ~enabled
  /\ Reply(c, "disabled")
  /\ UNCHANGED <<enabled, cache, inflight, taskVars, callbacks, elapsed, delay>>

AnswerFromCache(c, k) ==
  /\ pc[c] = "idle"
  /\ enabled
  /\ k \in cache
  /\ Reply(c, "cached")
  /\ UNCHANGED <<enabled, cache, inflight, taskVars, callbacks, elapsed, delay>>

WaitFor(c, t) ==
  /\ pc' = [pc EXCEPT ![c] = "waiting"]
  /\ joined' = [joined EXCEPT ![c] = t]
  /\ answer' = [answer EXCEPT ![c] = "not_requested"]

(* The table has a task for the key.  It may be done already: its callback *)
(* has not run yet, and the caller gets its outcome.                       *)
JoinTask(c, k) ==
  /\ pc[c] = "idle"
  /\ enabled
  /\ k \notin cache
  /\ inflight[k] # NoTask
  /\ WaitFor(c, inflight[k])
  /\ UNCHANGED <<enabled, cache, inflight, taskVars, callbacks, elapsed, delay>>

\* Mutant: the cache is not looked up before a task is created.
CreateTaskUncached(c, k, t) ==
  /\ pc[c] = "idle"
  /\ enabled
  /\ inflight[k] = NoTask
  /\ Unreferenced(t)
  /\ inflight' = [inflight EXCEPT ![k] = t]
  /\ stage' = [stage EXCEPT ![t] = "queued"]
  /\ key' = [key EXCEPT ![t] = k]
  /\ WaitFor(c, t)
  /\ UNCHANGED <<enabled, cache, outcome, callbacks, elapsed, delay>>

CreateTask(c, k, t) ==
  /\ pc[c] = "idle"
  /\ enabled
  /\ k \notin cache
  /\ inflight[k] = NoTask
  /\ Unreferenced(t)
  /\ inflight' = [inflight EXCEPT ![k] = t]
  /\ stage' = [stage EXCEPT ![t] = "queued"]
  /\ key' = [key EXCEPT ![t] = k]
  /\ WaitFor(c, t)
  /\ UNCHANGED <<enabled, cache, outcome, callbacks, elapsed, delay>>

\* Mutant: a caller that stops waiting drops the task though it still runs.
DropUnfinished(t) ==
  inflight' = IF inflight[key[t]] = t
                THEN [inflight EXCEPT ![key[t]] = NoTask]
                ELSE inflight

\* The finally clause: drop the table's entry if it is this task, finished.
DropFinished(t) ==
  inflight' = IF inflight[key[t]] = t /\ Done(t)
                THEN [inflight EXCEPT ![key[t]] = NoTask]
                ELSE inflight

Resume(c) ==
  /\ pc[c] = "waiting"
  /\ Done(joined[c])
  /\ Reply(c, EnvelopeStatus[outcome[joined[c]]])
  /\ DropFinished(joined[c])
  /\ UNCHANGED <<enabled, cache, taskVars, callbacks, elapsed, delay>>

\* The handler is cancelled while it waits; shield keeps the task running.
Cancel(c) ==
  /\ pc[c] = "waiting"
  /\ Reply(c, "cancelled")
  /\ DropFinished(joined[c])
  /\ UNCHANGED <<enabled, cache, taskVars, callbacks, elapsed, delay>>
-----------------------------------------------------------------------------
(* Tasks: _run_and_cache. *)

\* Mutant: a call that fails keeps its slot.
InGateAfterFailure ==
  {t \in Tasks : \/ stage[t] \in {"gated", "pacing", "calling"}
                 \/ Done(t) /\ outcome[t] = "failed"}

\* Tasks that hold a slot of the request gate.
InGate == {t \in Tasks : stage[t] \in {"gated", "pacing", "calling"}}

\* Mutant: the rate lock is not held during the sleep.
RateUnlocked == {}

\* Tasks that hold the rate lock: it is kept during the sleep.
RateLocked == {t \in Tasks : stage[t] = "pacing"}

EnterGate(t) ==
  /\ stage[t] = "queued"
  /\ Cardinality(InGate) < MaxConcurrency
  /\ stage' = [stage EXCEPT ![t] = "gated"]
  /\ UNCHANGED <<enabled, callerVars, cache, inflight, key, outcome,
                 callbacks, elapsed, delay>>

\* Take the rate lock and compute the sleep from the last request.
Pace(t) ==
  /\ stage[t] = "gated"
  /\ RateLocked = {}
  /\ stage' = [stage EXCEPT ![t] = "pacing"]
  /\ delay' = [delay EXCEPT ![t] = MinInterval - elapsed]
  /\ UNCHANGED <<enabled, callerVars, cache, inflight, key, outcome,
                 callbacks, elapsed>>

\* The sleep is over: note the time, release the lock, call the provider.
CallProvider(t) ==
  /\ stage[t] = "pacing"
  /\ delay[t] = 0
  /\ stage' = [stage EXCEPT ![t] = "calling"]
  /\ elapsed' = 0
  /\ UNCHANGED <<enabled, callerVars, cache, inflight, key, outcome,
                 callbacks, delay>>

(* The provider has answered or failed.  The gate is left, the references  *)
(* are validated, a valid result is cached, and the task ends; its done    *)
(* callback is scheduled.                                                  *)
Finish(t, o) ==
  /\ stage[t] = "calling"
  /\ stage' = [stage EXCEPT ![t] = "done"]
  /\ outcome' = [outcome EXCEPT ![t] = o]
  /\ cache' = IF o = "valid" THEN cache \cup {key[t]} ELSE cache
  /\ callbacks' = callbacks \cup {t}
  /\ UNCHANGED <<enabled, callerVars, inflight, key, elapsed, delay>>

\* Mutant: the callback removes whatever task the table has for the key.
RunCallbackOnAny(t) ==
  /\ t \in callbacks
  /\ callbacks' = callbacks \ {t}
  /\ inflight' = [inflight EXCEPT ![key[t]] = NoTask]
  /\ UNCHANGED <<enabled, callerVars, cache, taskVars, elapsed, delay>>

\* Mutant: no callback is registered, only callers clear the table.
RunNoCallback(t) ==
  /\ t \in callbacks
  /\ callbacks' = callbacks \ {t}
  /\ UNCHANGED <<enabled, callerVars, cache, inflight, taskVars, elapsed, delay>>

\* The done callback removes the table's entry only if it is this task.
RunCallback(t) ==
  /\ t \in callbacks
  /\ callbacks' = callbacks \ {t}
  /\ inflight' = IF inflight[key[t]] = t
                   THEN [inflight EXCEPT ![key[t]] = NoTask]
                   ELSE inflight
  /\ UNCHANGED <<enabled, callerVars, cache, taskVars, elapsed, delay>>
-----------------------------------------------------------------------------
\* A result expires, or a newer one pushes it out of the bounded cache.
Evict(k) ==
  /\ k \in cache
  /\ cache' = cache \ {k}
  /\ UNCHANGED <<enabled, callerVars, inflight, taskVars, callbacks, elapsed, delay>>

Tick ==
  /\ elapsed < MinInterval \/ \E t \in Tasks : delay[t] > 0
  /\ elapsed' = IF elapsed < MinInterval THEN elapsed + 1 ELSE elapsed
  /\ delay' = [t \in Tasks |-> IF delay[t] > 0 THEN delay[t] - 1 ELSE 0]
  /\ UNCHANGED <<enabled, callerVars, cache, inflight, taskVars, callbacks>>

Call(c) ==
  \/ AnswerDisabled(c)
  \/ \E k \in Keys : AnswerFromCache(c, k) \/ JoinTask(c, k)
  \/ \E k \in Keys, t \in Tasks : CreateTask(c, k, t)

Work(t) ==
  \/ EnterGate(t)
  \/ Pace(t)
  \/ CallProvider(t)
  \/ \E o \in Outcomes : Finish(t, o)

Next ==
  \/ \E c \in Callers : Call(c) \/ Resume(c) \/ Cancel(c)
  \/ \E t \in Tasks : Work(t) \/ RunCallback(t)
  \/ \E k \in Keys : Evict(k)
  \/ Tick

Spec == Init /\ [][Next]_vars

(* The event loop runs what is ready, the provider call has a timeout, and *)
(* the gate and the rate lock are handed out first come, first served.     *)
FairSpec ==
  /\ Spec
  /\ WF_vars(Tick)
  /\ \A c \in Callers : WF_vars(Resume(c))
  /\ \A t \in Tasks : SF_vars(Work(t)) /\ WF_vars(RunCallback(t))
-----------------------------------------------------------------------------
(* Properties. *)

(* A task that is not done is the table's entry for its key.  So a key is  *)
(* never sent to the provider twice at a time, whatever joins, resumes,    *)
(* cancels or calls back in between (ai/service.py:186-201).               *)
RunningTaskInTable == \A t \in Tasks : Running(t) => inflight[key[t]] = t

(* No provider call is under way for a dataset whose result is cached: a   *)
(* caller never pays for a result the service already has (80-85).         *)
NoCallForCachedResult == \A t \in Tasks : Running(t) => key[t] \notin cache

(* Provider calls start at least the minimum interval apart, also when     *)
(* several tasks pass the gate together (216-222).                         *)
CallsPaced ==
  [][\A t \in Tasks :
       stage[t] = "pacing" /\ stage'[t] = "calling" => elapsed = MinInterval]_vars

(* The table keeps no task for ever: the entry of a finished task goes     *)
(* away, so its outcome is not replayed to later callers (191-201).        *)
FinishedTaskLeavesTable ==
  \A k \in Keys, t \in Tasks : inflight[k] = t /\ Done(t) ~> inflight[k] # t

(* Every waiting caller is answered or cancelled itself; the failure of a  *)
(* call or the cancellation of another caller leaves nobody behind.        *)
EveryCallerAnswered == \A c \in Callers : pc[c] = "waiting" ~> pc[c] = "idle"

(* The abstract promise, with the running tasks as the calls in flight.    *)
Flight == INSTANCE SingleFlight
            WITH flying <- {key[t] : t \in {u \in Tasks : Running(u)}},
                 stored <- cache
FlightSpec == Flight!Spec
=============================================================================
