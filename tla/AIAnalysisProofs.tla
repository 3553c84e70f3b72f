-------------------------- MODULE AIAnalysisProofs --------------------------
(***************************************************************************)
(* For any numbers of callers, keys and task slots, any gate width and any *)
(* interval: the in-flight table has every running task, calls for cached  *)
(* results do not happen, calls are paced, and the service implements the  *)
(* abstract SingleFlight.                                                  *)
(***************************************************************************)
EXTENDS AIAnalysisService, TLAPS

\* A waiting caller has a task; only finished tasks have callbacks to run.
References ==
  /\ \A c \in Callers : pc[c] = "waiting" => joined[c] \in Tasks
  /\ \A t \in callbacks : Done(t)

\* The rate lock has one holder, which sleeps for the rest of the interval.
Pacing ==
  /\ \A t, u \in Tasks : stage[t] = "pacing" /\ stage[u] = "pacing" => t = u
  /\ \A t \in Tasks : stage[t] = "pacing" => delay[t] = MinInterval - elapsed

Inductive ==
  /\ TypeOK
  /\ References
  /\ RunningTaskInTable
  /\ NoCallForCachedResult
  /\ Pacing

USE DEF callerVars, taskVars

LEMMA InitInductive == Init => Inductive
BY KeysAssumption, IntervalAssumption, NoTaskAssumption
   DEF Init, Inductive, TypeOK, References, RunningTaskInTable,
       NoCallForCachedResult, Pacing, Running, Done, Stages, Answers, Outcomes

LEMMA TypeStep == TypeOK /\ References /\ [Next]_vars => TypeOK'
<1> SUFFICES ASSUME TypeOK, References, [Next]_vars PROVE TypeOK'
  OBVIOUS
<1> USE NoTaskAssumption, IntervalAssumption
        DEF TypeOK, References, Outcomes, Stages, Answers
<1>1. ASSUME NEW c \in Callers, Call(c) PROVE TypeOK'
  <2>1. CASE AnswerDisabled(c)
    BY <2>1 DEF AnswerDisabled, Reply
  <2>2. ASSUME NEW k \in Keys, AnswerFromCache(c, k) PROVE TypeOK'
    BY <2>2 DEF AnswerFromCache, Reply
  <2>3. ASSUME NEW k \in Keys, JoinTask(c, k) PROVE TypeOK'
    BY <2>3 DEF JoinTask, WaitFor
  <2>4. ASSUME NEW k \in Keys, NEW t \in Tasks, CreateTask(c, k, t) PROVE TypeOK'
    BY <2>4 DEF CreateTask, WaitFor
  <2>5. QED
    BY <1>1, <2>1, <2>2, <2>3, <2>4 DEF Call
<1>2. ASSUME NEW c \in Callers, Resume(c) \/ Cancel(c) PROVE TypeOK'
  <2>1. joined[c] \in Tasks
    BY <1>2 DEF Resume, Cancel
  <2>2. outcome[joined[c]] \in Outcomes /\ EnvelopeStatus[outcome[joined[c]]] \in Answers
    BY <2>1 DEF EnvelopeStatus
  <2>3. CASE Resume(c)
    BY <2>1, <2>2, <2>3 DEF Resume, Reply, DropFinished
  <2>4. CASE Cancel(c)
    BY <2>1, <2>4 DEF Cancel, Reply, DropFinished
  <2>5. QED
    BY <1>2, <2>3, <2>4
<1>3. ASSUME NEW t \in Tasks, Work(t) PROVE TypeOK'
  <2>1. CASE EnterGate(t)
    BY <2>1 DEF EnterGate
  <2>2. CASE Pace(t)
    BY <2>2 DEF Pace
  <2>3. CASE CallProvider(t)
    BY <2>3 DEF CallProvider
  <2>4. ASSUME NEW o \in Outcomes, Finish(t, o) PROVE TypeOK'
    BY <2>4 DEF Finish
  <2>5. QED
    BY <1>3, <2>1, <2>2, <2>3, <2>4 DEF Work
<1>4. ASSUME NEW t \in Tasks, RunCallback(t) PROVE TypeOK'
  BY <1>4 DEF RunCallback
<1>5. ASSUME NEW k \in Keys, Evict(k) PROVE TypeOK'
  BY <1>5 DEF Evict
<1>6. CASE Tick
  BY <1>6 DEF Tick
<1>7. CASE UNCHANGED vars
  BY <1>7 DEF vars
<1>8. QED
  BY <1>1, <1>2, <1>3, <1>4, <1>5, <1>6, <1>7 DEF Next

(* The done callback and the finally clause remove finished tasks only, so *)
(* a running task stays in the table; a new one is made only for a key     *)
(* that has neither a table entry nor a cached result.                     *)
LEMMA TableStep ==
  Inductive /\ [Next]_vars =>
    /\ References'
    /\ RunningTaskInTable'
    /\ NoCallForCachedResult'
<1> DEFINE Goal == References' /\ RunningTaskInTable' /\ NoCallForCachedResult'
<1> SUFFICES ASSUME Inductive, [Next]_vars PROVE Goal
  OBVIOUS
<1> USE NoTaskAssumption
        DEF Inductive, References, RunningTaskInTable, NoCallForCachedResult
<1>0. /\ inflight \in [Keys -> Tasks \cup {NoTask}]
      /\ stage \in [Tasks -> Stages]
      /\ key \in [Tasks -> Keys]
      /\ pc \in [Callers -> {"idle", "waiting"}]
      /\ joined \in [Callers -> Tasks \cup {NoTask}]
      /\ callbacks \in SUBSET Tasks
  BY DEF TypeOK
<1>1. ASSUME NEW c \in Callers, Call(c) PROVE Goal
  <2>1. CASE AnswerDisabled(c)
    BY <1>0, <2>1 DEF AnswerDisabled, Reply, Running, Done
  <2>2. ASSUME NEW k \in Keys, AnswerFromCache(c, k) PROVE Goal
    BY <1>0, <2>2 DEF AnswerFromCache, Reply, Running, Done
  <2>3. ASSUME NEW k \in Keys, JoinTask(c, k) PROVE Goal
    BY <1>0, <2>3 DEF JoinTask, WaitFor, Running, Done
  <2>4. ASSUME NEW k \in Keys, NEW t \in Tasks, CreateTask(c, k, t) PROVE Goal
    BY <1>0, <2>4 DEF CreateTask, WaitFor, Unreferenced, Running, Done
  <2>5. QED
    BY <1>1, <2>1, <2>2, <2>3, <2>4 DEF Call
<1>2. ASSUME NEW c \in Callers, Resume(c) PROVE Goal
  BY <1>0, <1>2 DEF Resume, Reply, DropFinished, Running, Done
<1>3. ASSUME NEW c \in Callers, Cancel(c) PROVE Goal
  BY <1>0, <1>3 DEF Cancel, Reply, DropFinished, Running, Done
<1>4. ASSUME NEW t \in Tasks, Work(t) PROVE Goal
  <2>1. CASE EnterGate(t)
    BY <1>0, <2>1 DEF EnterGate, Running, Done
  <2>2. CASE Pace(t)
    BY <1>0, <2>2 DEF Pace, Running, Done
  <2>3. CASE CallProvider(t)
    BY <1>0, <2>3 DEF CallProvider, Running, Done
  <2>4. ASSUME NEW o \in Outcomes, Finish(t, o) PROVE Goal
    BY <1>0, <2>4 DEF Finish, Running, Done
  <2>5. QED
    BY <1>4, <2>1, <2>2, <2>3, <2>4 DEF Work
<1>5. ASSUME NEW t \in Tasks, RunCallback(t) PROVE Goal
  BY <1>0, <1>5 DEF RunCallback, Running, Done
<1>6. ASSUME NEW k \in Keys, Evict(k) PROVE Goal
  BY <1>0, <1>6 DEF Evict, Running, Done
<1>7. CASE Tick
  BY <1>0, <1>7 DEF Tick, Running, Done
<1>8. CASE UNCHANGED vars
  BY <1>0, <1>8 DEF vars, Running, Done
<1>9. QED
  BY <1>1, <1>2, <1>3, <1>4, <1>5, <1>6, <1>7, <1>8 DEF Next

(* Only the holder of the rate lock sleeps, nobody calls the provider      *)
(* meanwhile, and its sleep shrinks as the elapsed time grows.             *)
LEMMA PacingStep == TypeOK /\ Pacing /\ [Next]_vars => Pacing'
<1> SUFFICES ASSUME TypeOK, Pacing, [Next]_vars PROVE Pacing'
  OBVIOUS
<1> USE IntervalAssumption DEF Pacing
<1>0. /\ stage \in [Tasks -> Stages]
      /\ delay \in [Tasks -> 0 .. MinInterval]
      /\ elapsed \in 0 .. MinInterval
  BY DEF TypeOK
<1>1. ASSUME NEW c \in Callers, Call(c) PROVE Pacing'
  BY <1>0, <1>1 DEF Call, AnswerDisabled, AnswerFromCache, JoinTask, CreateTask
<1>2. ASSUME NEW c \in Callers, Resume(c) \/ Cancel(c) PROVE Pacing'
  BY <1>0, <1>2 DEF Resume, Cancel
<1>3. ASSUME NEW t \in Tasks, Work(t) PROVE Pacing'
  <2>1. CASE EnterGate(t)
    BY <1>0, <2>1 DEF EnterGate
  <2>2. CASE Pace(t)
    BY <1>0, <2>2 DEF Pace, RateLocked
  <2>3. CASE CallProvider(t)
    BY <1>0, <2>3 DEF CallProvider
  <2>4. ASSUME NEW o \in Outcomes, Finish(t, o) PROVE Pacing'
    BY <1>0, <2>4 DEF Finish
  <2>5. QED
    BY <1>3, <2>1, <2>2, <2>3, <2>4 DEF Work
<1>4. ASSUME NEW t \in Tasks, RunCallback(t) PROVE Pacing'
  BY <1>0, <1>4 DEF RunCallback
<1>5. ASSUME NEW k \in Keys, Evict(k) PROVE Pacing'
  BY <1>0, <1>5 DEF Evict
<1>6. CASE Tick
  BY <1>0, <1>6 DEF Tick
<1>7. CASE UNCHANGED vars
  BY <1>0, <1>7 DEF vars
<1>8. QED
  BY <1>1, <1>2, <1>3, <1>4, <1>5, <1>6, <1>7 DEF Next

LEMMA InductiveStep == Inductive /\ [Next]_vars => Inductive'
BY TypeStep, TableStep, PacingStep DEF Inductive

LEMMA InductiveInvariant == Spec => []Inductive
BY InitInductive, InductiveStep, PTL DEF Spec

(* Type correctness of the service (ai/service.py:31-239).                 *)
THEOREM TypeCorrect == Spec => []TypeOK
<1>1. Inductive => TypeOK
  BY DEF Inductive
<1>2. QED
  BY <1>1, InductiveInvariant, PTL

(* Every running task is the table's entry for its key, so there is at     *)
(* most one provider call per key at a time (ai/service.py:186-201).       *)
THEOREM RunningTasksAreInTable == Spec => []RunningTaskInTable
<1>1. Inductive => RunningTaskInTable
  BY DEF Inductive
<1>2. QED
  BY <1>1, InductiveInvariant, PTL

(* No call is made for a result that is cached (ai/service.py:80-85).      *)
THEOREM CachedResultsAreNotRequested == Spec => []NoCallForCachedResult
<1>1. Inductive => NoCallForCachedResult
  BY DEF Inductive
<1>2. QED
  BY <1>1, InductiveInvariant, PTL

(* Provider calls start at least the minimum interval apart, because the   *)
(* rate lock is kept during the sleep (ai/service.py:216-222).             *)
THEOREM CallsArePaced == Spec => CallsPaced
<1> DEFINE Paced == \A t \in Tasks :
             stage[t] = "pacing" /\ stage'[t] = "calling" => elapsed = MinInterval
<1>1. Inductive /\ [Next]_vars => [Paced]_vars
  <2> SUFFICES ASSUME Inductive, Next, NEW t \in Tasks,
                      stage[t] = "pacing", stage'[t] = "calling"
               PROVE  elapsed = MinInterval
    OBVIOUS
  <2>0. /\ stage \in [Tasks -> Stages]
        /\ elapsed \in 0 .. MinInterval
        /\ delay[t] = MinInterval - elapsed
    BY DEF Inductive, TypeOK, Pacing
  <2>1. CallProvider(t)
    BY <2>0 DEF Next, Call, Work, AnswerDisabled, AnswerFromCache, JoinTask,
       CreateTask, Resume, Cancel, EnterGate, Pace, CallProvider, Finish,
       RunCallback, Evict, Tick
  <2>2. QED
    BY <2>0, <2>1, IntervalAssumption DEF CallProvider
<1>2. QED
  BY <1>1, InductiveInvariant, PTL DEF Spec, CallsPaced

-----------------------------------------------------------------------------
(* Refinement: the keys of running tasks are the calls in flight.          *)

flying == {key[t] : t \in {u \in Tasks : Running(u)}}
abstract == <<flying, cache>>

LEMMA InitRefines == Init => Flight!Init
BY DEF Init, Flight!Init, Running

\* A step that changes no running task, no key of one and no cached result.
LEMMA Stutter ==
  ASSUME UNCHANGED cache,
         \A t \in Tasks : Running(t)' <=> Running(t),
         \A t \in Tasks : Running(t) => key'[t] = key[t]
  PROVE  UNCHANGED abstract
BY DEF abstract, flying

LEMMA StepRefines == Inductive /\ [Next]_vars => [Flight!Next]_abstract
<1> SUFFICES ASSUME Inductive, [Next]_vars PROVE [Flight!Next]_abstract
  OBVIOUS
<1> USE NoTaskAssumption
<1>0. /\ inflight \in [Keys -> Tasks \cup {NoTask}]
      /\ stage \in [Tasks -> Stages]
      /\ key \in [Tasks -> Keys]
      /\ RunningTaskInTable /\ NoCallForCachedResult
  BY DEF Inductive, TypeOK
<1>1. ASSUME NEW c \in Callers, NEW k \in Keys, NEW t \in Tasks, CreateTask(c, k, t)
      PROVE  Flight!Launch(k)
  <2>1. k \notin flying
    BY <1>0, <1>1 DEF CreateTask, RunningTaskInTable, flying
  <2>2. flying' = flying \cup {k}
    BY <1>0, <1>1 DEF CreateTask, Unreferenced, Running, flying
  <2>3. QED
    BY <1>1, <2>1, <2>2 DEF CreateTask, Flight!Launch, flying
<1>2. ASSUME NEW t \in Tasks, NEW o \in Outcomes, Finish(t, o),
             NEW k \in Keys, k = key[t]
      PROVE  Flight!Land(k) \/ Flight!Crash(k)
  <2>1. k \in flying
    BY <1>2 DEF Finish, Running, flying
  <2>2. ASSUME NEW u \in Tasks, Running(u), u # t PROVE key[u] # k
    BY <1>0, <1>2, <2>2 DEF Finish, Running, RunningTaskInTable
  <2>3. \A u \in Tasks : Running(u)' <=> Running(u) /\ u # t
    BY <1>0, <1>2 DEF Finish, Running
  <2>4. flying' = flying \ {k}
    BY <1>2, <2>2, <2>3 DEF Finish, flying
  <2>5. QED
    BY <1>2, <2>1, <2>4 DEF Finish, Flight!Land, Flight!Crash, flying
<1>3. ASSUME NEW k \in Keys, Evict(k) PROVE Flight!Forget(k)
  <2>1. UNCHANGED flying
    BY <1>3 DEF Evict, flying, Running
  <2>2. QED
    BY <1>3, <2>1 DEF Evict, Flight!Forget, flying
<1>4. ASSUME \/ \E c \in Callers : \/ AnswerDisabled(c) \/ Resume(c) \/ Cancel(c)
                                   \/ \E k \in Keys : AnswerFromCache(c, k) \/ JoinTask(c, k)
             \/ \E t \in Tasks : EnterGate(t) \/ Pace(t) \/ CallProvider(t) \/ RunCallback(t)
             \/ Tick
             \/ UNCHANGED vars
      PROVE  UNCHANGED abstract
  <2>1. UNCHANGED cache /\ UNCHANGED key
    BY <1>4 DEF AnswerDisabled, Resume, Cancel, AnswerFromCache, JoinTask,
       EnterGate, Pace, CallProvider, RunCallback, Tick, vars
  <2>2. \A t \in Tasks : Running(t)' <=> Running(t)
    BY <1>0, <1>4 DEF AnswerDisabled, Resume, Cancel, AnswerFromCache, JoinTask,
       EnterGate, Pace, CallProvider, RunCallback, Tick, vars, Running
  <2>3. QED
    BY <2>1, <2>2, Stutter
<1>5. CASE \E c \in Callers, k \in Keys, t \in Tasks : CreateTask(c, k, t)
  BY <1>1, <1>5 DEF Flight!Next
<1>6. CASE \E t \in Tasks, o \in Outcomes : Finish(t, o)
  <2>1. PICK t \in Tasks, o \in Outcomes : Finish(t, o)
    BY <1>6
  <2>2. PICK k \in Keys : k = key[t]
    BY <1>0
  <2>3. QED
    BY <1>2, <2>1, <2>2 DEF Flight!Next
<1>7. CASE \E k \in Keys : Evict(k)
  BY <1>3, <1>7 DEF Flight!Next
<1>8. QED
  BY <1>4, <1>5, <1>6, <1>7 DEF Next, Call, Work

(* The service implements the abstract single flight: no call while one is *)
(* running or its result is stored, and only valid answers are stored      *)
(* (ai/service.py:80-85, 181-214).                                         *)
THEOREM Implements == Spec => FlightSpec
<1>1. [Flight!Next]_abstract => [Flight!Next]_<<flying, cache>>
  BY DEF abstract
<1>2. QED
  BY InitRefines, StepRefines, InductiveInvariant, <1>1, PTL
     DEF Spec, FlightSpec, Flight!Spec, flying
=============================================================================
