------------------------- MODULE SourceRequestsProofs -------------------------
(***************************************************************************)
(* For any numbers of searches and details, any interval, timeout, retry   *)
(* policy and lateness of the timers: types are kept, the limiter          *)
(* implements RequestPacing, calls wait only so long for it and only so    *)
(* many are under way, and retries back off.                               *)
(***************************************************************************)
EXTENDS SourceRequests, SelectionLemmas, TLAPS

\* The lock: its holder is the one call that sleeps in it, until the next time
\* that is allowed; its waiters are the queued calls, each once.
LockSound ==
  /\ \A id \in Calls : call[id].at = "pausing" <=> holder = id
  /\ holder # Nobody => call[holder].due = nextAllowed
  /\ \A i \in DOMAIN queue : call[queue[i]].at = "queued"
  /\ \A i, j \in DOMAIN queue : queue[i] = queue[j] => i = j
  /\ Interval = 0 => holder = Nobody /\ queue = <<>>

\* The clocks: the next time is one interval after the last grant.
ClocksSound ==
  /\ granted <= now
  /\ Interval # 0 => nextAllowed = granted + Interval

\* The order of a collector: its details come after its search.
OrderSound ==
  \A c \in Collectors :
    /\ phase[c] = "idle" => call[<<c, 0>>].at = "none"
    /\ call[<<c, 0>>].at \notin Ended => \A k \in 1 .. MaxDetails : call[<<c, k>>].at = "none"

\* Only a call that may try again sleeps before a retry.
RetriesSound == \A id \in Calls : call[id].at = "backoff" => call[id].attempts < MaxAttempts

Inductive == TypeOK /\ RetriesSound /\ LockSound /\ ClocksSound /\ OrderSound

USE RequestsAssumption

LEMMA NoCallIsCall ==
  /\ NoCall \in CallRecord
  /\ \A s \in Steps : [NoCall EXCEPT !.at = s] \in CallRecord
BY DEF NoCall, CallRecord, Steps

LEMMA SearchIsCall == \A c \in Collectors : <<c, 0>> \in Calls
BY DEF Calls

LEMMA NobodyIsNoCall == Nobody \notin Calls
BY DEF Calls

LEMMA DelayType == \A n \in Nat : Delay(n) \in Int
<1> SUFFICES ASSUME NEW n \in Nat PROVE Delay(n) \in Int
  OBVIOUS
<1>1. 2^n \in Int
  BY SMT
<1>2. BaseDelay * 2^n \in Int
  BY <1>1
<1>3. QED
  BY <1>2 DEF Delay, Min

LEMMA InitInductive == Init => Inductive
BY NoCallIsCall
   DEF Init, Inductive, TypeOK, RetriesSound, LockSound, ClocksSound, OrderSound,
       NoCall, Phases, Calls, Ended

\* A call that is let through.
LEMMA GrantedType ==
  ASSUME TypeOK, NEW id \in Calls, Granted(id)
  PROVE  /\ call' \in [Calls -> CallRecord]
         /\ granted' = now
         /\ call'[id].at \in {"sent", "failed"}
         /\ \A other \in Calls \ {id} : call'[other] = call[other]
         /\ call'[id].at = "sent" => call'[id].deadline = now + Timeout
<1>1. CASE call' = [call EXCEPT ![id] =
             [NoCall EXCEPT !.at = "sent", !.attempts = 1, !.deadline = now + Timeout]]
  <2>1. [NoCall EXCEPT !.at = "sent", !.attempts = 1, !.deadline = now + Timeout] \in CallRecord
    <3>1. now + Timeout \in Nat /\ 1 \in 0 .. MaxAttempts
      BY DEF TypeOK
    <3>2. "sent" \in Steps
      BY DEF Steps, Running
    <3>3. QED
      BY <3>1, <3>2, NoCallIsCall DEF CallRecord
  <2>2. QED
    BY <1>1, <2>1 DEF TypeOK, Granted, NoCall
<1>2. CASE id[2] # 0 /\ call' = [call EXCEPT ![id] = [NoCall EXCEPT !.at = "failed"]]
  <2>1. [NoCall EXCEPT !.at = "failed"] \in CallRecord
    BY NoCallIsCall DEF Steps, Ended
  <2>2. QED
    BY <1>2, <2>1 DEF TypeOK, Granted, NoCall
<1>3. QED
  BY <1>1, <1>2 DEF Granted

LEMMA PauseType ==
  ASSUME TypeOK, NEW id \in Calls, NEW asked \in CallRecord, NEW t \in Int,
         call' = [call EXCEPT ![id] = [asked EXCEPT !.at = "pausing", !.due = t]]
  PROVE  /\ call' \in [Calls -> CallRecord]
         /\ call'[id].at = "pausing" /\ call'[id].due = t
         /\ call'[id].arrived = asked.arrived /\ call'[id].ahead = asked.ahead
         /\ \A other \in Calls \ {id} : call'[other] = call[other]
<1>1. [asked EXCEPT !.at = "pausing", !.due = t] \in CallRecord
  BY DEF CallRecord, Steps, Waiting
<1>2. QED
  BY <1>1 DEF TypeOK, CallRecord

-----------------------------------------------------------------------------
(* Types *)

LEMMA EnterLockType ==
  ASSUME TypeOK, NEW id \in Calls, NEW asked \in CallRecord, EnterLock(id, asked)
  PROVE  /\ call' \in [Calls -> CallRecord]
         /\ nextAllowed' \in Nat /\ granted' \in Int /\ holder' \in Calls \cup {Nobody}
         /\ call'[id].at \in {"sent", "failed", "pausing"}
         /\ \A other \in Calls \ {id} : call'[other] = call[other]
<1>1. CASE now >= nextAllowed /\ Granted(id) /\ nextAllowed' = now + Interval /\ holder' = Nobody
  <2>1. /\ call' \in [Calls -> CallRecord] /\ granted' = now
        /\ call'[id].at \in {"sent", "failed"}
        /\ \A other \in Calls \ {id} : call'[other] = call[other]
    BY <1>1, GrantedType
  <2>2. QED
    BY <1>1, <2>1 DEF TypeOK
<1>2. CASE /\ now < nextAllowed
           /\ call' = [call EXCEPT ![id] = [asked EXCEPT !.at = "pausing", !.due = nextAllowed]]
           /\ holder' = id
           /\ UNCHANGED <<nextAllowed, granted>>
  <2>1. nextAllowed \in Int
    BY DEF TypeOK
  <2>2. /\ call' \in [Calls -> CallRecord]
        /\ call'[id].at = "pausing"
        /\ \A other \in Calls \ {id} : call'[other] = call[other]
    BY <1>2, <2>1, PauseType
  <2>3. QED
    BY <1>2, <2>2 DEF TypeOK
<1>3. QED
  BY <1>1, <1>2 DEF EnterLock

\* What a call is when it has asked the limiter.
LEMMA AskedType ==
  ASSUME TypeOK, NEW id \in Calls
  PROVE  /\ Ahead \in Nat
         /\ [call[id] EXCEPT !.arrived = now, !.ahead = Ahead] \in CallRecord
<1>1. Ahead \in Nat
  BY DEF Ahead, TypeOK
<1>2. call[id] \in CallRecord /\ now \in Nat
  BY DEF TypeOK, CallRecord
<1>3. QED
  BY <1>1, <1>2 DEF CallRecord

LEMMA WithDetailsType ==
  ASSUME TypeOK, NEW c \in Collectors, NEW n \in 0 .. MaxDetails
  PROVE  WithDetails(c, n) \in [Calls -> CallRecord]
<1>1. /\ [NoCall EXCEPT !.at = "answered"] \in CallRecord
      /\ [NoCall EXCEPT !.at = "ready"] \in CallRecord
  BY NoCallIsCall DEF Steps, Ended, Waiting
<1>2. call \in [Calls -> CallRecord]
  BY DEF TypeOK
<1>3. QED
  BY <1>1, <1>2 DEF WithDetails

LEMMA FailType ==
  ASSUME TypeOK, NEW id \in Calls
  PROVE  Fail(id) \in [Calls -> CallRecord]
<1>1. [NoCall EXCEPT !.at = "failed"] \in CallRecord
  BY NoCallIsCall DEF Steps, Ended
<1>2. QED
  BY <1>1 DEF Fail, TypeOK, CallRecord

LEMMA SentAgainType ==
  ASSUME NEW r \in CallRecord, NEW n \in 0 .. MaxAttempts
  PROVE  [r EXCEPT !.at = "sent", !.attempts = n, !.due = 0] \in CallRecord
<1>1. [r EXCEPT !.at = "sent"] \in CallRecord
  BY DEF CallRecord, Steps, Running
<1>2. \A q \in CallRecord : [q EXCEPT !.attempts = n] \in CallRecord
  BY DEF CallRecord
<1>3. \A q \in CallRecord : [q EXCEPT !.due = 0] \in CallRecord
  BY DEF CallRecord
<1>4. QED
  BY <1>1, <1>2, <1>3

LEMMA TypeStep == TypeOK /\ RetriesSound /\ [Next]_vars => TypeOK' /\ RetriesSound'
<1> SUFFICES ASSUME TypeOK, RetriesSound, [Next]_vars PROVE TypeOK' /\ RetriesSound'
  OBVIOUS
<1>1. call \in [Calls -> CallRecord] /\ now \in Nat /\ nextAllowed \in Nat
  BY DEF TypeOK
<1>2. ASSUME NEW id \in Calls, CallStep(id) PROVE TypeOK' /\ RetriesSound'
  <2>1. CASE Acquire(id)
    <3> DEFINE asked == [call[id] EXCEPT !.arrived = now, !.ahead = Ahead]
    <3>1. asked \in CallRecord
      BY AskedType
    <3>2. CASE Interval = 0 /\ Granted(id) /\ UNCHANGED <<nextAllowed, holder, queue>>
      <4>1. /\ call' \in [Calls -> CallRecord] /\ granted' = now
            /\ call'[id].at \in {"sent", "failed"}
            /\ \A other \in Calls \ {id} : call'[other] = call[other]
        BY <3>2, GrantedType
      <4>2. TypeOK'
        BY <1>1, <2>1, <3>2, <4>1 DEF Acquire, TypeOK
      <4>3. RetriesSound'
        BY <4>1 DEF RetriesSound
      <4>4. QED
        BY <4>2, <4>3
    <3>3. CASE EnterLock(id, asked) /\ UNCHANGED queue
      <4> HIDE DEF asked
      <4>1. /\ call' \in [Calls -> CallRecord]
            /\ nextAllowed' \in Nat /\ granted' \in Int /\ holder' \in Calls \cup {Nobody}
            /\ call'[id].at # "backoff"
            /\ \A other \in Calls \ {id} : call'[other] = call[other]
        BY <3>1, <3>3, EnterLockType
      <4>2. QED
        BY <2>1, <3>3, <4>1 DEF Acquire, TypeOK, RetriesSound
    <3>4. CASE /\ queue' = Append(queue, id)
               /\ call' = [call EXCEPT ![id] = [asked EXCEPT !.at = "queued"]]
               /\ UNCHANGED <<nextAllowed, holder, granted>>
      <4> HIDE DEF asked
      <4>1. [asked EXCEPT !.at = "queued"] \in CallRecord
        BY <3>1 DEF CallRecord, Steps, Waiting
      <4>2. [asked EXCEPT !.at = "queued"].at # "backoff"
        BY <3>1 DEF CallRecord
      <4>3. QED
        BY <1>1, <2>1, <3>4, <4>1, <4>2 DEF Acquire, TypeOK, RetriesSound
    <3>5. QED
      BY <2>1, <3>2, <3>3, <3>4 DEF Acquire
  <2>2. CASE TakeLock(id)
    <3>1. /\ call' \in [Calls -> CallRecord]
          /\ nextAllowed' \in Nat /\ granted' \in Int /\ holder' \in Calls \cup {Nobody}
          /\ call'[id].at # "backoff"
          /\ \A other \in Calls \ {id} : call'[other] = call[other]
      BY <1>1, <2>2, EnterLockType DEF TakeLock
    <3>2. queue' \in Seq(Calls)
      BY <2>2 DEF TakeLock, TypeOK
    <3>3. QED
      BY <2>2, <3>1, <3>2 DEF TakeLock, TypeOK, RetriesSound
  <2>3. CASE Wake(id)
    <3>1. /\ call' \in [Calls -> CallRecord] /\ granted' = now
          /\ call'[id].at \in {"sent", "failed"}
          /\ \A other \in Calls \ {id} : call'[other] = call[other]
      BY <2>3, GrantedType DEF Wake
    <3>2. TypeOK'
      BY <1>1, <2>3, <3>1 DEF Wake, TypeOK
    <3>3. RetriesSound'
      BY <3>1 DEF RetriesSound
    <3>4. QED
      BY <3>2, <3>3
  <2>4. CASE AnswerDetail(id)
    <3>1. [NoCall EXCEPT !.at = "answered"] \in CallRecord
      BY NoCallIsCall DEF Steps, Ended
    <3>2. QED
      BY <1>1, <2>4, <3>1 DEF AnswerDetail, TypeOK, RetriesSound, NoCall
  <2>5. CASE call' = Fail(id) /\ UNCHANGED <<now, nextAllowed, holder, queue, phase, selected, granted>>
    <3>1. Fail(id) \in [Calls -> CallRecord]
      BY FailType
    <3>2. QED
      BY <1>1, <2>5, <3>1 DEF TypeOK, RetriesSound, Fail, NoCall
  <2>6. CASE FailAttempt(id) /\ call' # Fail(id)
    <3>1. /\ call[id].at = "sent" /\ call[id].attempts \in 0 .. MaxAttempts
          /\ call[id].attempts < MaxAttempts
          /\ call' = [call EXCEPT ![id].at = "backoff",
                                  ![id].due = now + Delay(call[id].attempts - 1)]
      BY <1>1, <2>6 DEF FailAttempt, CallRecord
    <3>2. 2^(call[id].attempts - 1) \in Int
      BY <3>1, SMT
    <3>3. BaseDelay * 2^(call[id].attempts - 1) \in Int
      BY <3>2
    <3>4. Delay(call[id].attempts - 1) \in Int
      <4> DEFINE d == BaseDelay * 2^(call[id].attempts - 1)
      <4>1. Min({MaxDelay, d}) \in Int
        <5>1. d \in Int
          BY <3>3
        <5> HIDE DEF d
        <5>2. QED
          BY <5>1 DEF Min
      <4>2. QED
        BY <4>1 DEF Delay
    <3>5. [call[id] EXCEPT !.at = "backoff", !.due = now + Delay(call[id].attempts - 1)]
            \in CallRecord
      <4>1. now + Delay(call[id].attempts - 1) \in Int /\ "backoff" \in Steps
        BY <1>1, <3>4 DEF Steps, Running
      <4>2. QED
        BY <1>1, <4>1 DEF CallRecord
    <3>6. call' \in [Calls -> CallRecord]
      BY <1>1, <3>1, <3>5
    <3>7. QED
      BY <1>1, <2>6, <3>1, <3>6 DEF FailAttempt, TypeOK, RetriesSound, CallRecord
  <2>7. CASE Retry(id)
    <3>1. call[id].attempts + 1 \in 0 .. MaxAttempts
      BY <1>1, <2>7 DEF Retry, RetriesSound, CallRecord
    <3>2. [call[id] EXCEPT !.at = "sent", !.attempts = @ + 1, !.due = 0] \in CallRecord
      BY <1>1, <3>1, SentAgainType
    <3>3. call' \in [Calls -> CallRecord]
      BY <1>1, <2>7, <3>2 DEF Retry
    <3>4. QED
      BY <1>1, <2>7, <3>3 DEF Retry, TypeOK, RetriesSound, CallRecord
  <2>8. QED
    BY <1>2, <2>1, <2>2, <2>3, <2>4, <2>5, <2>6, <2>7
       DEF CallStep, FailForGood, FailAttempt, Expire
<1>3. ASSUME NEW c \in Collectors, CollectorStep(c) PROVE TypeOK' /\ RetriesSound'
  <2>1. CASE Start(c)
    BY <1>1, <2>1, SearchIsCall
       DEF Start, TypeOK, RetriesSound, CallRecord, Steps, Waiting, Phases
  <2>2. CASE Finish(c)
    BY <2>2 DEF Finish, TypeOK, RetriesSound, Phases
  <2>3. ASSUME NEW n \in 0 .. MaxDetails, AnswerSearch(c, n) PROVE TypeOK' /\ RetriesSound'
    <3>1. WithDetails(c, n) \in [Calls -> CallRecord]
      BY WithDetailsType
    <3>2. \A id \in Calls : call'[id].at = "backoff" => call'[id] = call[id]
      BY <1>1, <2>3 DEF AnswerSearch, WithDetails, NoCall
    <3>3. QED
      BY <1>1, <2>3, <3>1, <3>2 DEF AnswerSearch, TypeOK, RetriesSound, Phases
  <2>4. QED
    BY <1>3, <2>1, <2>2, <2>3 DEF CollectorStep
<1>4. CASE Tick
  BY <1>4 DEF Tick, TypeOK, RetriesSound
<1>5. CASE UNCHANGED vars
  BY <1>5 DEF vars, TypeOK, RetriesSound
<1>6. QED
  BY <1>2, <1>3, <1>4, <1>5 DEF Next

-----------------------------------------------------------------------------
(* The order of a collector *)

LEMMA OrderStep == TypeOK /\ LockSound /\ OrderSound /\ [Next]_vars => OrderSound'
<1> SUFFICES ASSUME TypeOK, LockSound, OrderSound, [Next]_vars PROVE OrderSound'
  OBVIOUS
<1>1. call \in [Calls -> CallRecord]
  BY DEF TypeOK
<1>2. ASSUME NEW id \in Calls, call[id].at # "none", call'[id].at # "none",
             call[id].at \notin Ended,
             \A other \in Calls \ {id} : call'[other] = call[other], phase' = phase
      PROVE  OrderSound'
  <2> SUFFICES ASSUME NEW c \in Collectors
               PROVE  /\ phase[c] = "idle" => call'[<<c, 0>>].at = "none"
                      /\ call'[<<c, 0>>].at \notin Ended =>
                           \A k \in 1 .. MaxDetails : call'[<<c, k>>].at = "none"
    BY <1>2 DEF OrderSound
  <2>1. <<c, 0>> \in Calls /\ \A k \in 1 .. MaxDetails : <<c, k>> \in Calls /\ <<c, k>> # <<c, 0>>
    BY DEF Calls
  <2>2. CASE id = <<c, 0>>
    <3>1. \A k \in 1 .. MaxDetails : call[<<c, k>>].at = "none" /\ call'[<<c, k>>] = call[<<c, k>>]
      BY <1>2, <2>1, <2>2 DEF OrderSound
    <3>2. phase[c] # "idle"
      BY <1>2, <2>2 DEF OrderSound
    <3>3. QED
      BY <3>1, <3>2
  <2>3. CASE id # <<c, 0>>
    <3>1. call'[<<c, 0>>] = call[<<c, 0>>]
      BY <1>2, <2>1, <2>3
    <3>2. ASSUME call[<<c, 0>>].at \notin Ended, NEW k \in 1 .. MaxDetails
          PROVE  call'[<<c, k>>].at = "none"
      <4>1. call[<<c, k>>].at = "none"
        BY <3>2 DEF OrderSound
      <4>2. id # <<c, k>>
        BY <1>2, <4>1
      <4>3. QED
        BY <1>2, <2>1, <4>1, <4>2
    <3>3. QED
      BY <3>1, <3>2 DEF OrderSound
  <2>4. QED
    BY <2>2, <2>3
<1>3. ASSUME NEW id \in Calls, CallStep(id) PROVE OrderSound'
  <2>1. CASE Acquire(id)
    <3>1. call[id].at = "ready" /\ phase' = phase
      BY <2>1 DEF Acquire
    <3>2. call'[id].at # "none" /\ \A other \in Calls \ {id} : call'[other] = call[other]
      <4> DEFINE asked == [call[id] EXCEPT !.arrived = now, !.ahead = Ahead]
      <4>1. asked \in CallRecord
        BY AskedType
      <4>2. CASE Granted(id)
        BY <4>2, GrantedType
      <4>3. CASE EnterLock(id, asked)
        <5> HIDE DEF asked
        <5>1. QED BY <4>1, <4>3, EnterLockType
      <4>4. CASE call' = [call EXCEPT ![id] = [asked EXCEPT !.at = "queued"]]
        <5> HIDE DEF asked
        <5>1. QED BY <1>1, <4>1, <4>4 DEF CallRecord
      <4>5. QED
        BY <2>1, <4>2, <4>3, <4>4 DEF Acquire
    <3>3. QED
      BY <1>2, <3>1, <3>2 DEF Ended
  <2>2. CASE TakeLock(id)
    <3>1. call[id].at = "queued" /\ phase' = phase
      BY <2>2 DEF TakeLock, LockSound, TypeOK
    <3>2. call'[id].at # "none" /\ \A other \in Calls \ {id} : call'[other] = call[other]
      BY <1>1, <2>2, EnterLockType DEF TakeLock
    <3>3. QED
      BY <1>2, <3>1, <3>2 DEF Ended
  <2>3. CASE Wake(id)
    <3>1. call[id].at = "pausing" /\ phase' = phase
      BY <2>3 DEF Wake
    <3>2. call'[id].at # "none" /\ \A other \in Calls \ {id} : call'[other] = call[other]
      BY <2>3, GrantedType DEF Wake
    <3>3. QED
      BY <1>2, <3>1, <3>2 DEF Ended
  <2>4. CASE AnswerDetail(id) \/ FailForGood(id) \/ FailAttempt(id) \/ Retry(id) \/ Expire(id)
    <3>1. call[id].at \in Running /\ phase' = phase
      BY <2>4 DEF AnswerDetail, FailForGood, FailAttempt, Retry, Expire, Running
    <3>2. call'[id].at # "none"
      BY <1>1, <2>4 DEF AnswerDetail, FailForGood, FailAttempt, Retry, Expire, Fail, NoCall, CallRecord
    <3>3. \A other \in Calls \ {id} : call'[other] = call[other]
      BY <1>1, <2>4 DEF AnswerDetail, FailForGood, FailAttempt, Retry, Expire, Fail
    <3>4. QED
      BY <1>2, <3>1, <3>2, <3>3 DEF Ended, Running
  <2>5. QED
    BY <1>3, <2>1, <2>2, <2>3, <2>4 DEF CallStep
<1>4. ASSUME NEW c \in Collectors, CollectorStep(c) PROVE OrderSound'
  <2>1. CASE Start(c)
    <3>1. call[<<c, 0>>].at = "none" /\ call'[<<c, 0>>].at = "ready"
      BY <1>1, <2>1, SearchIsCall DEF Start, OrderSound, CallRecord
    <3>2. /\ \A other \in Calls \ {<<c, 0>>} : call'[other] = call[other]
          /\ \A d \in Collectors : phase'[d] = "idle" => d # c /\ phase[d] = "idle"
      BY <1>1, <2>1 DEF Start, TypeOK
    <3>3. ASSUME NEW d \in Collectors, NEW k \in 1 .. MaxDetails
          PROVE  <<d, k>> \in Calls \ {<<c, 0>>}
      BY DEF Calls
    <3>4. \A d \in Collectors \ {c} : <<d, 0>> \in Calls \ {<<c, 0>>}
      BY DEF Calls
    <3>5. call[<<c, 0>>].at \notin Ended
      BY <3>1 DEF Ended
    <3>6. QED
      BY <3>1, <3>2, <3>3, <3>4, <3>5 DEF OrderSound
  <2>2. CASE Finish(c)
    <3>1. call' = call /\ \A d \in Collectors : phase'[d] = "idle" => phase[d] = "idle"
      BY <2>2 DEF Finish, TypeOK
    <3>2. QED
      BY <3>1 DEF OrderSound
  <2>3. ASSUME NEW n \in 0 .. MaxDetails, AnswerSearch(c, n) PROVE OrderSound'
    <3>1. call[<<c, 0>>].at = "sent" /\ call'[<<c, 0>>].at = "answered"
      BY <1>1, <2>3, SearchIsCall DEF AnswerSearch, WithDetails, NoCall
    <3>2. \A d \in Collectors \ {c} : \A k \in 0 .. MaxDetails : call'[<<d, k>>] = call[<<d, k>>]
      BY <1>1, <2>3 DEF AnswerSearch, WithDetails, Calls
    <3>3. \A d \in Collectors : phase'[d] = "idle" => d # c /\ phase[d] = "idle"
      BY <2>3 DEF AnswerSearch, TypeOK
    <3>4. call'[<<c, 0>>].at \in Ended
      BY <3>1 DEF Ended
    <3>5. ASSUME NEW d \in Collectors
          PROVE  /\ phase'[d] = "idle" => call'[<<d, 0>>].at = "none"
                 /\ call'[<<d, 0>>].at \notin Ended =>
                      \A k \in 1 .. MaxDetails : call'[<<d, k>>].at = "none"
      <4>1. CASE d = c
        BY <3>3, <3>4, <4>1
      <4>2. CASE d # c
        <5>1. /\ call'[<<d, 0>>] = call[<<d, 0>>]
              /\ \A k \in 1 .. MaxDetails : call'[<<d, k>>] = call[<<d, k>>]
          BY <3>2, <4>2
        <5>2. QED
          BY <3>3, <5>1 DEF OrderSound
      <4>3. QED
        BY <4>1, <4>2
    <3>6. QED
      BY <3>5 DEF OrderSound
  <2>4. QED
    BY <1>4, <2>1, <2>2, <2>3 DEF CollectorStep
<1>5. CASE Tick
  BY <1>5 DEF Tick, OrderSound
<1>6. CASE UNCHANGED vars
  BY <1>6 DEF vars, OrderSound
<1>7. QED
  BY <1>3, <1>4, <1>5, <1>6 DEF Next

-----------------------------------------------------------------------------
(* The limiter *)

\* Most steps leave the limiter and the calls that wait for it alone, and
\* neither let a call through nor take one back.
Quiet ==
  /\ UNCHANGED <<now, nextAllowed, holder, queue, granted>>
  /\ \A id \in Calls : call[id].at \in {"queued", "pausing"} => call'[id] = call[id]
  /\ \A id \in Calls : call'[id].at \in {"queued", "pausing"} => call'[id] = call[id]
  /\ \A id \in Calls : call'[id].at \in Running \cup Ended <=> call[id].at \in Running \cup Ended
  /\ \A id \in Calls : call'[id].at \in Running =>
       call[id].at \in Running /\ call'[id].deadline = call[id].deadline

LEMMA QuietSteps ==
  ASSUME TypeOK, OrderSound, [Next]_vars, ~Tick,
         \A id \in Calls : ~Acquire(id) /\ ~TakeLock(id) /\ ~Wake(id)
  PROVE  Quiet
<1>1. call \in [Calls -> CallRecord]
  BY DEF TypeOK
<1>2. ASSUME NEW id \in Calls,
             AnswerDetail(id) \/ FailForGood(id) \/ FailAttempt(id) \/ Retry(id) \/ Expire(id)
      PROVE  Quiet
  <2>1. call[id].at \in Running
    BY <1>2 DEF AnswerDetail, FailForGood, FailAttempt, Retry, Expire, Running
  <2>2. call'[id].at \in Running \cup Ended
    BY <1>1, <1>2
       DEF AnswerDetail, FailForGood, FailAttempt, Retry, Expire, Fail, NoCall, CallRecord,
           Running, Ended
  <2>3. \A other \in Calls \ {id} : call'[other] = call[other]
    BY <1>1, <1>2 DEF AnswerDetail, FailForGood, FailAttempt, Retry, Expire, Fail
  <2>4. UNCHANGED <<now, nextAllowed, holder, queue, granted>>
    BY <1>2 DEF AnswerDetail, FailForGood, FailAttempt, Retry, Expire
  <2>5. call'[id].at \in Running => call'[id].deadline = call[id].deadline
    BY <1>1, <1>2
       DEF AnswerDetail, FailForGood, FailAttempt, Retry, Expire, Fail, NoCall, CallRecord, Running
  <2>6. QED
    BY <2>1, <2>2, <2>3, <2>4, <2>5 DEF Quiet, Running, Ended
<1>3. ASSUME NEW c \in Collectors, Start(c) PROVE Quiet
  <2>1. call[<<c, 0>>].at = "none" /\ call'[<<c, 0>>].at = "ready"
    BY <1>1, <1>3, SearchIsCall DEF Start, OrderSound, CallRecord
  <2>2. \A other \in Calls \ {<<c, 0>>} : call'[other] = call[other]
    BY <1>1, <1>3 DEF Start
  <2>3. QED
    BY <1>3, <2>1, <2>2 DEF Start, Quiet, Running, Ended
<1>4. ASSUME NEW c \in Collectors, NEW n \in 0 .. MaxDetails, AnswerSearch(c, n) PROVE Quiet
  <2>1. call[<<c, 0>>].at = "sent" /\ call' = WithDetails(c, n)
    BY <1>4 DEF AnswerSearch
  <2>2. call'[<<c, 0>>].at = "answered"
    BY <2>1, SearchIsCall DEF WithDetails, NoCall
  <2>3. ASSUME NEW id \in Calls, id # <<c, 0>>
        PROVE  call'[id] = call[id] \/ (call[id].at = "none" /\ call'[id].at = "ready")
    <3>1. CASE id[1] = c
      <4>1. id[2] \in 1 .. MaxDetails /\ id = <<c, id[2]>>
        BY <2>3, <3>1 DEF Calls
      <4>2. call[<<c, 0>>].at \notin Ended
        BY <2>1 DEF Ended
      <4>3. call[id].at = "none"
        BY <4>1, <4>2 DEF OrderSound
      <4>4. QED
        BY <2>1, <2>3, <4>3 DEF WithDetails, NoCall
    <3>2. CASE id[1] # c
      BY <2>1, <2>3, <3>2 DEF WithDetails
    <3>3. QED
      BY <3>1, <3>2
  <2>4. UNCHANGED <<now, nextAllowed, holder, queue, granted>>
    BY <1>4 DEF AnswerSearch
  <2>5. QED
    BY <2>1, <2>2, <2>3, <2>4 DEF Quiet, Running, Ended
<1>5. ASSUME NEW c \in Collectors, Finish(c) PROVE Quiet
  BY <1>5 DEF Finish, Quiet
<1>6. CASE UNCHANGED vars
  BY <1>6 DEF vars, Quiet
<1>7. QED
  BY <1>2, <1>3, <1>4, <1>5, <1>6 DEF Next, CallStep, CollectorStep

\* A call that joins the queue.
Joins(id) ==
  /\ Interval # 0 /\ Ahead # 0
  /\ call[id].at = "ready"
  /\ queue' = Append(queue, id)
  /\ call'[id].at = "queued" /\ call'[id].arrived = now /\ call'[id].ahead = Ahead
  /\ \A other \in Calls \ {id} : call'[other] = call[other]
  /\ UNCHANGED <<now, nextAllowed, holder, granted>>

\* A call that takes the free lock and has to sleep, with the time at which it
\* asked and the calls that were ahead of it then.
Pauses(id, arrived, ahead) ==
  /\ Interval # 0 /\ holder = Nobody
  /\ now < nextAllowed
  /\ holder' = id
  /\ call'[id].at = "pausing" /\ call'[id].due = nextAllowed
  /\ call'[id].arrived = arrived /\ call'[id].ahead = ahead
  /\ \A other \in Calls \ {id} : call'[other] = call[other]
  /\ UNCHANGED <<now, nextAllowed, granted>>

\* A call that is let through.
Passes(id) ==
  /\ call[id].at \in Waiting
  /\ call'[id].at \in {"sent", "failed"}
  /\ call'[id].at = "sent" => call'[id].deadline = now + Timeout
  /\ \A other \in Calls \ {id} : call'[other] = call[other]
  /\ granted' = now /\ now' = now
  /\ \/ Interval = 0 /\ UNCHANGED <<nextAllowed, holder, queue>>
     \/ Interval # 0 /\ now >= nextAllowed /\ nextAllowed' = now + Interval /\ holder' = Nobody

\* The steps of the limiter, for short.
LimiterStep(id) ==
  \/ Joins(id)
  \/ /\ call[id].at = "ready" /\ queue = <<>> /\ queue' = queue /\ holder = Nobody
     /\ Pauses(id, now, 0) \/ Passes(id)
  \/ /\ call[id].at = "queued" /\ queue # <<>> /\ id = Head(queue) /\ queue' = Tail(queue)
     /\ holder = Nobody
     /\ Pauses(id, call[id].arrived, call[id].ahead) \/ Passes(id)
  \/ /\ holder = id /\ queue' = queue
     /\ Passes(id)

LEMMA EnterLockCases ==
  ASSUME TypeOK, NEW id \in Calls, NEW asked \in CallRecord, EnterLock(id, asked),
         holder = Nobody, Interval # 0, call[id].at \in Waiting, now' = now
  PROVE  Pauses(id, asked.arrived, asked.ahead) \/ Passes(id)
<1>1. CASE now >= nextAllowed /\ Granted(id) /\ nextAllowed' = now + Interval /\ holder' = Nobody
  <2>1. /\ granted' = now /\ call'[id].at \in {"sent", "failed"}
        /\ call'[id].at = "sent" => call'[id].deadline = now + Timeout
        /\ \A other \in Calls \ {id} : call'[other] = call[other]
    BY <1>1, GrantedType
  <2>2. QED
    BY <1>1, <2>1 DEF Passes
<1>2. CASE /\ now < nextAllowed
           /\ call' = [call EXCEPT ![id] = [asked EXCEPT !.at = "pausing", !.due = nextAllowed]]
           /\ holder' = id
           /\ UNCHANGED <<nextAllowed, granted>>
  <2>1. PICK t \in Int : t = nextAllowed
    BY DEF TypeOK
  <2>2. call' = [call EXCEPT ![id] = [asked EXCEPT !.at = "pausing", !.due = t]]
    BY <1>2, <2>1
  <2>3. /\ call'[id].at = "pausing" /\ call'[id].due = t
        /\ call'[id].arrived = asked.arrived /\ call'[id].ahead = asked.ahead
        /\ \A other \in Calls \ {id} : call'[other] = call[other]
    <3>1. call \in [Calls -> CallRecord]
      BY DEF TypeOK
    <3>2. call'[id] = [asked EXCEPT !.at = "pausing", !.due = t]
      BY <2>2, <3>1
    <3>3. QED
      BY <2>2, <3>1, <3>2 DEF CallRecord
  <2>4. QED
    BY <1>2, <2>1, <2>3 DEF Pauses
<1>3. QED
  BY <1>1, <1>2 DEF EnterLock

LEMMA AheadOfNone ==
  ASSUME TypeOK, Ahead = 0
  PROVE  queue = <<>> /\ holder = Nobody
<1>1. queue \in Seq(Calls) /\ Len(queue) \in Nat
  BY DEF TypeOK
<1>2. Len(queue) = 0 /\ holder = Nobody
  BY <1>1 DEF Ahead
<1>3. QED
  BY <1>1, <1>2

LEMMA LimiterSteps ==
  ASSUME TypeOK, LockSound, NEW id \in Calls, Acquire(id) \/ TakeLock(id) \/ Wake(id)
  PROVE  LimiterStep(id)
<1>1. call \in [Calls -> CallRecord]
  BY DEF TypeOK
<1>2. CASE Acquire(id)
  <2> DEFINE asked == [call[id] EXCEPT !.arrived = now, !.ahead = Ahead]
  <2>1. asked \in CallRecord /\ asked.arrived = now /\ asked.ahead = Ahead
    BY <1>1, AskedType DEF CallRecord
  <2>2. call[id].at = "ready" /\ now' = now
    BY <1>2 DEF Acquire
  <2>3. CASE Interval = 0 /\ Granted(id) /\ UNCHANGED <<nextAllowed, holder, queue>>
    <3>1. /\ granted' = now /\ call'[id].at \in {"sent", "failed"}
          /\ call'[id].at = "sent" => call'[id].deadline = now + Timeout
          /\ \A other \in Calls \ {id} : call'[other] = call[other]
      BY <2>3, GrantedType
    <3>2. QED
      BY <2>2, <2>3, <3>1 DEF LimiterStep, Passes, Waiting, LockSound
  <2>4. CASE Interval # 0 /\ Ahead = 0 /\ EnterLock(id, asked) /\ UNCHANGED queue
    <3>1. queue = <<>> /\ holder = Nobody
      BY <2>4, AheadOfNone
    <3>2. asked.ahead = 0
      BY <2>1, <2>4
    <3> HIDE DEF asked
    <3>3. Pauses(id, now, 0) \/ Passes(id)
      BY <2>1, <2>2, <2>4, <3>1, <3>2, EnterLockCases DEF Waiting
    <3>4. QED
      BY <2>2, <2>4, <3>1, <3>3 DEF LimiterStep
  <2>5. CASE /\ Interval # 0 /\ Ahead # 0
             /\ queue' = Append(queue, id)
             /\ call' = [call EXCEPT ![id] = [asked EXCEPT !.at = "queued"]]
             /\ UNCHANGED <<nextAllowed, holder, granted>>
    <3> HIDE DEF asked
    <3>1. /\ call'[id].at = "queued" /\ call'[id].arrived = now /\ call'[id].ahead = Ahead
          /\ \A other \in Calls \ {id} : call'[other] = call[other]
      BY <1>1, <2>1, <2>5 DEF CallRecord
    <3>2. QED
      BY <2>2, <2>5, <3>1 DEF LimiterStep, Joins
  <2>6. QED
    BY <1>2, <2>3, <2>4, <2>5 DEF Acquire
<1>3. CASE TakeLock(id)
  <2>1. /\ holder = Nobody /\ queue # <<>> /\ id = Head(queue) /\ queue' = Tail(queue)
        /\ now' = now /\ EnterLock(id, call[id])
    BY <1>3 DEF TakeLock
  <2>2. call[id].at = "queued"
    BY <2>1 DEF LockSound, TypeOK
  <2>3. Interval # 0
    BY <2>1 DEF LockSound
  <2>4. Pauses(id, call[id].arrived, call[id].ahead) \/ Passes(id)
    BY <1>1, <2>1, <2>2, <2>3, EnterLockCases DEF Waiting
  <2>5. QED
    BY <2>1, <2>2, <2>4 DEF LimiterStep
<1>4. CASE Wake(id)
  <2>1. call[id].at = "pausing" /\ now >= call[id].due /\ holder = id
    BY <1>4 DEF Wake, LockSound
  <2>2. call[id].due = nextAllowed /\ Interval # 0
    BY <2>1, NobodyIsNoCall DEF LockSound
  <2>3. /\ granted' = now /\ call'[id].at \in {"sent", "failed"}
        /\ call'[id].at = "sent" => call'[id].deadline = now + Timeout
        /\ \A other \in Calls \ {id} : call'[other] = call[other]
    BY <1>4, GrantedType DEF Wake
  <2>4. QED
    BY <1>4, <2>1, <2>2, <2>3 DEF LimiterStep, Passes, Wake, Waiting
<1>5. QED
  BY <1>2, <1>3, <1>4

LEMMA LimiterLockStep ==
  ASSUME TypeOK, LockSound, NEW id \in Calls, LimiterStep(id)
  PROVE  LockSound'
<1>1. queue \in Seq(Calls) /\ holder \in Calls \cup {Nobody} /\ id # Nobody
  BY NobodyIsNoCall DEF TypeOK
<1>2. CASE Joins(id)
  <2>1. \A i \in DOMAIN queue : queue[i] \in Calls \ {id}
    BY <1>1, <1>2 DEF Joins, LockSound
  <2>2. \A i \in DOMAIN queue' : queue'[i] = IF i = Len(queue) + 1 THEN id ELSE queue[i]
    BY <1>1, <1>2 DEF Joins
  <2>3. DOMAIN queue' = DOMAIN queue \cup {Len(queue) + 1} /\ Len(queue) + 1 \notin DOMAIN queue
    BY <1>1, <1>2 DEF Joins
  <2>4. \A i \in DOMAIN queue' : call'[queue'[i]].at = "queued"
    BY <1>2, <2>1, <2>2, <2>3 DEF Joins, LockSound
  <2>5. \A i, j \in DOMAIN queue' : queue'[i] = queue'[j] => i = j
    BY <2>1, <2>2, <2>3 DEF LockSound
  <2>6. \A other \in Calls : call'[other].at = "pausing" <=> holder' = other
    BY <1>1, <1>2 DEF Joins, LockSound
  <2>7. holder' # Nobody => call'[holder'].due = nextAllowed'
    BY <1>1, <1>2 DEF Joins, LockSound
  <2>8. QED
    BY <1>2, <2>4, <2>5, <2>6, <2>7 DEF Joins, LockSound
<1>3. ASSUME queue' = queue, \A i \in DOMAIN queue : queue[i] # id
      PROVE  /\ \A i \in DOMAIN queue' : queue'[i] \in Calls \ {id} /\ call[queue'[i]].at = "queued"
             /\ \A i, j \in DOMAIN queue' : queue'[i] = queue'[j] => i = j
  BY <1>1, <1>3 DEF LockSound
<1>4. ASSUME queue # <<>>, id = Head(queue), queue' = Tail(queue)
      PROVE  /\ \A i \in DOMAIN queue' : queue'[i] \in Calls \ {id} /\ call[queue'[i]].at = "queued"
             /\ \A i, j \in DOMAIN queue' : queue'[i] = queue'[j] => i = j
  <2>1. \A i \in DOMAIN queue' : i + 1 \in DOMAIN queue /\ queue'[i] = queue[i + 1] /\ i \in Nat
    BY <1>1, <1>4
  <2>2. 1 \in DOMAIN queue /\ id = queue[1]
    BY <1>1, <1>4
  <2>3. \A i \in DOMAIN queue' : i + 1 # 1
    BY <1>1, <1>4
  <2>4. \A i \in DOMAIN queue : queue[i] \in Calls
    BY <1>1
  <2>5. \A i \in DOMAIN queue' : queue'[i] \in Calls \ {id} /\ call[queue'[i]].at = "queued"
    BY <2>1, <2>2, <2>3, <2>4 DEF LockSound
  <2>6. \A i, j \in DOMAIN queue' : queue'[i] = queue'[j] => i = j
    BY <2>1 DEF LockSound
  <2>7. QED
    BY <2>5, <2>6
<1>5. ASSUME ~Joins(id)
      PROVE  /\ \A i \in DOMAIN queue' : queue'[i] \in Calls \ {id} /\ call[queue'[i]].at = "queued"
             /\ \A i, j \in DOMAIN queue' : queue'[i] = queue'[j] => i = j
  <2>1. CASE holder = id /\ queue' = queue
    <3>1. call[id].at = "pausing"
      BY <2>1 DEF LockSound
    <3>2. QED
      BY <1>3, <2>1, <3>1 DEF LockSound
  <2>2. CASE call[id].at = "ready" /\ queue' = queue
    BY <1>3, <2>2 DEF LockSound
  <2>3. QED
    BY <1>4, <1>5, <2>1, <2>2 DEF LimiterStep
<1>6. ASSUME ~Joins(id),
             \A other \in Calls \ {id} : call'[other] = call[other]
      PROVE  /\ \A i \in DOMAIN queue' : call'[queue'[i]].at = "queued"
             /\ \A i, j \in DOMAIN queue' : queue'[i] = queue'[j] => i = j
  BY <1>5, <1>6
<1>7. ASSUME NEW t, NEW n, ~Joins(id), Pauses(id, t, n) PROVE LockSound'
  <2>1. \A other \in Calls : call'[other].at = "pausing" <=> holder' = other
    BY <1>7, NobodyIsNoCall DEF Pauses, LockSound
  <2>2. holder' # Nobody => call'[holder'].due = nextAllowed'
    BY <1>7 DEF Pauses
  <2>3. \A other \in Calls \ {id} : call'[other] = call[other]
    BY <1>7 DEF Pauses
  <2>4. Interval # 0
    BY <1>7 DEF Pauses
  <2>5. /\ \A i \in DOMAIN queue' : call'[queue'[i]].at = "queued"
        /\ \A i, j \in DOMAIN queue' : queue'[i] = queue'[j] => i = j
    BY <1>6, <1>7, <2>3
  <2>6. QED
    BY <2>1, <2>2, <2>4, <2>5 DEF LockSound
<1>8. CASE ~Joins(id) /\ Passes(id)
  <2>1. call'[id].at # "pausing"
    BY <1>8 DEF Passes
  <2>2. \A other \in Calls \ {id} : call[other].at = "pausing" => holder = other
    BY DEF LockSound
  <2>3. holder = Nobody \/ holder = id
    BY <1>8 DEF LimiterStep
  <2>4. \A other \in Calls : call'[other].at # "pausing"
    BY <1>1, <1>8, <2>1, <2>2, <2>3, NobodyIsNoCall DEF Passes
  <2>5. holder' = Nobody
    BY <1>8, <2>3 DEF Passes, LockSound
  <2>6. Interval = 0 => queue' = <<>>
    BY <1>8, <1>1 DEF Passes, LockSound
  <2>7. QED
    BY <1>1, <1>6, <1>8, <2>4, <2>5, <2>6, NobodyIsNoCall DEF Passes, LockSound
<1>9. QED
  BY <1>2, <1>7, <1>8 DEF LimiterStep

LEMMA LockStep == TypeOK /\ LockSound /\ OrderSound /\ [Next]_vars => LockSound'
<1> SUFFICES ASSUME TypeOK, LockSound, OrderSound, [Next]_vars PROVE LockSound'
  OBVIOUS
<1>1. ASSUME NEW id \in Calls, Acquire(id) \/ TakeLock(id) \/ Wake(id) PROVE LockSound'
  BY <1>1, LimiterSteps, LimiterLockStep
<1>2. CASE Tick
  BY <1>2 DEF Tick, LockSound
<1>3. CASE Quiet
  <2>1. \A i \in DOMAIN queue : queue[i] \in Calls
    BY DEF TypeOK
  <2>2. holder \in Calls \cup {Nobody}
    BY DEF TypeOK
  <2>3. \A id \in Calls : call'[id].at = "pausing" <=> holder' = id
    BY <1>3 DEF Quiet, LockSound
  <2>4. holder' # Nobody => call'[holder'].due = nextAllowed'
    BY <1>3, <2>2 DEF Quiet, LockSound
  <2>5. \A i \in DOMAIN queue' : call'[queue'[i]].at = "queued"
    BY <1>3, <2>1 DEF Quiet, LockSound
  <2>6. QED
    BY <1>3, <2>3, <2>4, <2>5 DEF Quiet, LockSound
<1>4. QED
  BY <1>1, <1>2, <1>3, QuietSteps

LEMMA ClocksStep == TypeOK /\ LockSound /\ OrderSound /\ ClocksSound /\ [Next]_vars => ClocksSound'
<1> SUFFICES ASSUME TypeOK, LockSound, OrderSound, ClocksSound, [Next]_vars PROVE ClocksSound'
  OBVIOUS
<1>1. now \in Nat /\ granted \in Int
  BY DEF TypeOK
<1>2. ASSUME NEW id \in Calls, Acquire(id) \/ TakeLock(id) \/ Wake(id) PROVE ClocksSound'
  <2>1. LimiterStep(id)
    BY <1>2, LimiterSteps
  <2>2. CASE Joins(id)
    BY <2>2 DEF Joins, ClocksSound
  <2>3. ASSUME NEW t, NEW n, Pauses(id, t, n) PROVE ClocksSound'
    BY <2>3 DEF Pauses, ClocksSound
  <2>4. CASE Passes(id)
    BY <1>1, <2>4 DEF Passes, ClocksSound
  <2>5. QED
    BY <2>1, <2>2, <2>3, <2>4 DEF LimiterStep
<1>3. CASE Tick
  BY <1>1, <1>3 DEF Tick, ClocksSound
<1>4. CASE Quiet
  BY <1>4 DEF Quiet, ClocksSound
<1>5. QED
  BY <1>2, <1>3, <1>4, QuietSteps

-----------------------------------------------------------------------------
(* Theorems *)

LEMMA NextInductive == Inductive /\ [Next]_vars => Inductive'
BY TypeStep, LockStep, ClocksStep, OrderStep DEF Inductive

LEMMA InductiveInvariant == Spec => []Inductive
<1>1. QED
  BY InitInductive, NextInductive, PTL DEF Spec

\* Type correctness, for any searches, limits and policies; among other things
\* no call makes more than max_attempts attempts (retry.py:46).
THEOREM TypeCorrect == Spec => []TypeOK
<1>1. Inductive => TypeOK
  BY DEF Inductive
<1>2. QED
  BY <1>1, InductiveInvariant, PTL

LEMMA PacingInit == Init => Pacing!Init
BY DEF Init, Pacing!Init, Passed, NoCall, Running, Ended

\* Every step of the service is a step of the limiter's promise, or none.
LEMMA PacingStep ==
  Inductive /\ [Next]_vars => [Pacing!Next]_<<now, granted, Passed>>
<1> SUFFICES ASSUME Inductive, [Next]_vars
             PROVE  [Pacing!Next]_<<now, granted, Passed>>
  OBVIOUS
<1>1. /\ TypeOK /\ LockSound /\ ClocksSound /\ OrderSound
  BY DEF Inductive
<1>2. /\ now \in Nat /\ granted \in Int /\ nextAllowed \in Nat
  BY <1>1 DEF TypeOK
<1>3. ASSUME NEW id \in Calls, Acquire(id) \/ TakeLock(id) \/ Wake(id)
      PROVE  [Pacing!Next]_<<now, granted, Passed>>
  <2>1. LimiterStep(id)
    BY <1>1, <1>3, LimiterSteps
  <2>2. CASE Joins(id)
    <3>1. UNCHANGED <<now, granted>>
      BY <2>2 DEF Joins
    <3>2. Passed' = Passed
      BY <2>2 DEF Joins, Passed, Running, Ended
    <3>3. QED
      BY <3>1, <3>2
  <2>3. ASSUME NEW t, NEW n, Pauses(id, t, n), call[id].at \in {"ready", "queued"}
        PROVE  [Pacing!Next]_<<now, granted, Passed>>
    <3>1. UNCHANGED <<now, granted>>
      BY <2>3 DEF Pauses
    <3>2. Passed' = Passed
      BY <2>3 DEF Pauses, Passed, Running, Ended
    <3>3. QED
      BY <3>1, <3>2
  <2>4. CASE Passes(id)
    <3>1. now >= granted + Interval
      BY <1>1, <1>2, <2>4 DEF Passes, ClocksSound
    <3>2. id \notin Passed
      BY <2>4 DEF Passes, Passed, Waiting, Running, Ended
    <3>3. Passed' = Passed \cup {id}
      BY <2>4 DEF Passes, Passed, Running, Ended
    <3>4. granted' = now /\ now' = now
      BY <2>4 DEF Passes
    <3>5. Pacing!Grant(id)
      BY <3>1, <3>2, <3>3, <3>4 DEF Pacing!Grant
    <3>6. QED
      BY <3>5 DEF Pacing!Next
  <2>5. QED
    BY <2>1, <2>2, <2>3, <2>4 DEF LimiterStep
<1>4. CASE Tick
  <2>1. Passed' = Passed /\ granted' = granted /\ now' = now + 1
    BY <1>4 DEF Tick, Passed
  <2>2. Pacing!TimePasses
    BY <2>1 DEF Pacing!TimePasses
  <2>3. QED
    BY <2>2 DEF Pacing!Next
<1>5. CASE Quiet
  <2>1. Passed' = Passed
    BY <1>5 DEF Quiet, Passed
  <2>2. QED
    BY <1>5, <2>1 DEF Quiet
<1>6. QED
  BY <1>1, <1>3, <1>4, <1>5, QuietSteps

\* The limiter keeps its minimum interval between the calls it lets through,
\* and lets each through once, whatever else its searches do meanwhile.
THEOREM LimiterPaces == Spec => PacesRequests
<1>1. Inductive /\ [Next]_vars => [Pacing!Next]_<<now, granted, Passed>>
  BY PacingStep
<1>2. QED
  BY <1>1, PacingInit, InductiveInvariant, PTL DEF Spec, PacesRequests, Pacing!Spec

-----------------------------------------------------------------------------
(* Waiting *)

\* The longest time from one grant to the next while calls wait.
K == Interval + Lag

\* When a waiting call must have been let through.
Latest(id) == call[id].arrived + (call[id].ahead + 1) * K

\* When the call at position p of the queue will be.
Turn(p) == nextAllowed + Lag + (IF holder = Nobody THEN p - 1 ELSE p) * K

\* Every queued call has a place; the lock is passed on at once; holder and
\* queue come in time.
TurnsSound ==
  /\ \A id \in Calls : call[id].at = "queued" => \E p \in DOMAIN queue : queue[p] = id
  /\ holder = Nobody /\ queue # <<>> => now = granted
  /\ holder # Nobody => now <= nextAllowed + Lag /\ nextAllowed + Lag <= Latest(holder)
  /\ \A p \in DOMAIN queue : Turn(p) <= Latest(queue[p])

LEMMA KType == K \in Nat
BY DEF K

LEMMA Product ==
  ASSUME NEW m \in Nat
  PROVE  m * K \in Nat /\ (m + 1) * K = m * K + K
BY KType

LEMMA WaitTypes ==
  ASSUME TypeOK
  PROVE  /\ \A id \in Calls : /\ call[id].arrived \in Nat /\ call[id].ahead \in Nat
                              /\ Latest(id) \in Nat
         /\ now \in Nat /\ nextAllowed \in Nat /\ granted \in Int
         /\ queue \in Seq(Calls) /\ holder \in Calls \cup {Nobody}
         /\ \A p \in DOMAIN queue : p \in Nat \ {0} /\ queue[p] \in Calls /\ Turn(p) \in Nat
<1>1. /\ now \in Nat /\ nextAllowed \in Nat /\ granted \in Int
      /\ queue \in Seq(Calls) /\ holder \in Calls \cup {Nobody}
  BY DEF TypeOK
<1>2. ASSUME NEW id \in Calls
      PROVE  call[id].arrived \in Nat /\ call[id].ahead \in Nat /\ Latest(id) \in Nat
  <2>1. call[id].arrived \in Nat /\ call[id].ahead \in Nat
    BY DEF TypeOK, CallRecord
  <2>2. (call[id].ahead + 1) * K \in Nat
    BY <2>1, KType
  <2>3. QED
    BY <2>1, <2>2 DEF Latest
<1>3. ASSUME NEW p \in DOMAIN queue
      PROVE  p \in Nat \ {0} /\ queue[p] \in Calls /\ Turn(p) \in Nat
  <2>1. p \in Nat \ {0} /\ queue[p] \in Calls
    BY <1>1
  <2>2. p * K \in Nat /\ (p - 1) * K \in Nat
    BY <2>1, KType
  <2>3. QED
    BY <1>1, <2>1, <2>2 DEF Turn
<1>4. QED
  BY <1>1, <1>2, <1>3

LEMMA InitTurns == Init => TurnsSound
BY DEF Init, TurnsSound, NoCall

LEMMA JoinsTurns ==
  ASSUME TypeOK, LockSound, ClocksSound, TurnsSound, NEW id \in Calls, Joins(id)
  PROVE  TurnsSound'
<1>1. /\ queue' = Append(queue, id) /\ UNCHANGED <<now, nextAllowed, holder, granted>>
      /\ call'[id].at = "queued" /\ call'[id].arrived = now /\ call'[id].ahead = Ahead
      /\ \A other \in Calls \ {id} : call'[other] = call[other]
      /\ call[id].at = "ready" /\ Ahead # 0 /\ Interval # 0
  BY DEF Joins
<1>2. /\ queue \in Seq(Calls) /\ now \in Nat /\ nextAllowed \in Nat /\ granted \in Int
      /\ holder \in Calls \cup {Nobody} /\ Len(queue) \in Nat
  BY WaitTypes
<1>3. /\ DOMAIN queue' = DOMAIN queue \cup {Len(queue) + 1}
      /\ \A p \in DOMAIN queue : queue'[p] = queue[p]
      /\ queue'[Len(queue) + 1] = id /\ Len(queue) + 1 \notin DOMAIN queue
  BY <1>1, <1>2
<1>4. \A p \in DOMAIN queue : queue[p] \in Calls \ {id}
  BY <1>1, <1>2 DEF LockSound
<1>5. ASSUME NEW other \in Calls, call'[other].at = "queued"
      PROVE  \E p \in DOMAIN queue' : queue'[p] = other
  BY <1>1, <1>3, <1>5 DEF TurnsSound
<1>6. holder' = Nobody /\ queue' # <<>> => now' = granted'
  <2>1. Len(queue) # 0 \/ holder # Nobody
    BY <1>1, <1>2 DEF Ahead
  <2>2. holder = Nobody => queue # <<>>
    BY <1>2, <2>1
  <2>3. QED
    BY <1>1, <2>2 DEF TurnsSound
<1>7. holder # Nobody => holder \in Calls \ {id}
  BY <1>1, <1>2 DEF LockSound
<1>8. holder' # Nobody => now' <= nextAllowed' + Lag /\ nextAllowed' + Lag <= Latest(holder)'
  BY <1>1, <1>7 DEF TurnsSound, Latest
<1>9. ASSUME NEW p \in DOMAIN queue' PROVE Turn(p)' <= Latest(queue[p])'
  <2>1. CASE p \in DOMAIN queue
    <3>1. Turn(p)' = Turn(p)
      BY <1>1 DEF Turn
    <3>2. Latest(queue[p])' = Latest(queue[p])
      BY <1>1, <1>3, <1>4, <2>1 DEF Latest
    <3>3. QED
      BY <2>1, <3>1, <3>2 DEF TurnsSound
  <2>2. CASE p = Len(queue) + 1
    <3>1. Latest(queue[p])' = now + (Ahead + 1) * K
      BY <1>1, <1>3, <2>2 DEF Latest
    <3>2. nextAllowed <= now + Interval
      BY <1>1, <1>2 DEF ClocksSound
    <3>3. CASE holder = Nobody
      <4>1. Ahead + 1 = p /\ p - 1 \in Nat
        BY <1>2, <2>2, <3>3 DEF Ahead
      <4>2. Turn(p)' = nextAllowed + Lag + (p - 1) * K
        BY <1>1, <3>3 DEF Turn
      <4>3. (p - 1) * K \in Nat /\ p * K = (p - 1) * K + K
        <5>1. PICK m \in Nat : p - 1 = m /\ p = m + 1
          BY <1>2, <4>1
        <5>2. QED
          BY <5>1, Product
      <4>4. QED
        BY <1>2, <3>1, <3>2, <4>1, <4>2, <4>3 DEF K
    <3>4. CASE holder # Nobody
      <4>1. Ahead = p /\ p \in Nat
        BY <1>2, <2>2, <3>4 DEF Ahead
      <4>2. Turn(p)' = nextAllowed + Lag + p * K
        BY <1>1, <3>4 DEF Turn
      <4>3. p * K \in Nat /\ (p + 1) * K = p * K + K
        BY <4>1, Product
      <4>4. QED
        BY <1>2, <3>1, <3>2, <4>1, <4>2, <4>3 DEF K
    <3>5. QED
      BY <3>3, <3>4
  <2>3. QED
    BY <1>3, <2>1, <2>2
<1>10. QED
  BY <1>5, <1>6, <1>8, <1>9 DEF TurnsSound

\* A call that goes to sleep with the lock, before or after it queued.
LEMMA PausesTurns ==
  ASSUME TypeOK, LockSound, ClocksSound, TurnsSound, NEW id \in Calls,
         holder = Nobody, NEW t \in Nat, NEW n \in Nat, Pauses(id, t, n),
         nextAllowed + Lag <= t + (n + 1) * K,
         \/ call[id].at = "ready" /\ queue = <<>> /\ queue' = queue
         \/ call[id].at = "queued" /\ queue # <<>> /\ id = Head(queue) /\ queue' = Tail(queue)
  PROVE  TurnsSound'
<1>1. /\ holder' = id /\ UNCHANGED <<now, nextAllowed, granted>> /\ now < nextAllowed
      /\ call'[id].at = "pausing" /\ call'[id].arrived = t /\ call'[id].ahead = n
      /\ \A other \in Calls \ {id} : call'[other] = call[other]
  BY DEF Pauses
<1>2. /\ queue \in Seq(Calls) /\ now \in Nat /\ nextAllowed \in Nat /\ id # Nobody
  BY WaitTypes, NobodyIsNoCall
<1>3. CASE queue = <<>> /\ queue' = queue /\ call[id].at = "ready"
  <2>1. DOMAIN queue' = {} /\ \A other \in Calls : call[other].at # "queued"
    BY <1>3 DEF TurnsSound
  <2>2. holder' # Nobody => now' <= nextAllowed' + Lag /\ nextAllowed' + Lag <= Latest(holder)'
    BY <1>1, <1>2 DEF Latest
  <2>3. QED
    BY <1>1, <1>2, <2>1, <2>2 DEF TurnsSound
<1>4. CASE queue # <<>> /\ id = Head(queue) /\ queue' = Tail(queue) /\ call[id].at = "queued"
  <2>1. /\ 1 \in DOMAIN queue /\ queue[1] = id
        /\ \A p \in DOMAIN queue' : p \in Nat /\ p + 1 \in DOMAIN queue /\ queue'[p] = queue[p + 1]
        /\ \A p \in DOMAIN queue : p # 1 => p - 1 \in DOMAIN queue' /\ queue'[p - 1] = queue[p]
    BY <1>2, <1>4
  <2>2. \A p \in DOMAIN queue' : queue'[p] \in Calls \ {id}
    <3>1. \A p \in DOMAIN queue' : queue[p + 1] \in Calls /\ p + 1 # 1
      BY <1>2, <2>1
    <3>2. \A p \in DOMAIN queue' : queue[p + 1] # queue[1]
      BY <2>1, <3>1 DEF LockSound
    <3>3. QED
      BY <2>1, <3>1, <3>2
  <2>3. ASSUME NEW other \in Calls, call'[other].at = "queued"
        PROVE  \E p \in DOMAIN queue' : queue'[p] = other
    <3>1. other # id /\ call[other].at = "queued"
      BY <1>1, <2>3
    <3>2. PICK p \in DOMAIN queue : queue[p] = other
      BY <3>1 DEF TurnsSound
    <3>3. p # 1
      BY <2>1, <3>1, <3>2
    <3>4. QED
      BY <2>1, <3>2, <3>3
  <2>4. holder' # Nobody => now' <= nextAllowed' + Lag /\ nextAllowed' + Lag <= Latest(holder)'
    BY <1>1, <1>2 DEF Latest
  <2>5. ASSUME NEW p \in DOMAIN queue' PROVE Turn(p)' <= Latest(queue[p])'
    <3>1. Turn(p)' = nextAllowed + Lag + p * K
      BY <1>1, <1>2 DEF Turn
    <3>2. Turn(p + 1) = nextAllowed + Lag + p * K
      <4>1. p \in Nat /\ (p + 1) - 1 = p
        BY <2>1
      <4>2. QED
        BY <4>1 DEF Turn
    <3>3. Latest(queue[p])' = Latest(queue[p + 1])
      BY <1>1, <2>1, <2>2 DEF Latest
    <3>4. QED
      BY <2>1, <3>1, <3>2, <3>3 DEF TurnsSound
  <2>6. QED
    BY <1>1, <1>2, <2>3, <2>4, <2>5 DEF TurnsSound
<1>5. QED
  BY <1>3, <1>4

LEMMA PassesTurns ==
  ASSUME TypeOK, LockSound, ClocksSound, TurnsSound, NEW id \in Calls, Passes(id),
         \/ call[id].at = "ready" /\ queue = <<>> /\ queue' = queue /\ holder = Nobody
         \/ call[id].at = "queued" /\ queue # <<>> /\ holder = Nobody
         \/ holder = id /\ queue' = queue
  PROVE  TurnsSound'
<1>1. /\ call[id].at \in Waiting /\ call'[id].at \in {"sent", "failed"}
      /\ \A other \in Calls \ {id} : call'[other] = call[other]
      /\ granted' = now /\ now' = now
      /\ \/ Interval = 0 /\ UNCHANGED <<nextAllowed, holder, queue>>
         \/ Interval # 0 /\ now >= nextAllowed /\ nextAllowed' = now + Interval /\ holder' = Nobody
  BY DEF Passes
<1>2. /\ queue \in Seq(Calls) /\ now \in Nat /\ nextAllowed \in Nat /\ granted \in Int
      /\ id # Nobody
  BY WaitTypes, NobodyIsNoCall
<1>3. CASE call[id].at = "ready" /\ queue = <<>> /\ queue' = queue /\ holder = Nobody
  <2>1. DOMAIN queue' = {} /\ \A other \in Calls : call[other].at # "queued"
    BY <1>3 DEF TurnsSound
  <2>2. holder' = Nobody
    BY <1>1, <1>3
  <2>3. \A other \in Calls : call'[other].at # "queued"
    BY <1>1, <2>1
  <2>4. QED
    BY <1>3, <2>1, <2>2, <2>3 DEF TurnsSound
\* The lock is passed on at once, so that its next holder has to sleep.
<1>4. ~(call[id].at = "queued" /\ queue # <<>> /\ holder = Nobody)
  <2>1. SUFFICES ASSUME queue # <<>>, holder = Nobody PROVE FALSE
    OBVIOUS
  <2>2. now = granted /\ Interval # 0
    BY <2>1 DEF TurnsSound, LockSound
  <2>3. nextAllowed = granted + Interval
    BY <2>2 DEF ClocksSound
  <2>4. now >= nextAllowed
    BY <1>1, <2>2
  <2>5. QED
    BY <1>2, <2>2, <2>3, <2>4
<1>5. CASE holder = id /\ queue' = queue
  <2>1. /\ call[id].at = "pausing" /\ Interval # 0
        /\ now >= nextAllowed /\ nextAllowed' = now + Interval /\ holder' = Nobody
    BY <1>1, <1>2, <1>5 DEF LockSound
  <2>2. now <= nextAllowed + Lag
    BY <1>2, <1>5 DEF TurnsSound
  <2>3. \A p \in DOMAIN queue : queue[p] \in Calls \ {id}
    BY <1>2, <2>1 DEF LockSound
  <2>4. ASSUME NEW p \in DOMAIN queue' PROVE Turn(p)' <= Latest(queue[p])'
    <3>1. PICK m \in Nat : p = m + 1 /\ p - 1 = m
      <4>1. p \in Nat \ {0}
        BY <1>2, <1>5
      <4>2. p - 1 \in Nat /\ p = (p - 1) + 1
        BY <4>1
      <4>3. QED
        BY <4>2
    <3>2. Turn(p)' = now + Interval + Lag + m * K
      BY <2>1, <3>1 DEF Turn
    <3>3. Turn(p) = nextAllowed + Lag + (m + 1) * K
      BY <1>2, <1>5, <3>1 DEF Turn
    <3>4. m * K \in Nat /\ (m + 1) * K = m * K + K
      BY Product
    <3>5. Turn(p)' <= Turn(p)
      BY <1>2, <2>2, <3>2, <3>3, <3>4 DEF K
    <3>6. Latest(queue[p])' = Latest(queue[p])
      BY <1>1, <1>5, <2>3 DEF Latest
    <3>7. Turn(p) <= Latest(queue[p])
      BY <1>5 DEF TurnsSound
    <3>8. Turn(p) \in Nat /\ Latest(queue[p]) \in Nat /\ Turn(p)' \in Int
      <4>1. p \in DOMAIN queue
        BY <1>5
      <4>2. Turn(p)' \in Int
        BY <1>2, <3>2, <3>4
      <4>3. QED
        BY <4>1, <4>2, WaitTypes
    <3>9. QED
      BY <3>5, <3>6, <3>7, <3>8
  <2>5. ASSUME NEW other \in Calls, call'[other].at = "queued"
        PROVE  \E p \in DOMAIN queue' : queue'[p] = other
    BY <1>1, <1>5, <2>5 DEF TurnsSound
  <2>6. QED
    BY <1>1, <2>1, <2>4, <2>5 DEF TurnsSound
<1>6. QED
  BY <1>3, <1>4, <1>5

LEMMA TurnsStep ==
  Inductive /\ TurnsSound /\ [Next]_vars => TurnsSound'
<1> SUFFICES ASSUME Inductive, TurnsSound, [Next]_vars PROVE TurnsSound'
  OBVIOUS
<1>1. TypeOK /\ LockSound /\ ClocksSound /\ OrderSound
  BY DEF Inductive
<1>2. /\ queue \in Seq(Calls) /\ now \in Nat /\ nextAllowed \in Nat /\ granted \in Int
      /\ holder \in Calls \cup {Nobody}
  BY <1>1, WaitTypes
<1>3. ASSUME NEW id \in Calls, Acquire(id) \/ TakeLock(id) \/ Wake(id) PROVE TurnsSound'
  <2>1. LimiterStep(id)
    BY <1>1, <1>3, LimiterSteps
  <2>2. CASE Joins(id)
    BY <1>1, <2>2, JoinsTurns
  <2>3. CASE Passes(id)
    BY <1>1, <2>1, <2>2, <2>3, PassesTurns DEF LimiterStep
  <2>4. CASE /\ call[id].at = "ready" /\ queue = <<>> /\ queue' = queue /\ holder = Nobody
             /\ Pauses(id, now, 0)
    <3>1. nextAllowed + Lag <= now + (0 + 1) * K
      BY <1>1, <1>2, <2>4 DEF ClocksSound, K, Pauses
    <3>2. PICK t \in Nat : t = now
      BY <1>2
    <3>3. Pauses(id, t, 0) /\ nextAllowed + Lag <= t + (0 + 1) * K
      BY <2>4, <3>1, <3>2
    <3>4. QED
      BY <1>1, <2>4, <3>3, PausesTurns
  <2>5. CASE /\ call[id].at = "queued" /\ queue # <<>> /\ id = Head(queue) /\ queue' = Tail(queue)
             /\ holder = Nobody /\ Pauses(id, call[id].arrived, call[id].ahead)
    <3>1. PICK t \in Nat, n \in Nat : t = call[id].arrived /\ n = call[id].ahead
      BY <1>1, WaitTypes
    <3>2. Pauses(id, t, n)
      BY <2>5, <3>1
    <3>3. 1 \in DOMAIN queue /\ queue[1] = id
      BY <1>2, <2>5
    <3>4. Turn(1) <= Latest(id)
      BY <3>3 DEF TurnsSound
    <3>5. Turn(1) = nextAllowed + Lag
      <4>1. (1 - 1) * K = 0
        BY KType
      <4>2. QED
        BY <1>2, <2>5, <4>1 DEF Turn
    <3>6. nextAllowed + Lag <= t + (n + 1) * K
      BY <3>1, <3>4, <3>5 DEF Latest
    <3>7. QED
      BY <1>1, <2>5, <3>2, <3>6, PausesTurns
  <2>6. QED
    BY <2>1, <2>2, <2>3, <2>4, <2>5 DEF LimiterStep
<1>4. CASE Tick
  <2>1. ~(holder = Nobody /\ queue # <<>>)
    BY <1>4 DEF Tick, Runnable
  <2>2. ASSUME holder # Nobody PROVE now + 1 <= nextAllowed + Lag
    <3>1. holder \in Calls /\ call[holder].at = "pausing" /\ call[holder].due = nextAllowed
      BY <1>1, <1>2, <2>2 DEF LockSound
    <3>2. ~(now >= nextAllowed + Lag)
      BY <1>4, <3>1 DEF Tick, Overdue
    <3>3. QED
      BY <1>2, <3>2
  <2>3. now' = now + 1 /\ UNCHANGED <<nextAllowed, holder, queue, call, granted>>
    BY <1>4 DEF Tick
  <2>4. \A id \in Calls : call'[id].at = "queued" => \E p \in DOMAIN queue' : queue'[p] = id
    BY <2>3 DEF TurnsSound
  <2>5. holder' # Nobody => now' <= nextAllowed' + Lag /\ nextAllowed' + Lag <= Latest(holder)'
    BY <2>2, <2>3 DEF TurnsSound, Latest
  <2>6. \A p \in DOMAIN queue' : Turn(p)' <= Latest(queue[p])'
    BY <2>3 DEF TurnsSound, Turn, Latest
  <2>7. QED
    BY <2>1, <2>3, <2>4, <2>5, <2>6 DEF TurnsSound
<1>5. CASE Quiet
  <2>1. UNCHANGED <<now, nextAllowed, holder, queue, granted>>
    BY <1>5 DEF Quiet
  <2>2. \A id \in Calls : call[id].at \in {"queued", "pausing"} => Latest(id)' = Latest(id)
    BY <1>5 DEF Quiet, Latest
  <2>3. \A p \in DOMAIN queue : queue[p] \in Calls /\ call[queue[p]].at = "queued"
    BY <1>1, <1>2 DEF LockSound
  <2>4. ASSUME NEW p \in DOMAIN queue' PROVE Turn(p)' <= Latest(queue[p])'
    <3>1. Turn(p)' = Turn(p)
      BY <2>1 DEF Turn
    <3>2. Latest(queue[p])' = Latest(queue[p])
      <4>1. PICK id \in Calls : id = queue[p] /\ call[id].at = "queued"
        BY <2>1, <2>3
      <4>2. Latest(queue[p])' = Latest(id)'
        BY <2>1, <4>1 DEF Latest
      <4>3. QED
        BY <2>2, <4>1, <4>2
    <3>3. QED
      BY <2>1, <3>1, <3>2 DEF TurnsSound
  <2>5. ASSUME holder' # Nobody
        PROVE  now' <= nextAllowed' + Lag /\ nextAllowed' + Lag <= Latest(holder)'
    <3>1. PICK id \in Calls : id = holder /\ call[id].at = "pausing"
      BY <1>1, <1>2, <2>1, <2>5 DEF LockSound
    <3>2. Latest(holder)' = Latest(id)'
      BY <2>1, <3>1 DEF Latest
    <3>3. QED
      BY <2>1, <2>2, <2>5, <3>1, <3>2 DEF TurnsSound
  <2>6. \A id \in Calls : call'[id].at = "queued" => \E p \in DOMAIN queue' : queue'[p] = id
    BY <1>5, <2>1 DEF Quiet, TurnsSound
  <2>7. QED
    BY <2>1, <2>4, <2>5, <2>6 DEF TurnsSound
<1>6. QED
  BY <1>1, <1>3, <1>4, <1>5, QuietSteps

LEMMA TurnsImplyInTime == Inductive /\ TurnsSound => LetThroughInTime
<1> SUFFICES ASSUME Inductive, TurnsSound, NEW id \in Calls, call[id].at \in {"queued", "pausing"}
             PROVE  now <= Latest(id)
  BY DEF LetThroughInTime, Latest, K
<1>1. TypeOK /\ LockSound /\ ClocksSound
  BY DEF Inductive
<1>2. /\ now \in Nat /\ nextAllowed \in Nat /\ granted \in Int /\ Latest(id) \in Nat
      /\ queue \in Seq(Calls)
  BY <1>1, WaitTypes
<1>3. CASE call[id].at = "pausing"
  <2>1. holder = id /\ holder # Nobody
    BY <1>1, <1>3, NobodyIsNoCall DEF LockSound
  <2>2. QED
    BY <1>2, <2>1 DEF TurnsSound
<1>4. CASE call[id].at = "queued"
  <2>1. PICK p \in DOMAIN queue : queue[p] = id
    BY <1>4 DEF TurnsSound
  <2>2. Turn(p) <= Latest(id) /\ Turn(p) \in Nat /\ p \in Nat \ {0}
    BY <1>1, <2>1, WaitTypes DEF TurnsSound
  <2>3. p * K \in Nat /\ (p - 1) * K \in Nat
    BY <2>2, KType
  <2>4. nextAllowed + Lag <= Turn(p)
    BY <1>2, <2>3 DEF Turn
  <2>5. now <= nextAllowed + Lag
    <3>1. CASE holder # Nobody
      BY <3>1 DEF TurnsSound
    <3>2. CASE holder = Nobody
      <4>1. queue # <<>> /\ now = granted
        BY <1>2, <2>1, <3>2 DEF TurnsSound
      <4>2. Interval # 0 /\ nextAllowed = granted + Interval
        BY <1>1, <4>1 DEF LockSound, ClocksSound
      <4>3. QED
        BY <1>2, <4>1, <4>2
    <3>3. QED
      BY <3>1, <3>2
  <2>6. QED
    BY <1>2, <2>2, <2>4, <2>5
<1>5. QED
  BY <1>3, <1>4

\* However many calls queue at the limiter and however late its timers are, a
\* call is let through one interval and one late timer per call ahead of it
\* and for itself, after it asked.
THEOREM CallsAreLetThrough == Spec => []LetThroughInTime
<1>1. Init => TurnsSound
  BY InitTurns
<1>2. Inductive /\ TurnsSound /\ [Next]_vars => TurnsSound'
  BY TurnsStep
<1>3. Inductive /\ TurnsSound => LetThroughInTime
  BY TurnsImplyInTime
<1>4. QED
  BY <1>1, <1>2, <1>3, InductiveInvariant, PTL DEF Spec

-----------------------------------------------------------------------------
(* The calls under way *)

UnderWay == {id \in Calls : call[id].at \in Running}

\* The calls under way that were let through no sooner than this one.
Since(id) == {other \in UnderWay : call[other].deadline >= call[id].deadline}

\* A deadline says when its call was let through, so the calls let through
\* since a call are spaced over the time from its start to the last grant.
SpacingSound ==
  /\ IsFiniteSet(UnderWay)
  /\ \A id \in UnderWay :
       /\ call[id].deadline <= granted + Timeout
       /\ now <= call[id].deadline + Lag
       /\ (Cardinality(Since(id)) - 1) * Interval <= granted + Timeout - call[id].deadline

LEMMA IntervalProduct ==
  /\ \A m \in Int : m * Interval \in Int /\ (m + 1) * Interval = m * Interval + Interval
  /\ \A m, n \in Int : m <= n => m * Interval <= n * Interval
<1>1. ASSUME NEW m \in Int
      PROVE  m * Interval \in Int /\ (m + 1) * Interval = m * Interval + Interval
  OBVIOUS
<1>2. ASSUME NEW m \in Int, NEW n \in Int, m <= n
      PROVE  m * Interval <= n * Interval
  <2>1. PICK d \in Nat : n = m + d
    <3>1. n - m \in Nat /\ n = m + (n - m)
      BY <1>2
    <3>2. QED
      BY <3>1
  <2>2. d * Interval \in Nat /\ m * Interval \in Int /\ (m + d) * Interval = m * Interval + d * Interval
    OBVIOUS
  <2>3. QED
    BY <2>1, <2>2
<1>3. QED
  BY <1>1, <1>2

LEMMA SpacingTypes ==
  ASSUME TypeOK
  PROVE  /\ \A id \in Calls : call[id].deadline \in Nat
         /\ now \in Nat /\ granted \in Int
BY DEF TypeOK, CallRecord

LEMMA SinceType ==
  ASSUME IsFiniteSet(UnderWay), NEW id \in Calls
  PROVE  IsFiniteSet(Since(id)) /\ Cardinality(Since(id)) \in Nat
BY FS_Subset, FS_CardinalityType DEF Since

LEMMA InitSpacing == Init => SpacingSound
<1> SUFFICES ASSUME Init PROVE SpacingSound
  OBVIOUS
<1>1. UnderWay = {}
  BY DEF Init, UnderWay, NoCall, Running
<1>2. QED
  BY <1>1, FS_EmptySet DEF SpacingSound

LEMMA PassesSpacing ==
  ASSUME TypeOK, TypeOK', LockSound, ClocksSound, SpacingSound, NEW id \in Calls, Passes(id)
  PROVE  SpacingSound'
<1>1. /\ call[id].at \in Waiting /\ call'[id].at \in {"sent", "failed"}
      /\ call'[id].at = "sent" => call'[id].deadline = now + Timeout
      /\ \A other \in Calls \ {id} : call'[other] = call[other]
      /\ granted' = now /\ now' = now
      /\ Interval # 0 => now >= nextAllowed
  BY DEF Passes
<1>2. /\ now \in Nat /\ granted \in Int /\ granted + Interval <= now
      /\ \A other \in Calls : call[other].deadline \in Nat /\ call'[other].deadline \in Nat
  <2>1. now \in Nat /\ granted \in Int /\ nextAllowed \in Nat
    BY DEF TypeOK
  <2>2. granted + Interval <= now
    BY <1>1, <2>1 DEF ClocksSound
  <2>3. \A other \in Calls : call[other].deadline \in Nat /\ call'[other].deadline \in Nat
    BY DEF TypeOK, CallRecord
  <2>4. QED
    BY <2>1, <2>2, <2>3
<1>3. id \notin UnderWay
  BY <1>1 DEF UnderWay, Waiting, Running
<1>4. CASE call'[id].at = "failed"
  <2>1. UnderWay' = UnderWay
    BY <1>1, <1>3, <1>4 DEF UnderWay, Running
  <2>2. ASSUME NEW other \in UnderWay'
        PROVE  /\ call'[other].deadline <= granted' + Timeout
               /\ now' <= call'[other].deadline + Lag
               /\ (Cardinality(Since(other)') - 1) * Interval <= granted' + Timeout - call'[other].deadline
    <3>1. other \in UnderWay /\ other \in Calls \ {id} /\ call'[other] = call[other]
      BY <1>1, <1>3, <2>1 DEF UnderWay
    <3>2. Since(other)' = Since(other)
      BY <1>1, <1>3, <2>1, <3>1 DEF Since, UnderWay
    <3>3. (Cardinality(Since(other)) - 1) * Interval \in Int
      BY <3>1, SinceType, IntervalProduct DEF SpacingSound
    <3>4. granted <= now
      BY DEF ClocksSound
    <3>5. QED
      BY <1>1, <1>2, <3>1, <3>2, <3>3, <3>4 DEF SpacingSound
  <2>3. QED
    BY <2>1, <2>2 DEF SpacingSound
<1>5. CASE call'[id].at = "sent"
  <2>1. UnderWay' = UnderWay \cup {id}
    BY <1>1, <1>5 DEF UnderWay, Running
  <2>2. IsFiniteSet(UnderWay')
    BY <2>1, FS_AddElement DEF SpacingSound
  <2>3. ASSUME NEW other \in UnderWay
        PROVE  /\ call'[other].deadline <= granted' + Timeout
               /\ now' <= call'[other].deadline + Lag
               /\ (Cardinality(Since(other)') - 1) * Interval <= granted' + Timeout - call'[other].deadline
    <3>1. other \in Calls \ {id} /\ call'[other] = call[other]
      BY <1>1, <1>3 DEF UnderWay
    <3>2. call[other].deadline <= granted + Timeout
      BY DEF SpacingSound
    <3>3. Since(other)' = Since(other) \cup {id}
      <4>1. call'[id].deadline >= call'[other].deadline
        BY <1>1, <1>2, <1>5, <3>1, <3>2
      <4>2. \A third \in UnderWay : third \in Calls \ {id} /\ call'[third] = call[third]
        BY <1>1, <1>3 DEF UnderWay
      <4>3. QED
        BY <2>1, <3>1, <4>1, <4>2 DEF Since
    <3>4. /\ Cardinality(Since(other)') = Cardinality(Since(other)) + 1
          /\ Cardinality(Since(other)) \in Nat
      <4>1. id \notin Since(other) /\ IsFiniteSet(Since(other)) /\ Cardinality(Since(other)) \in Nat
        BY <1>3, <3>1, SinceType DEF Since, SpacingSound
      <4>2. QED
        BY <3>3, <4>1, FS_AddElement
    <3>5. PICK c \in Int : c = Cardinality(Since(other)) - 1
      BY <3>4
    <3>6. c * Interval <= granted + Timeout - call[other].deadline
      BY <3>5 DEF SpacingSound
    <3>7. c * Interval \in Int /\ (c + 1) * Interval = c * Interval + Interval
      BY IntervalProduct
    <3>8. Cardinality(Since(other)') - 1 = c + 1
      BY <3>4, <3>5
    <3>9. (c + 1) * Interval <= granted' + Timeout - call'[other].deadline
      BY <1>1, <1>2, <3>1, <3>6, <3>7
    <3>10. call'[other].deadline <= granted' + Timeout /\ now' <= call'[other].deadline + Lag
      <4>1. now <= call[other].deadline + Lag
        BY DEF SpacingSound
      <4>2. QED
        BY <1>1, <1>2, <3>1, <3>2, <4>1
    <3>11. QED
      BY <3>8, <3>9, <3>10
  <2>4. /\ call'[id].deadline <= granted' + Timeout
        /\ now' <= call'[id].deadline + Lag
        /\ (Cardinality(Since(id)') - 1) * Interval <= granted' + Timeout - call'[id].deadline
    <3>1. call'[id].deadline = now + Timeout
      BY <1>1, <1>5
    <3>2. IsFiniteSet(Since(id)') /\ Cardinality(Since(id)') \in Nat
      BY <2>2, FS_Subset, FS_CardinalityType DEF Since
    <3>3. (Cardinality(Since(id)') - 1) * Interval <= 0
      <4>1. CASE Interval = 0
        BY <3>2, <4>1
      <4>2. CASE Interval # 0
        <5>1. Since(id)' = {id}
          <6>1. \A other \in UnderWay : call'[other].deadline < call'[id].deadline
            <7> SUFFICES ASSUME NEW other \in UnderWay
                         PROVE  call'[other].deadline < call'[id].deadline
              OBVIOUS
            <7>1. other \in Calls \ {id} /\ call'[other] = call[other]
              BY <1>1, <1>3 DEF UnderWay
            <7>2. call[other].deadline <= granted + Timeout
              BY DEF SpacingSound
            <7>3. QED
              BY <1>2, <3>1, <4>2, <7>1, <7>2
          <6>2. id \in UnderWay' /\ UnderWay \subseteq Calls
            BY <2>1 DEF UnderWay
          <6>3. QED
            BY <1>2, <2>1, <6>1, <6>2 DEF Since
        <5>2. Cardinality(Since(id)') = 1
          BY <5>1, FS_Singleton
        <5>3. QED
          BY <5>2
      <4>3. QED
        BY <4>1, <4>2
    <3>4. QED
      BY <1>1, <1>2, <3>1, <3>3
  <2>5. QED
    BY <2>1, <2>2, <2>3, <2>4 DEF SpacingSound
<1>6. QED
  BY <1>1, <1>4, <1>5

\* A step that lets no call through and keeps the clock.
LEMMA OthersSpacing ==
  ASSUME TypeOK, TypeOK', SpacingSound, UNCHANGED <<now, granted>>,
         \A id \in Calls : call'[id].at \in Running =>
           call[id].at \in Running /\ call'[id].deadline = call[id].deadline
  PROVE  SpacingSound'
<1>1. UnderWay' \subseteq UnderWay /\ UnderWay \subseteq Calls
  BY DEF UnderWay
<1>2. IsFiniteSet(UnderWay') /\ IsFiniteSet(UnderWay)
  BY <1>1, FS_Subset DEF SpacingSound
<1>3. ASSUME NEW id \in UnderWay'
      PROVE  /\ call'[id].deadline <= granted' + Timeout
             /\ now' <= call'[id].deadline + Lag
             /\ (Cardinality(Since(id)') - 1) * Interval <= granted' + Timeout - call'[id].deadline
  <2>1. id \in UnderWay /\ id \in Calls /\ call'[id].deadline = call[id].deadline
    BY <1>1 DEF UnderWay
  <2>2. Since(id)' \subseteq Since(id)
    BY <1>1, <2>1 DEF Since, UnderWay
  <2>3. /\ IsFiniteSet(Since(id)) /\ Cardinality(Since(id)) \in Nat
        /\ Cardinality(Since(id)') \in Nat /\ Cardinality(Since(id)') <= Cardinality(Since(id))
    <3>1. IsFiniteSet(Since(id)) /\ Cardinality(Since(id)) \in Nat
      BY <1>2, <2>1, SinceType
    <3>2. QED
      BY <2>2, <3>1, FS_Subset, FS_CardinalityType
  <2>4. PICK m \in Int, n \in Int : /\ m = Cardinality(Since(id)') - 1
                                    /\ n = Cardinality(Since(id)) - 1 /\ m <= n
    BY <2>3
  <2>5. m * Interval <= n * Interval /\ m * Interval \in Int /\ n * Interval \in Int
    BY <2>4, IntervalProduct
  <2>6. n * Interval <= granted + Timeout - call[id].deadline
    BY <2>1, <2>4 DEF SpacingSound
  <2>7. m * Interval <= granted' + Timeout - call'[id].deadline
    BY <2>1, <2>5, <2>6, SpacingTypes
  <2>8. QED
    BY <2>1, <2>4, <2>7 DEF SpacingSound
<1>4. QED
  BY <1>2, <1>3 DEF SpacingSound

LEMMA SpacingStep ==
  Inductive /\ SpacingSound /\ [Next]_vars => SpacingSound'
<1> SUFFICES ASSUME Inductive, SpacingSound, [Next]_vars PROVE SpacingSound'
  OBVIOUS
<1>1. TypeOK /\ LockSound /\ ClocksSound /\ OrderSound /\ TypeOK'
  BY NextInductive DEF Inductive
<1>2. ASSUME NEW id \in Calls, Acquire(id) \/ TakeLock(id) \/ Wake(id) PROVE SpacingSound'
  <2>1. LimiterStep(id)
    BY <1>1, <1>2, LimiterSteps
  <2>2. CASE Passes(id)
    BY <1>1, <2>2, PassesSpacing
  <2>3. CASE ~Passes(id)
    <3>1. /\ UNCHANGED <<now, granted>>
          /\ call'[id].at \in {"queued", "pausing"}
          /\ \A other \in Calls \ {id} : call'[other] = call[other]
      BY <2>1, <2>3 DEF LimiterStep, Joins, Pauses
    <3>2. \A other \in Calls : call'[other].at \in Running =>
            call[other].at \in Running /\ call'[other].deadline = call[other].deadline
      BY <3>1 DEF Running
    <3>3. QED
      BY <1>1, <3>1, <3>2, OthersSpacing
  <2>4. QED
    BY <2>2, <2>3
<1>3. CASE Tick
  <2>1. now' = now + 1 /\ UNCHANGED <<granted, call>>
    BY <1>3 DEF Tick
  <2>2. UnderWay' = UnderWay /\ \A id \in UnderWay : Since(id)' = Since(id)
    BY <2>1 DEF UnderWay, Since
  <2>3. ASSUME NEW id \in UnderWay PROVE now + 1 <= call[id].deadline + Lag
    <3>1. id \in Calls /\ call[id].at \in Running
      BY DEF UnderWay
    <3>2. ~(now >= call[id].deadline + Lag)
      BY <1>3, <3>1 DEF Tick, Overdue
    <3>3. QED
      BY <1>1, <3>1, <3>2, SpacingTypes
  <2>4. QED
    BY <2>1, <2>2, <2>3 DEF SpacingSound
<1>4. CASE Quiet
  <2>1. /\ UNCHANGED <<now, granted>>
        /\ \A id \in Calls : call'[id].at \in Running =>
             call[id].at \in Running /\ call'[id].deadline = call[id].deadline
    BY <1>4 DEF Quiet
  <2>2. QED
    BY <1>1, <2>1, OthersSpacing
<1>5. QED
  BY <1>1, <1>2, <1>3, <1>4, QuietSteps

LEMMA SpacingImpliesBound == Inductive /\ SpacingSound => CallsUnderWayBounded
<1> SUFFICES ASSUME Inductive, SpacingSound, UnderWay # {}
             PROVE  (Cardinality(UnderWay) - 1) * Interval <= Timeout + Lag
  BY DEF CallsUnderWayBounded, UnderWay
<1>1. TypeOK /\ ClocksSound
  BY DEF Inductive
<1>2. /\ now \in Nat /\ granted \in Int /\ granted <= now
      /\ \A id \in UnderWay : id \in Calls /\ call[id].deadline \in Nat
  BY <1>1, SpacingTypes DEF ClocksSound, UnderWay
<1> DEFINE deadlines == {call[id].deadline : id \in UnderWay}
<1>3. deadlines \subseteq Nat /\ deadlines # {}
  BY <1>2
<1>4. PICK first \in deadlines : \A d \in deadlines : first <= d
  <2> HIDE DEF deadlines
  <2> QED BY <1>3, LeastNat
<1>5. PICK id \in UnderWay : first = call[id].deadline
  BY <1>4
<1>6. Since(id) = UnderWay
  BY <1>2, <1>4, <1>5 DEF Since
<1>7. (Cardinality(UnderWay) - 1) * Interval <= granted + Timeout - call[id].deadline
  BY <1>6 DEF SpacingSound
<1>8. (Cardinality(UnderWay) - 1) * Interval \in Int
  <2>1. Cardinality(UnderWay) \in Nat
    BY FS_CardinalityType DEF SpacingSound
  <2>2. QED
    BY <2>1, IntervalProduct
<1>9. now <= call[id].deadline + Lag
  BY DEF SpacingSound
<1>10. QED
  BY <1>2, <1>5, <1>7, <1>8, <1>9

\* However many searches ask, the calls of a source under way at a time are
\* at most as many as the interval fits into a timeout and a late timer.
THEOREM CallsAreBounded == Spec => []CallsUnderWayBounded
<1>1. Init => SpacingSound
  BY InitSpacing
<1>2. Inductive /\ SpacingSound /\ [Next]_vars => SpacingSound'
  BY SpacingStep
<1>3. Inductive /\ SpacingSound => CallsUnderWayBounded
  BY SpacingImpliesBound
<1>4. QED
  BY <1>1, <1>2, <1>3, InductiveInvariant, PTL DEF Spec

-----------------------------------------------------------------------------
(* Backing off *)

\* The delays before the attempts up to the k-th, as far as they are needed.
SumsUpTo(sums, k) ==
  /\ sums \in [0 .. k -> Int]
  /\ \A n \in 0 .. k : sums[n] = IF n <= 1 THEN 0 ELSE sums[n - 1] + Delay(n - 2)

LEMMA SumsExist == \A k \in Nat : \E g : SumsUpTo(g, k)
<1> DEFINE bad == {k \in Nat : ~\E g : SumsUpTo(g, k)}
<1>1. SUFFICES ASSUME bad # {} PROVE FALSE
  OBVIOUS
<1>2. PICK k \in bad : \A j \in bad : k <= j
  <2> HIDE DEF bad
  <2>1. bad \subseteq Nat
    BY DEF bad
  <2> QED BY <1>1, <2>1, LeastNat
<1>3. CASE k = 0
  <2>1. SumsUpTo([n \in 0 .. 0 |-> 0], 0)
    BY DEF SumsUpTo
  <2>2. QED
    BY <1>2, <1>3, <2>1
<1>4. CASE k # 0
  <2>1. k \in Nat /\ k - 1 \in Nat /\ k - 1 \notin bad
    BY <1>2, <1>4
  <2>2. PICK g : SumsUpTo(g, k - 1)
    BY <2>1
  <2> DEFINE h == [n \in 0 .. k |-> IF n < k THEN g[n] ELSE IF k = 1 THEN 0 ELSE g[k - 1] + Delay(k - 2)]
  <2>3. g \in [0 .. k - 1 -> Int] /\ \A n \in 0 .. k - 1 : g[n] = IF n <= 1 THEN 0 ELSE g[n - 1] + Delay(n - 2)
    BY <2>2 DEF SumsUpTo
  <2>4. k # 1 => g[k - 1] + Delay(k - 2) \in Int
    <3>1. k # 1 => k - 2 \in Nat /\ k - 1 \in 0 .. k - 1
      BY <2>1
    <3>2. QED
      BY <2>3, <3>1, DelayType
  <2>5. h \in [0 .. k -> Int]
    BY <2>1, <2>3, <2>4
  <2>6. ASSUME NEW n \in 0 .. k PROVE h[n] = IF n <= 1 THEN 0 ELSE h[n - 1] + Delay(n - 2)
    BY <2>1, <2>3
  <2>7. SumsUpTo(h, k)
    <3> HIDE DEF h
    <3> QED BY <2>5, <2>6 DEF SumsUpTo
  <2>8. QED
    BY <1>2, <2>7
<1>5. QED
  BY <1>3, <1>4

\* They are the same wherever they end.
LEMMA SumsAgree ==
  ASSUME NEW j \in Nat, NEW k \in Nat, j <= k, NEW g, SumsUpTo(g, j), NEW h, SumsUpTo(h, k)
  PROVE  \A n \in 0 .. j : g[n] = h[n]
<1> DEFINE bad == {n \in 0 .. j : g[n] # h[n]}
<1>1. SUFFICES ASSUME bad # {} PROVE FALSE
  OBVIOUS
<1>2. PICK n \in bad : \A m \in bad : n <= m
  <2>1. bad \subseteq Nat
    OBVIOUS
  <2> HIDE DEF bad
  <2> QED BY <1>1, <2>1, LeastNat
<1>3. n \in 0 .. j /\ n \in 0 .. k /\ g[n] # h[n]
  OBVIOUS
<1>4. n > 1
  BY <1>3 DEF SumsUpTo
<1>5. n - 1 \in 0 .. j /\ n - 1 \notin bad
  BY <1>2, <1>3, <1>4
<1>6. g[n - 1] = h[n - 1]
  BY <1>5
<1>7. QED
  BY <1>3, <1>4, <1>6 DEF SumsUpTo

\* The recursive definition means what it says.
LEMMA BackoffDef ==
  /\ Backoff \in [Nat -> Int]
  /\ \A n \in Nat : Backoff[n] = IF n <= 1 THEN 0 ELSE Backoff[n - 1] + Delay(n - 2)
<1> DEFINE Sum(k) == CHOOSE g : SumsUpTo(g, k)
           f == [n \in Nat |-> Sum(n)[n]]
<1>1. \A k \in Nat : SumsUpTo(Sum(k), k)
  BY SumsExist
<1> HIDE DEF Sum
<1>2. ASSUME NEW n \in Nat
      PROVE  /\ Sum(n)[n] \in Int
             /\ Sum(n)[n] = IF n <= 1 THEN 0 ELSE Sum(n)[n - 1] + Delay(n - 2)
  <2>1. SumsUpTo(Sum(n), n) /\ n \in 0 .. n
    BY <1>1
  <2>2. QED
    BY <2>1 DEF SumsUpTo
<1>3. ASSUME NEW n \in Nat PROVE f[n] = IF n <= 1 THEN 0 ELSE f[n - 1] + Delay(n - 2)
  <2>1. CASE n <= 1
    BY <1>2, <2>1
  <2>2. CASE ~(n <= 1)
    <3>1. n - 1 \in Nat /\ n - 1 <= n /\ n - 1 \in 0 .. n - 1
      BY <2>2
    <3>2. Sum(n - 1)[n - 1] = Sum(n)[n - 1]
      BY <1>1, <3>1, SumsAgree
    <3>3. QED
      BY <1>2, <2>2, <3>1, <3>2
  <2>3. QED
    BY <2>1, <2>2
<1>4. f \in [Nat -> Int]
  BY <1>2
<1> HIDE DEF f
<1>5. Backoff = [n \in Nat |-> IF n <= 1 THEN 0 ELSE Backoff[n - 1] + Delay(n - 2)]
  <2>1. f = [n \in Nat |-> IF n <= 1 THEN 0 ELSE f[n - 1] + Delay(n - 2)]
    BY <1>3, <1>4
  <2>2. QED
    BY <2>1 DEF Backoff
<1>6. \A n \in Nat : Backoff[n] = IF n <= 1 THEN 0 ELSE Backoff[n - 1] + Delay(n - 2)
  BY <1>5
<1>7. \A n \in Nat : Backoff[n] = f[n]
  <2> DEFINE bad == {n \in Nat : Backoff[n] # f[n]}
  <2>1. SUFFICES ASSUME bad # {} PROVE FALSE
    OBVIOUS
  <2>2. PICK n \in bad : \A m \in bad : n <= m
    <3>1. bad \subseteq Nat
      OBVIOUS
    <3> HIDE DEF bad
    <3> QED BY <2>1, <3>1, LeastNat
  <2>3. n \in Nat /\ Backoff[n] # f[n]
    OBVIOUS
  <2>4. n > 1 /\ n - 1 \in Nat
    BY <1>3, <1>6, <2>3
  <2>5. Backoff[n - 1] = f[n - 1]
    BY <2>2, <2>4
  <2>6. QED
    BY <1>3, <1>6, <2>3, <2>4, <2>5
<1>8. QED
  BY <1>4, <1>5, <1>6, <1>7

\* A request is sent again, or about to be, no sooner than its delays allow;
\* its deadline tells when the first one was sent.
BacksOff ==
  \A id \in Calls :
    /\ call[id].at \in Running => call[id].attempts >= 1
    /\ call[id].at = "sent" =>
         now >= (call[id].deadline - Timeout) + Backoff[call[id].attempts]
    /\ call[id].at = "backoff" =>
         call[id].due >= (call[id].deadline - Timeout) + Backoff[call[id].attempts + 1]

LEMMA InitBacksOff == Init => BacksOff
BY DEF Init, BacksOff, NoCall, Running

\* What a step must say about a call for it to keep backing off.
Unhurried(id) ==
  \/ call'[id] = call[id]
  \/ call'[id].at \notin Running
  \/ call'[id].at = "sent" /\ call'[id].attempts = 1 /\ call'[id].deadline = now + Timeout
  \/ /\ call[id].at = "sent" /\ call'[id].at = "backoff"
     /\ call'[id].due = now + Delay(call[id].attempts - 1)
     /\ call'[id].attempts = call[id].attempts /\ call'[id].deadline = call[id].deadline
  \/ /\ call[id].at = "backoff" /\ now >= call[id].due /\ call'[id].at = "sent"
     /\ call'[id].attempts = call[id].attempts + 1 /\ call'[id].deadline = call[id].deadline

LEMMA UnhurriedBacksOff ==
  ASSUME TypeOK, BacksOff, now' >= now, now' \in Nat, \A id \in Calls : Unhurried(id)
  PROVE  BacksOff'
<1> SUFFICES ASSUME NEW id \in Calls
             PROVE  /\ call'[id].at \in Running => call'[id].attempts >= 1
                    /\ call'[id].at = "sent" =>
                         now' >= (call'[id].deadline - Timeout) + Backoff[call'[id].attempts]
                    /\ call'[id].at = "backoff" =>
                         call'[id].due >= (call'[id].deadline - Timeout)
                                          + Backoff[call'[id].attempts + 1]
  BY DEF BacksOff
<1>1. /\ now \in Nat /\ call[id].due \in Int /\ call[id].deadline \in Nat
      /\ call[id].attempts \in Nat
  BY DEF TypeOK, CallRecord
<1>2. /\ Backoff[1] = 0 /\ \A n \in Nat : Backoff[n] \in Int
      /\ \A n \in Nat : n >= 1 => Backoff[n + 1] = Backoff[n] + Delay(n - 1)
  <2>1. ASSUME NEW n \in Nat, n >= 1 PROVE Backoff[n + 1] = Backoff[n] + Delay(n - 1)
    <3>1. n + 1 \in Nat /\ ~(n + 1 <= 1) /\ (n + 1) - 1 = n /\ (n + 1) - 2 = n - 1
      BY <2>1
    <3>2. QED
      BY <3>1, BackoffDef
  <2>2. QED
    BY <2>1, BackoffDef
<1>3. CASE call'[id] = call[id]
  <2>1. \A n \in Nat : Backoff[n] \in Int
    BY <1>2
  <2>2. call[id].at = "sent" => now >= (call[id].deadline - Timeout) + Backoff[call[id].attempts]
    BY DEF BacksOff
  <2>3. QED
    BY <1>1, <1>3, <2>1, <2>2 DEF BacksOff
<1>4. CASE call'[id].at \notin Running
  BY <1>4 DEF Running
<1>5. CASE call'[id].at = "sent" /\ call'[id].attempts = 1 /\ call'[id].deadline = now + Timeout
  BY <1>1, <1>2, <1>5
<1>6. CASE /\ call[id].at = "sent" /\ call'[id].at = "backoff"
           /\ call'[id].due = now + Delay(call[id].attempts - 1)
           /\ call'[id].attempts = call[id].attempts /\ call'[id].deadline = call[id].deadline
  <2>1. call[id].attempts >= 1 /\ now >= (call[id].deadline - Timeout) + Backoff[call[id].attempts]
    BY <1>6 DEF BacksOff, Running
  <2>2. Delay(call[id].attempts - 1) \in Int
    BY <1>1, <2>1, DelayType
  <2>3. QED
    BY <1>1, <1>2, <1>6, <2>1, <2>2
<1>7. CASE /\ call[id].at = "backoff" /\ now >= call[id].due /\ call'[id].at = "sent"
           /\ call'[id].attempts = call[id].attempts + 1 /\ call'[id].deadline = call[id].deadline
  <2>1. /\ call[id].attempts >= 1
        /\ call[id].due >= (call[id].deadline - Timeout) + Backoff[call[id].attempts + 1]
    BY <1>7 DEF BacksOff, Running
  <2>2. call[id].attempts + 1 \in Nat
    BY <1>1
  <2>3. Backoff[call[id].attempts + 1] \in Int
    BY <1>2, <2>2
  <2>4. QED
    BY <1>1, <1>7, <2>1, <2>2, <2>3
<1>8. QED
  BY <1>3, <1>4, <1>5, <1>6, <1>7 DEF Unhurried

LEMMA BackoffStep ==
  Inductive /\ BacksOff /\ [Next]_vars => BacksOff'
<1> SUFFICES ASSUME Inductive, BacksOff, [Next]_vars PROVE BacksOff'
  OBVIOUS
<1>1. TypeOK /\ OrderSound /\ TypeOK' /\ call \in [Calls -> CallRecord] /\ now \in Nat
  BY NextInductive DEF Inductive, TypeOK
<1>2. ASSUME NEW id \in Calls, CallStep(id) PROVE BacksOff'
  <2>1. \A other \in Calls \ {id} : call'[other] = call[other]
    <3>1. CASE Acquire(id)
      BY <1>1, <3>1 DEF Acquire, Granted, EnterLock
    <3>2. CASE TakeLock(id)
      BY <1>1, <3>2 DEF TakeLock, Granted, EnterLock
    <3>3. CASE Wake(id)
      BY <1>1, <3>3 DEF Wake, Granted
    <3>4. CASE AnswerDetail(id) \/ FailForGood(id) \/ FailAttempt(id) \/ Retry(id) \/ Expire(id)
      BY <1>1, <3>4 DEF AnswerDetail, FailForGood, FailAttempt, Retry, Expire, Fail
    <3>5. QED
      BY <1>2, <3>1, <3>2, <3>3, <3>4 DEF CallStep
  <2>2. Unhurried(id)
    <3>1. ASSUME Granted(id) PROVE Unhurried(id)
      BY <1>1, <3>1 DEF Granted, NoCall, Unhurried, Running
    <3>2. ASSUME NEW asked \in CallRecord, NEW t,
                 call' = [call EXCEPT ![id] = [asked EXCEPT !.at = "pausing", !.due = t]]
          PROVE  Unhurried(id)
      BY <1>1, <3>2 DEF Unhurried, Running, CallRecord
    <3>3. CASE Acquire(id)
      <4> DEFINE asked == [call[id] EXCEPT !.arrived = now, !.ahead = Ahead]
      <4>1. asked \in CallRecord
        BY <1>1, <3>3, AskedType DEF Acquire
      <4>2. CASE call' = [call EXCEPT ![id] = [asked EXCEPT !.at = "queued"]]
        <5> HIDE DEF asked
        <5> QED BY <1>1, <4>1, <4>2 DEF Unhurried, Running, CallRecord
      <4>3. CASE EnterLock(id, asked)
        <5> HIDE DEF asked
        <5> QED BY <3>1, <3>2, <4>1, <4>3 DEF EnterLock
      <4>4. CASE Granted(id)
        BY <3>1, <4>4
      <4>5. QED
        BY <3>3, <4>2, <4>3, <4>4 DEF Acquire
    <3>4. CASE TakeLock(id)
      BY <1>1, <3>1, <3>2, <3>4 DEF TakeLock, EnterLock
    <3>5. CASE Wake(id)
      BY <3>1, <3>5 DEF Wake
    <3>6. CASE AnswerDetail(id) \/ FailForGood(id) \/ Expire(id) \/ (FailAttempt(id) /\ call' = Fail(id))
      BY <1>1, <3>6
         DEF AnswerDetail, FailForGood, Expire, Fail, NoCall, Unhurried, Running
    <3>7. CASE FailAttempt(id) /\ call' # Fail(id)
      BY <1>1, <3>7 DEF FailAttempt, Unhurried, CallRecord
    <3>8. CASE Retry(id)
      BY <1>1, <3>8 DEF Retry, Unhurried, CallRecord
    <3>9. QED
      BY <1>2, <3>3, <3>4, <3>5, <3>6, <3>7, <3>8 DEF CallStep
  <2>3. now' = now
    BY <1>2 DEF CallStep, Acquire, TakeLock, Wake, AnswerDetail, FailForGood, FailAttempt,
                Retry, Expire
  <2>4. \A other \in Calls : Unhurried(other)
    BY <2>1, <2>2 DEF Unhurried
  <2>5. QED
    BY <1>1, <2>3, <2>4, UnhurriedBacksOff
<1>3. ASSUME NEW c \in Collectors, CollectorStep(c) PROVE BacksOff'
  <2>1. now' = now
    BY <1>3 DEF CollectorStep, Start, Finish, AnswerSearch
  <2>2. CASE Start(c)
    <3>1. \A other \in Calls : Unhurried(other)
      BY <1>1, <2>2, SearchIsCall DEF Start, Unhurried, Running, CallRecord
    <3>2. QED
      BY <1>1, <2>1, <3>1, UnhurriedBacksOff
  <2>3. CASE Finish(c)
    <3>1. \A other \in Calls : Unhurried(other)
      BY <2>3 DEF Finish, Unhurried
    <3>2. QED
      BY <1>1, <2>1, <3>1, UnhurriedBacksOff
  <2>4. ASSUME NEW n \in 0 .. MaxDetails, AnswerSearch(c, n) PROVE BacksOff'
    <3>1. \A other \in Calls : Unhurried(other)
      BY <1>1, <2>4 DEF AnswerSearch, WithDetails, NoCall, Unhurried, Running
    <3>2. QED
      BY <1>1, <2>1, <3>1, UnhurriedBacksOff
  <2>5. QED
    BY <1>3, <2>2, <2>3, <2>4 DEF CollectorStep
<1>4. CASE Tick
  <2>1. now' = now + 1 /\ \A id \in Calls : Unhurried(id)
    BY <1>4 DEF Tick, Unhurried
  <2>2. QED
    BY <1>1, <2>1, UnhurriedBacksOff
<1>5. CASE UNCHANGED vars
  <2>1. now' = now /\ \A id \in Calls : Unhurried(id)
    BY <1>5 DEF vars, Unhurried
  <2>2. QED
    BY <1>1, <2>1, UnhurriedBacksOff
<1>6. QED
  BY <1>2, <1>3, <1>4, <1>5 DEF Next

\* Whatever a source does, the n-th attempt of a call comes no sooner than the
\* growing delays before it after its first.
THEOREM AttemptsAreApart == Spec => []AttemptsBackOff
<1>1. BacksOff => AttemptsBackOff
  BY DEF BacksOff, AttemptsBackOff
<1>2. QED
  BY <1>1, InitBacksOff, BackoffStep, InductiveInvariant, PTL DEF Spec
=============================================================================
