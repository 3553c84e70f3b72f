---------------------------- MODULE SourceHealth ----------------------------
(***************************************************************************)
(* The health record that SourceHealthTracker keeps for one marketplace,   *)
(* and what each of its methods does to it.  Every method takes the lock   *)
(* of its source and awaits nothing while it holds it, so a call is one    *)
(* atomic step for the asyncio tasks that share the tracker: the modules   *)
(* that use these operators apply each of them in a single action.         *)
(*                                                                         *)
(* Response-time averages, error texts and the last_success timestamp are  *)
(* reporting only and are left out.  Time is a positive integer.           *)
(***************************************************************************)
EXTENDS Integers

CONSTANTS FailureThreshold,   \* failures in a row that open the breaker
          CooldownSeconds     \* how long the breaker then stays open

ASSUME ThresholdAssumption == FailureThreshold \in Nat \ {0}
ASSUME CooldownAssumption  == CooldownSeconds \in Nat

NotDisabled == 0              \* temporary_disabled_until is None

HealthRecord == [failure_count : Nat, temporary_disabled_until : Nat]

NewRecord == [failure_count |-> 0, temporary_disabled_until |-> NotDisabled]

\* The circuit breaker of the source is open: requests are refused.
Open(record, now) == record.temporary_disabled_until > now

\* Mutant: the next request forgets the failures whether or not the cooldown
\* is over.
ReleasedEarly(record, now) ==
  IF record.temporary_disabled_until # NotDisabled THEN NewRecord ELSE record

\* What can_request leaves behind: a cooldown that is over is forgotten,
\* together with the failures that caused it.
Released(record, now) ==
  IF /\ record.temporary_disabled_until # NotDisabled
     /\ record.temporary_disabled_until <= now
    THEN NewRecord
    ELSE record

CanRequest(record, now) == ~Open(Released(record, now), now)

\* Mutant: a success resets the count but leaves the source disabled.
AfterSuccessStillDisabled(record) == [record EXCEPT !.failure_count = 0]

\* Mutant: a success takes back one failure instead of all.
AfterSuccessTakesOneBack(record) ==
  [failure_count |-> record.failure_count - 1, temporary_disabled_until |-> NotDisabled]

AfterSuccess(record) == NewRecord

AfterFailure(record, now) ==
  LET count == record.failure_count + 1
  IN  [failure_count |-> count,
       temporary_disabled_until |->
         IF count >= FailureThreshold
           THEN now + CooldownSeconds
           ELSE record.temporary_disabled_until]

\* The state reported by status(): an open breaker overrides the caller's.
ReportedState(record, now, state) ==
  IF Open(record, now) THEN "rate_limited" ELSE state

\* The source is disabled exactly when its count has reached the threshold,
\* and for at most one cooldown from now.
SoundRecord(record, now) ==
  /\ record.temporary_disabled_until # NotDisabled
       <=> record.failure_count >= FailureThreshold
  /\ record.temporary_disabled_until <= now + CooldownSeconds
=============================================================================
