---------------------------- MODULE RequestPacing ----------------------------
(***************************************************************************)
(* What the rate limiter promises, apart from how it keeps the promise:    *)
(* "Ensure a minimum interval between requests to each source"             *)
(* (collectors/rate_limit.py).  A request asks once and is let through     *)
(* once, never sooner than Interval after the one let through before it.   *)
(***************************************************************************)
EXTENDS Integers

CONSTANTS Requests,  \* the requests of one source that may ask
          Interval   \* the minimum interval, in ticks of the clock

VARIABLES now,      \* the clock
          granted,  \* when the last request was let through
          passed    \* the requests let through so far

Init ==
  /\ now = 0
  /\ granted = -Interval
  /\ passed = {}

Grant(r) ==
  /\ r \notin passed
  /\ now >= granted + Interval
  /\ granted' = now
  /\ passed' = passed \cup {r}
  /\ UNCHANGED now

TimePasses ==
  /\ now' = now + 1
  /\ UNCHANGED <<granted, passed>>

Next == TimePasses \/ \E r \in Requests : Grant(r)

Spec == Init /\ [][Next]_<<now, granted, passed>>
=============================================================================
