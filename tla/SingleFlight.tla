---------------------------- MODULE SingleFlight ----------------------------
(***************************************************************************)
(* What the AI analysis service promises about provider calls, apart from  *)
(* how it keeps the promise: a dataset is sent to the provider only while  *)
(* no result for it is cached, at most once at a time, and only a valid    *)
(* answer to such a call becomes the cached result (docs/architecture.md:  *)
(* "successful results are cached ... identical concurrent requests share  *)
(* one in-flight task").                                                   *)
(***************************************************************************)
CONSTANT Keys

VARIABLES flying,  \* keys whose analysis is under way
          stored   \* keys with a cached result

Init == flying = {} /\ stored = {}

Launch(k) ==
  /\ k \notin flying \cup stored
  /\ flying' = flying \cup {k}
  /\ UNCHANGED stored

Land(k) ==
  /\ k \in flying
  /\ flying' = flying \ {k}
  /\ stored' = stored \cup {k}

Crash(k) ==
  /\ k \in flying
  /\ flying' = flying \ {k}
  /\ UNCHANGED stored

\* A cached result expires or is evicted.
Forget(k) ==
  /\ k \in stored
  /\ stored' = stored \ {k}
  /\ UNCHANGED flying

Next == \E k \in Keys : Launch(k) \/ Land(k) \/ Crash(k) \/ Forget(k)

Spec == Init /\ [][Next]_<<flying, stored>>
=============================================================================
