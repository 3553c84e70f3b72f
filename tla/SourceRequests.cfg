CONSTANTS
  Collectors = {s1, s2}
  MaxDetails = 2
  Interval = 4
  Timeout = 3
  MaxAttempts = 3
  BaseDelay = 1
  MaxDelay = 2
  Lag = 1
  StartBy = 0
  MaxTime = 34
  Nobody = Nobody
SPECIFICATION FairSpec
INVARIANTS
  TypeOK
  LetThroughInTime
  AttemptsBackOff
  CallsUnderWayBounded
PROPERTIES
  PacesRequests
  EverySearchEnds
CHECK_DEADLOCK FALSE
