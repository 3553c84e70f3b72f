CONSTANTS
  Collectors = {s1, s2}
  MaxDetails = 1
  Interval = 2
  Timeout = 6
  MaxAttempts = 2
  BaseDelay = 2
  MaxDelay = 4
  Lag = 1
  StartBy = 0
  MaxTime = 34
  Nobody = Nobody
SPECIFICATION Spec
PROPERTIES
  RequestsSpaced
CHECK_DEADLOCK FALSE
