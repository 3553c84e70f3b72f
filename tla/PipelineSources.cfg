CONSTANTS
  Sources = {s1, s2}
  Requests = {r1}
  Keys = {k1}
  FailureThreshold = 1
  CooldownSeconds = 1
  SourceConcurrency = 1
  CacheTTL = 2
  AIEnabled = FALSE
  DurableCache = TRUE
  MaxClock = 2
  MaxSearches = 3
  MaxRestarts = 1
SPECIFICATION FairSpec
INVARIANTS
  SnapshotsHonest
PROPERTIES
  OffersOutliveFailures
  EveryRequestEnds
CHECK_DEADLOCK FALSE
