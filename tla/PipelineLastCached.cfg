CONSTANTS
  Sources = {s1}
  Requests = {r1, r2}
  Keys = {k1}
  FailureThreshold = 2
  CooldownSeconds = 1
  SourceConcurrency = 1
  CacheTTL = 1
  AIEnabled = TRUE
  DurableCache = TRUE
  MaxClock = 3
  MaxSearches = 3
  MaxRestarts = 1
SPECIFICATION Spec
SYMMETRY Symmetry
PROPERTIES
  LastCachedOffersReused
CHECK_DEADLOCK FALSE
