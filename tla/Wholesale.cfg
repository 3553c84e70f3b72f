CONSTANTS
  a = a
  b = b
  Sources = {a, b}
  Registries <- MCRegistries
  Ids = {1, 2, 3}
  Requests = {r1, r2}
  Concurrency = 1
  Limits = {2, 3}
  ContractLimit = 2
  FeedSize = 2
  MaxClock = 2
  Nothing = Nothing
SPECIFICATION Spec
INVARIANTS
  TypeOK
  SnapshotsTellTheTruth
PROPERTIES
  FailureKeepsListings
  RejectedOnlyOverContract
SYMMETRY Symmetry
CHECK_DEADLOCK FALSE
