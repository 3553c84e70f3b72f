CONSTANTS
  Callers = {w1, w2}
  Keys = {k1, k2, k3}
  MaxEntries = 1
  CacheTTL = 2
  MaxClock = 3
  MaxSearches = 3
SPECIFICATION Spec
SYMMETRY Symmetry
INVARIANTS
  TypeOK
  RowsBelongToTheirKey
  AtMostOneOver
PROPERTIES
  QuietPutStores
  NoLiveRowLost
