CONSTANTS
  Callers = {w1}
  Keys = {k1, k2}
  MaxEntries = 1
  CacheTTL = 2
  MaxClock = 4
  MaxSearches = 4
SPECIFICATION Spec
SYMMETRY Symmetry
INVARIANTS
  PutPersists
