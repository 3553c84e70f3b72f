CONSTANTS
  Callers = {c1, c2}
  Keys = {k1, k2}
  Tasks = {t1, t2, t3}
  NoTask = NoTask
  MaxConcurrency = 2
  MinInterval = 1
SPECIFICATION Spec
SYMMETRY Symmetry
INVARIANTS
  TypeOK
  RunningTaskInTable
  NoCallForCachedResult
PROPERTIES
  CallsPaced
  FlightSpec
