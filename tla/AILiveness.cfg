CONSTANTS
  Callers = {c1, c2}
  Keys = {k1, k2}
  Tasks = {t1, t2}
  NoTask = NoTask
  MaxConcurrency = 1
  MinInterval = 0
SPECIFICATION FairSpec
PROPERTIES
  FinishedTaskLeavesTable
  EveryCallerAnswered
