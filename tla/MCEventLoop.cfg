CONSTANTS
  Task = {t1, t2, t3, t4}
  Null = {t1}
  FirstCap = 1
  MaxLeft = 1
SPECIFICATION FairSpec
CHECK_DEADLOCK FALSE
INVARIANTS
  QueuedOnce
  OneTurnPerPass
PROPERTIES
  LoopEnds
