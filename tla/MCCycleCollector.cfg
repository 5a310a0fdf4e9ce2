CONSTANTS
  Var = {x, y}
  Obj = {o1, o2}
  Null = Null
  MaxCands = 3
SPECIFICATION FairSpec
CHECK_DEADLOCK FALSE
INVARIANTS
  SafeUntilExit
  GarbageIsCollected
PROPERTIES
  CollectionEnds
