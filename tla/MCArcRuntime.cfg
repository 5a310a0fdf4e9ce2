CONSTANTS
  t1 = t1
  t2 = t2
  a1 = a1
  a2 = a2
  b1 = b1
  o1 = o1
  o2 = o2
  Thread = {t1, t2}
  Local = {a1, a2, b1}
  Obj = {o1, o2}
  Null = Null
  Owner <- MCOwner
  MaxRef = 2
SPECIFICATION FairSpec
CHECK_DEADLOCK FALSE
INVARIANTS
  CountIsExact
  NoDanglingReference
  UniqueIsSole
  DestroyedOnce
PROPERTIES
  LastReleaseFrees
