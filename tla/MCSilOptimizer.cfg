CONSTANTS
  MaxStmts = 4
  MaxId = 7
SPECIFICATION Spec
CHECK_DEADLOCK FALSE
INVARIANTS
  SameTrace
  OwnershipIsKept
  VerdictIsSound
