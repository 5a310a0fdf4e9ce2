CONSTANTS
  Local = {a, b, c}
  None = None
  MaxStmts = 5
SPECIFICATION Spec
SYMMETRY LocalSymmetry
CHECK_DEADLOCK FALSE
INVARIANTS
  SafeAccess
  CleanupIsComplete
