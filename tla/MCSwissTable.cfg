SPECIFICATION Spec
CONSTANTS
  k1 = k1
  k2 = k2
  k3 = k3
  a = a
  b = b
  Key = {k1, k2, k3}
  Val <- MCVal
  Table = {a, b}
  Hash <- MCHash
  GroupSize = 2
  SmallSize = 4
  MinAllocatedSize = 4
  LoadDivisor = 4
  MaxAlloc = 16
  Count = {4}
  AllocSize = {8}
  HeapBlock = {1, 2, 3}
  ClearsAnything = FALSE
SYMMETRY MCSymmetry
CHECK_DEADLOCK FALSE
INVARIANTS
  TableIsSound
  StorageIsOwned
PROPERTIES
  ImplementsMaps
  ReserveSuffices
