CONSTANTS
  k1 = k1
  k2 = k2
  k3 = k3
  k4 = k4
  Key = {k1, k2, k3, k4}
  Val = {v1, v2}
  NotFound = NotFound
  Present = Present
  Hash <- MCHash
  Rehash <- MCRehash
  InitCap = 3
  Load = 70
  MaxCap = 6
SPECIFICATION Spec
INVARIANTS
  TableIsSound
PROPERTIES
  IsAMap
