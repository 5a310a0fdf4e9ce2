SPECIFICATION FairSpec
CONSTANTS
  Uris = {u1, u2}
  TooLarge = {2}
  MaxEdits = 2
  MaxRequests = 2
  Capacity = 2
INVARIANTS
  RepliesAreRight
PROPERTIES
  ImplementsFeed
  ServesAndEnds
