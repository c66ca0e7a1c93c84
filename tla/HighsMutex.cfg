CONSTANTS
  Workers = {w1, w2, w3}
  None = none
  MaxDepth = 1
  MaxLocks = 2
SPECIFICATION FairSpec
CHECK_DEADLOCK TRUE
INVARIANTS
  MutualExclusion
  HandedToOne
  WaiterIsKnown
PROPERTIES
  LockReturns
