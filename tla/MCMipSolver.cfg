CONSTANTS
  Cells <- MCCells
  Cost <- MCCost
  Bounds <- MCBounds
  Infinity = 6
  Gap = 3
  MaxRestarts = 1
  MaxCalls = 1
SPECIFICATION FairSpec
CHECK_DEADLOCK TRUE
INVARIANTS
  NoLostCell
  BoundsAreTrue
PROPERTIES
  DualBoundRises
  Returns
