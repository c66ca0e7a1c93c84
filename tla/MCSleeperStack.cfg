CONSTANTS
  Workers = {main, w1, w2, w3}
  Main = main
  None = none
  MaxTag = 6
SPECIFICATION Spec
SYMMETRY WorkerSymmetry
CHECK_DEADLOCK FALSE
INVARIANTS
  LinksAreStack
  SleeperIsFindable
PROPERTIES
  Refinement
