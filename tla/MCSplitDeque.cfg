CONSTANTS
  N = 3
  MaxHead = 4
  Thieves = {w1, w2}
  NoOne = noone
  Finished = finished
SPECIFICATION Spec
SYMMETRY ThiefSymmetry
CHECK_DEADLOCK TRUE
INVARIANTS
  NoDoubleTake
  AwaitedIsStolen
  RunningIsLive
  AllStolenIsTrue
  JobsCounted
  GrowsForward
PROPERTIES
  Refinement
  OwnerNearsEnd
