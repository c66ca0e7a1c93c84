CONSTANTS
  Releasers = {r1, r2, r3}
  Acquirer = owner
  NoThread = nobody
SPECIFICATION FairSemSpec
CHECK_DEADLOCK TRUE
INVARIANTS
  NoLostWakeup
PROPERTIES
  TokenIsTaken
  Refinement
