CONSTANTS
  NumWorkers = 3
  WorkersStop = FALSE
  Task = task
  Null = null
SPECIFICATION FairSpec
CHECK_DEADLOCK TRUE
INVARIANTS
  NoUseAfterDelete
  SyncMeansDone
  BlockingFrees
PROPERTIES
  StopEnds
