CONSTANTS
  NumWorkers = 2
  WorkersStop = TRUE
  Task = task
  Null = null
SPECIFICATION Spec
INVARIANTS
  SyncMeansDone
