CONSTANTS
  w1 = w1
  w2 = w2
  Owner = owner
  Thieves = {w1, w2}
  Bits = {1, 2}
  Address <- MCAddress
  Finished = finished
  Cancelled = cancel
  NoOne = noone
SPECIFICATION FairSpec
CHECK_DEADLOCK TRUE
INVARIANTS
  SyncMeansDone
  FreeSlotIsLeft
  NoStrayToken
  SleeperIsTold
PROPERTIES
  SyncEnds
