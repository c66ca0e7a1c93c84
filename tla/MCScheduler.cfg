CONSTANTS
  main = main
  w1 = w1
  w2 = w2
  root = root
  a = a
  b = b
  c = c
  e = e
  Workers = {main, w1, w2}
  Main = main
  Tasks = {root, a, b, c, e}
  Root = root
  Children <- MCChain
  Groups = {}
  Specials = {root, c}
  None = none
SPECIFICATION FairSpec
CHECK_DEADLOCK TRUE
INVARIANTS
  SyncMeansDone
  ParentIsAlive
  SyncsOwnTask
  SomeoneGoesOn
PROPERTIES
  Quiesces
