CONSTANTS
  main = main
  w1 = w1
  w2 = w2
  root = root
  a = a
  b = b
  c = c
  e = e
  Workers = {main, w1, w2}
  Main = main
  Tasks = {root, a, b, c, e}
  Root = root
  Children <- MCChildren
  Groups = {root, c}
  Specials = {}
  None = none
SPECIFICATION Spec
INVARIANTS
  InterruptIsCaught
