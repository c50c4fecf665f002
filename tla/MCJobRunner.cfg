SPECIFICATION Spec
CONSTANTS
  a = a
  bad = bad
  t1 = t1
  t2 = t2
  t3 = t3
  x = x
  y = y
  Jobs = {a, bad}
  BadIds = {bad}
  Tasks = {t1, t2, t3}
  Exits = {x, y}
INVARIANT AtMostOnce
PROPERTY KeepsContract PermitsReturn
