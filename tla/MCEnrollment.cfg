SPECIFICATION Spec
CONSTANTS
  first = first
  second = second
  again = again
  t1 = t1
  t2 = t2
  loop = loop
  byhand = byhand
  r1 = r1
  r2 = r2
  none = none
  empty = empty
  torn = torn
  Tokens = {t1, t2}
  Attempts = {first, second, again}
  TokenOf <- Presents
  Forced = {again}
  Renewals = {loop, byhand}
  Replicas = {r1, r2}
  None = none
  Empty = empty
  Torn = torn
  Cap = 2
  Casts <- OneOfThem
  MaxCa = 2
CHECK_DEADLOCK FALSE
SYMMETRY Alike
INVARIANTS OneIdentityPerToken HostKeyBinding OneCa WholeIdentity
