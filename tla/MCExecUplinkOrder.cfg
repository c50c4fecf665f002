SPECIFICATION Spec
CONSTANTS
  c1 = c1
  c2 = c2
  a = a
  b = b
  h1 = h1
  h2 = h2
  Calls = {c1, c2}
  Jobs = {a, b}
  Hosts = {h1, h2}
  Plans <- Asked
  Chunks = 1
  QueueCap = 2
  MaxPending = 2
CHECK_DEADLOCK FALSE
INVARIANT UplinkInSeqOrder
