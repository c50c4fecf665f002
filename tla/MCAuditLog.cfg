SPECIFICATION Spec
CONSTANTS
  c1 = c1
  c2 = c2
  c3 = c3
  r1 = r1
  r2 = r2
  none = none
  Calls = {c1, c2, c3}
  Replicas = {r1, r2}
  ReplicaOf <- Serves
  NoCall = none
CHECK_DEADLOCK FALSE
INVARIANTS HeadIsCurrent TamperEvident AuditedFirst
PROPERTIES AppendOnly CallsEnd
