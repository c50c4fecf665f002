SPECIFICATION Spec
CONSTANTS
  Hosts = {"h1"}
  Devices = {"d1", "d2", "d3", "d4"}
  SerialOf <- MCSerialOf
  Filter <- MCFilter
  Hardware <- MCOneHost
  Networks <- MCMoving
  V4 = {"a"}
  V6 = {"b"}
  Curated = "d1"
  Slots = {1}
  MAX_TRANSIENT_RETRIES = 1
  Budgets <- MCThree
  MaxId = 10
INVARIANTS UnchangedMeansCurrent
CHECK_DEADLOCK FALSE
