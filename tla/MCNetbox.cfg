SPECIFICATION Spec
CONSTANTS
  Hosts = {"h1", "h2"}
  Devices = {"d1", "d2", "d3", "d4"}
  SerialOf <- MCSerialOf
  Filter <- MCFilter
  Hardware <- MCHardware
  Networks <- MCNetworks
  V4 = {"a"}
  V6 = {"b"}
  Curated = "d1"
  Slots = {1, 2}
  MAX_TRANSIENT_RETRIES = 1
  Budgets <- MCBudgets
  MaxId = 10
INVARIANTS NoDuplicateRows PrimaryStays SyncedIsCurrent
PROPERTIES OnlyItsOwnDevice PermitsComeBack
CHECK_DEADLOCK FALSE
