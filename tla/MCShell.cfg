SPECIFICATION ShellSpec
CONSTANTS
  ann = ann
  bob = bob
  none = none
  Streams = {ann, bob}
  NoStream = none
  MaxIn <- OneBurst
  MaxOut <- OneBurst
  QueueCap = 1
  MaxSid = 2
CHECK_DEADLOCK FALSE
INVARIANTS NoCrossTalk NoOrphanShell
PROPERTIES ExitIsSeen CloseReaps
