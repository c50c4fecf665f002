SPECIFICATION Spec
CONSTANTS
  Hosts <- H
  Online <- H
  CommandLines <- Lines
  Documents <- Docs
  Requests <- Calls
  AllowlistFile <- Files
  Padded <- PaddedNames
  Issuer = "iss"
  Audience = "aud"
  MAX_LEEWAY_SECS = 1
  MAX_FANOUT = 2
  MaxTime = 1
  Linux <- H
  AgentCreds <- Root
  Passwd <- Users
  MAX_JOB_OUTPUT = 1
  PIPE_BUF = 1
  MaxWrites = 1
INVARIANTS RunsOnlyAsGranted OutputComplete
PROPERTIES DeadlineHolds ShellLeavesNothing RotationPickedUp
CHECK_DEADLOCK FALSE
