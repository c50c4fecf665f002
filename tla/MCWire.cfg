SPECIFICATION Spec
CONSTANTS
  Hosts <- H
  CertsOf <- RenewedCerts
  Budgets <- OneOfThem
  Dispatches <- ShellB
  MaxFrames = 1
INVARIANTS KeysAgree OpenedAsSealed NonceOnce
CHECK_DEADLOCK FALSE
