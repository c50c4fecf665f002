SPECIFICATION Spec
CONSTANTS
  MaxEpoch = 3
  MaxEph = 3
  MaxJobs = 2
  MaxResults = 2
  DurableEpochs = TRUE
INVARIANTS NonceUnique EpochNeverReused BothEndsAgree OneSessionPerHello NoReplay
PROPERTIES NeverReplacedByOlder RevocationSticks
