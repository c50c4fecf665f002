SPECIFICATION FifoSpec
CONSTANTS
  MaxEpoch = 3
  MaxEph = 3
  MaxJobs = 0
  MaxResults = 0
  DurableEpochs = TRUE
PROPERTIES HandshakeCompletes
