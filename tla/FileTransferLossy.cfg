CONSTANTS
  NumFrag = 3
  AttemptLimit = 2
  MaxLoss = 1
  MaxDup = 1
  Prompt = FALSE
  IoErrors = TRUE
SPECIFICATION FairSpec
INVARIANTS TypeOK AcksAccounted DoneMeansDelivered SafeTransfer
PROPERTY ClientTerminates
CHECK_DEADLOCK FALSE
