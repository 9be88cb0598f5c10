CONSTANTS
  NumFrag = 2
  AttemptLimit = 2
  MaxLoss = 0
  MaxDup = 0
  Prompt = FALSE
  IoErrors = FALSE
SPECIFICATION Spec
PROPERTY AckEndsTheWait
CHECK_DEADLOCK FALSE
