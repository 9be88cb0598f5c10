CONSTANTS
  NumFrag = 4
  AttemptLimit = 3
  MaxLoss = 3
  MaxDup = 0
  Prompt = TRUE
  IoErrors = FALSE
  FileSizes <- MCFileSizes
  FileNames <- MCFileNames
  FileBytes <- MCFileBytes
  Numbers <- MCNumbers
  MinSample = 1
  MaxSample = 2
SPECIFICATION DeliverySpec
INVARIANTS FragmentsTyped NoByteLost CopySize TimerInBounds DoneMeansCopied FragmentIsKept
PROPERTIES ImplementsFileCopy DataLossRepaired HandshakeEnds
CHECK_DEADLOCK FALSE
