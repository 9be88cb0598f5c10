CONSTANTS
  MaxLogins = 2
  MaxMsgs = 2
  MaxPieces = 1
SPECIFICATION FairSpec
INVARIANTS TypeOK TimeoutEndsSoon
PROPERTIES ReplyNotStolen  LineIsWorkedOff
CHECK_DEADLOCK FALSE
