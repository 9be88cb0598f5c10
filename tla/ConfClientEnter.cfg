CONSTANTS
  MaxLogins = 1
  MaxMsgs = 2
  MaxPieces = 1
SPECIFICATION Spec
PROPERTY EnterQuits
CHECK_DEADLOCK FALSE
