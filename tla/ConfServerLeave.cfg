CONSTANTS
  Thread = {1, 2}
  Account = {isamu, hannah}
  SessName = {s1, s2}
  Fd = {4, 5}
  MaxNodes = 2
  NoOne = NoOne
  Overlap = FALSE
  SharedAccounts = {}
  Resets = {}
SPECIFICATION Spec
PROPERTY LeaveMeansLeft
CHECK_DEADLOCK FALSE
