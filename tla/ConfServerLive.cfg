CONSTANTS
  Thread = {1, 2}
  Account = {isamu, hannah}
  SessName = {s1, s2}
  Fd = {4, 5}
  MaxNodes = 3
  NoOne = NoOne
  Overlap = FALSE
  SharedAccounts = {}
  Resets = {}
SPECIFICATION FairSpec
PROPERTIES EveryRequestFinishes
CHECK_DEADLOCK FALSE
