CONSTANTS
  Thread = {1, 2}
  Account = {isamu, hannah}
  SessName = {s1}
  Fd = {4, 5}
  MaxNodes = 2
  NoOne = NoOne
  Overlap = TRUE
  SharedAccounts = {1, 2}
  Resets = {1, 2}
SPECIFICATION Spec
SYMMETRY Symmetry
INVARIANTS
  TypeOK
  
  CountCoversConnections
  ClosedOnlyWhenIdle
  UserListIsLoggedIn
  
PROPERTY EveryMemberHears
CHECK_DEADLOCK FALSE
