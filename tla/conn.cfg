SPECIFICATION FairSpec
CONSTANTS
  Procs = {p1}
  MaxErrors = 1
  DialFails = TRUE
  MaxDials = 3
  MaxEvents = 3
  MaxCalls = 3
  MaxChanges = 1
INVARIANTS OneConnection ConnectedHasConnection
PROPERTIES ConnReturnsOpen CloseCloses ExpiredIsReplaced
CHECK_DEADLOCK FALSE
