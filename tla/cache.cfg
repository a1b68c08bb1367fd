SPECIFICATION FairSpec
CONSTANTS
  MaxChanges = 2
  MaxDisconnects = 1
  MaxOthers = 1
  MaxLoad = 2
INVARIANTS LatestWasRead NotBlind
PROPERTY EventuallyRead
CHECK_DEADLOCK FALSE
