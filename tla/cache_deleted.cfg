\* What NodeCache's comment says of deletions, against what processBackgroundResult does.
SPECIFICATION Spec
CONSTANTS
  MaxChanges = 2
  MaxDisconnects = 1
  MaxOthers = 1
  MaxLoad = 2
INVARIANT DeletionNoticed
CHECK_DEADLOCK FALSE
