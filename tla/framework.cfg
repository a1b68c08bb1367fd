SPECIFICATION Spec
CONSTANTS
  Blockers = {b1}
  CanBeReadOnly = TRUE
  MaxEpochs = 3
  MaxPending = 2
  MaxIndex = 2
INVARIANT NoPanicWhileOpen
PROPERTY UpIsAnnounced
PROPERTY DownIsAnnounced
PROPERTY SuspensionIsChecked
PROPERTY ClosedForGood
CHECK_DEADLOCK FALSE
