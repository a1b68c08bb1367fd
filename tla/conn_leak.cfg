SPECIFICATION Spec
CONSTANTS
  Procs = {p1, p2}
  MaxErrors = 1
  DialFails = FALSE
  MaxDials = 4
  MaxEvents = 3
  MaxCalls = 2
  MaxChanges = 0
INVARIANT ThreadSafe
CHECK_DEADLOCK FALSE
