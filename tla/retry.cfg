SPECIFICATION TransactionSpec
CONSTANTS
  Sleepers = {TRUE, FALSE}
  MaxRetries = 4
  RetriesLimit = 3
  Base = 2
  MaxSleep = 1
  MaxElapsed = 3
  MaxInt = 3
  MaxAttempts = 4
  Paths = {"a", "b"}
  MaxOps = 2
INVARIANTS ErrorMeansUndone DoneOnce AppliedWhole
CHECK_DEADLOCK FALSE
