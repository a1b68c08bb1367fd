SPECIFICATION FairSpec
CONSTANTS
  Procs = {p1, p2}
  Values = {1, 2}
  DefaultData = 1
  Operations = {"Get", "ForceSet", "CompareAndSet", "TrySet", "Initialize"}
  Promoted = TRUE
  N = 1
  PromotedN = 2
  MaxCalls = 2
  MaxFaults = 1
  MaxDeletes = 2
INVARIANTS SuccessReplacesPreValue UpdatedIffSucceeded FailureHasCause OneInitializer
PROPERTY MethodsReturn
CHECK_DEADLOCK FALSE
