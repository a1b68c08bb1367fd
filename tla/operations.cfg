SPECIFICATION FairSpec
CONSTANTS
  Procs = {p1, p2}
  Namespace <- TheNamespace
  Given <- TheGiven
  Trees <- TheTrees
  MaxCalls = 2
  MaxFaults = 1
INVARIANTS NamespaceEnsured DeleteRemoves NoNodeHasCause
PROPERTY OperationsEnd
CHECK_DEADLOCK FALSE
