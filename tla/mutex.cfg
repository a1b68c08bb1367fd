SPECIFICATION FairSpec
CONSTANTS
  c1 = c1  c2 = c2  g1 = g1  g2 = g2  g3 = g3
  Clients = {c1, c2}
  Threads = {g1, g2}
  ClientOf <- OnePerClient
  Timeouts = {TRUE, FALSE}
  Faults = {"create", "list", "get", "delete", "expire", "close"}
  MaxCalls = 2
INVARIANTS MutualExclusion NoHerd
PROPERTIES Fair AcquireReturns
CHECK_DEADLOCK FALSE
