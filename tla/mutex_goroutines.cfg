SPECIFICATION Spec
CONSTANTS
  c1 = c1  c2 = c2  g1 = g1  g2 = g2  g3 = g3
  Clients = {c1, c2}
  Threads = {g1, g2, g3}
  ClientOf <- TwoOnFirst
  Timeouts = {FALSE}
  Faults = {}
  MaxCalls = 1
INVARIANT MutualExclusion
CHECK_DEADLOCK FALSE
