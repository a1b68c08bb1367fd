SPECIFICATION FairSpec
CONSTANTS
  QueueSize = 2
  Listeners = {}
  Waiters = {w1}
  TimedWaiters = {w1}
  MaxPosts = 2
  MaxListeners = 1
PROPERTY TimedWaiterReturns
CHECK_DEADLOCK FALSE
