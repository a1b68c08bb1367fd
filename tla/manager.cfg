SPECIFICATION FairSpec
CONSTANTS
  QueueSize = 1
  Listeners = {l1}
  Waiters = {w1}
  TimedWaiters = {w1}
  MaxPosts = 3
  MaxListeners = 1
INVARIANTS
  NewestNotLost
  ForEachSeesStableList
  NoSendOnClosedChannel
PROPERTIES
  ImplementsFeed
  NewestDispatched
CHECK_DEADLOCK FALSE
