CONSTANTS
  h1 = h1
  h2 = h2
  w1 = w1
  w2 = w2
  None = None
  Host = {h1, h2}
  Worker = {w1, w2}
  WorkerOf <- Shared
  QueueCap = 1
  Actions = {0, 2}
  MaxEvent = 2
  MaxReload = 1
SPECIFICATION FairSpec
INVARIANT CountersExact
 
 
CHECK_DEADLOCK FALSE
