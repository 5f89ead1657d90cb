CONSTANTS
  Workers = {w1, w2}
  Clients = {c1}
  Capacity = 2
  MaxTasks = 4
SPECIFICATION FairSpec
INVARIANT AcceptedRun
PROPERTIES QueueContract PoolStops
CHECK_DEADLOCK FALSE
