CONSTANTS
  PoolSize = 2
  Handles = {h1, h2}
  Batches = {x1, x2}
  NStreams = 2
  MaxMade = 2
  MaxCmds = 3
SPECIFICATION Spec
INVARIANTS LentOnce  SentOnce
PROPERTY StreamsInTurn
CHECK_DEADLOCK FALSE
