CONSTANTS
  Streams = {s1, s2}
  Fds = {f1, f2}
  QueueDepth = 2
  Batch = 2
  CompRingSize = 2
  MaxCmds = 3
  NoFd = NoFd
  NoStream = NoStream
SPECIFICATION FairSpec
INVARIANTS OutstandingExact NoStrayCompletion
PROPERTY CallsReturn
CHECK_DEADLOCK FALSE
