SPECIFICATION FairSpec
CONSTANTS
  s1 = s1
  s2 = s2
  t1 = t1
  t2 = t2
  NoSession = NoSession
  Sessions = {s1, s2}
  Threads = {t1}
  Drives <- OneDriver
  QueueDepth = 1
  CompRingSize = 3
  MaxInflightCmds = 4
  DevSlots = 2
  DevHonoursCqHead = TRUE
  MaxCmds = 3
PROPERTY CommandsComplete
PROPERTY SubmitReturns
PROPERTY ReleaseReturns
CHECK_DEADLOCK FALSE
