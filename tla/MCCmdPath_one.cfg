SPECIFICATION Spec
CONSTANTS
  s1 = s1
  s2 = s2
  t1 = t1
  t2 = t2
  NoSession = NoSession
  Sessions = {s1, s2}
  Threads = {t1}
  Drives <- OneDriver
  QueueDepth = 2
  CompRingSize = 3
  MaxInflightCmds = 4
  DevSlots = 2
  DevHonoursCqHead = FALSE
  MaxCmds = 3
 
INVARIANT DescriptorsIntact
INVARIANT CqNotOverwritten
CHECK_DEADLOCK FALSE
