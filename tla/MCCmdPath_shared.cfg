SPECIFICATION Spec
CONSTANTS
  s1 = s1
  s2 = s2
  t1 = t1
  t2 = t2
  NoSession = NoSession
  Sessions = {s1, s2}
  Threads = {t1, t2}
  Drives <- SharedSession
  QueueDepth = 1
  CompRingSize = 1
  MaxInflightCmds = 4
  DevSlots = 2
  DevHonoursCqHead = FALSE
  MaxCmds = 2
INVARIANT InflightLockstep
INVARIANT NoDanglingSession
INVARIANT NoLostQuotaWakeup
INVARIANT NoLostPollWakeup
INVARIANT NoStrandedCompletion
PROPERTY SessionContract
CHECK_DEADLOCK FALSE
