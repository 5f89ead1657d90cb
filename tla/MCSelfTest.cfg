CONSTANTS
  TestCount = 4
  DevSlots = 2
  Faults = TRUE
  LatencyWindow = FALSE
  MaxUser = 3
SPECIFICATION FairSpec
INVARIANTS BuffersOutliveDma RingsOutliveIsr Unwound
PROPERTY ProbeEnds
CHECK_DEADLOCK FALSE
