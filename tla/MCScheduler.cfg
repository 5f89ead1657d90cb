CONSTANTS
  Locals = {c1, c2}
  MaxEntries = 2
  MaxFiles = 2
  Slots = {0, 1}
  Bufs = {b1, b2}
  MaxReqs = 3
SPECIFICATION Spec
INVARIANT ProvenanceExact
 
CHECK_DEADLOCK FALSE
