CONSTANTS
  Tile = 3
  Dims = {1, 2, 3, 4, 5, 6, 7}
  RowTerms = {1, 2, 5, 7, 8}
  RowLen = 14
  Quota = 16
SPECIFICATION Spec
INVARIANT VerdictRight
CHECK_DEADLOCK FALSE
