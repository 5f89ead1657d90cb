SPECIFICATION TableSpec
CONSTANTS
  Sessions = {s1, s2, s3}
  NoSession = NoSession
  MaxBuffers = 4
  BufferQuota = 2
  PageSize = 2
  AllocMax = 4
  AllocSizes = {0, 1, 3, 5}
  MapSizes = {2, 4}
  Width = 3
  MaxPending = 1
  MaxMaps = 1
  NoRequest = NoRequest
CONSTANT Requests <- MCRequests
SYMMETRY Symmetry
INVARIANTS OwnershipInverse  DmaInBounds  FullService
PROPERTY FreedByOwnerOnly
CHECK_DEADLOCK FALSE
