SPECIFICATION Spec
CONSTANTS
  Requests = {c1, c2, c3}
  Ids = {1, 2, 3}
  Day = 2
  Gap = 1
  Skew = 1
  MaxAge = 0
  MaxClock = 3
  Limit = 1
  ChunkSize = 1
CHECK_DEADLOCK FALSE
INVARIANT SerialChainIsIntact
INVARIANT PagesReturnEachOnce
INVARIANT ArchiveIsExact
PROPERTY MismatchesStay
