SPECIFICATION Spec
CONSTANTS
  Terminal = 9
  Files <- AB
  Corner <- ABCorner
  Chunks <- ABChunks
  Batches <- OneBatch
  MayFail = {}
  Budget = 1
  MaxRequests = 0
  MaxFailures = 0
  MaxCrashes = 1
INVARIANTS IdleMeansComplete
CHECK_DEADLOCK FALSE
