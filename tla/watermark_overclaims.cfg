SPECIFICATION Spec
CONSTANTS
  Terminal = 9
  Files <- ABC
  Corner <- ABCCorner
  Chunks <- ABCChunks
  Batches <- TwoBatches
  MayFail = {}
  Budget = 2
  MaxRequests = 0
  MaxFailures = 0
  MaxCrashes = 0
PROPERTIES PassTargetSound
CHECK_DEADLOCK FALSE
