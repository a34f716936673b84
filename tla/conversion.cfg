SPECIFICATION FairSpec
CONSTANTS
  Terminal = 9
  Files <- AB
  Corner <- ABCorner
  Chunks <- ABChunks
  Batches <- OneBatch
  MayFail = {"b"}
  Budget = 2
  MaxRequests = 1
  MaxFailures = 1
  MaxCrashes = 1
INVARIANTS FirstSessionComplete LodDoneIsCommitted CountedIsCommitted
PROPERTIES PassTargetSound BecomesIdle
CHECK_DEADLOCK FALSE
