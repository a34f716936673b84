SPECIFICATION MCSpec
CONSTANTS
  PageSize = 4
  Sizes = {1, 2}
  MaxFile = 8
  MaxBlobs = 7
  MaxCheckpoints = 3
  Trees = {1, 2}
  Source <- SharedSource
  FailingPuts = {"tree", "stats", "manifest", "copy"}
  Restarts = {}
  CopyOver = {"DEW0"}
  MaxUnits = 2
  MaxChains = 2
  MaxFailures = 1
  MaxSessions = 2
CHECK_DEADLOCK FALSE
INVARIANT BytesAccounted
INVARIANT BucketSound
