CONSTANTS
  B = 2
  L = 2
  Mags = 3
  MaxDepth = 6
  NodeLimit = 2
  Feeds <- MCFeeds
  MaxPressure = 1
  MaxFailures = 1
  MaxLost = 0
  K = 5
  Chunks <- MCChunks
  Detail = 2
  MaxPoints = 4
  Buffers <- MCBuffers
  MaxBands = 32
  HufBlock = 16
  MaxNarrow = 3
  NarrowSamples = FALSE
SPECIFICATION MCSpec
INVARIANTS QueriesExact RefsExact LodComplete PointsSurvive BlobsSurvive
PROPERTY FinalFrozen
CHECK_DEADLOCK FALSE
