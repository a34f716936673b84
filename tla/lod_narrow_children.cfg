CONSTANTS
  B = 2
  L = 2
  Mags = 3
  MaxDepth = 6
  NodeLimit = 2
  Feeds <- MCFeeds
  MaxPressure = 1
  MaxFailures = 1
  MaxLost = 0
  K = 5
  Chunks <- MCChunks
  Detail = 2
  MaxPoints = 4
  Buffers = {}
  MaxBands = 32
  HufBlock = 16
  MaxNarrow = 3
  NarrowSamples = TRUE
SPECIFICATION MCSpec
INVARIANT SamplesInPlace
CHECK_DEADLOCK FALSE
