CONSTANTS
  B = 2
  L = 2
  Mags = 3
  MaxDepth = 6
  NodeLimit = 2
  Feeds <- MCFarFeeds
  MaxPressure = 1
  MaxFailures = 0
  MaxLost = 0
  K = 5
  Chunks = {}
  Detail = 2
  MaxPoints = 4
  Buffers = {}
  MaxBands = 32
  HufBlock = 16
  MaxNarrow = 3
  NarrowSamples = FALSE
SPECIFICATION MCSpec
INVARIANT CommittedClosed
CHECK_DEADLOCK FALSE
