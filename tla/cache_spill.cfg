SPECIFICATION Spec
CONSTANTS
  Blobs = {b1, b2}
  Slots = {s1, s2, s3}
  Hole = Hole
  Meta = Meta
  NoSlot = NoSlot
  Cap = 2
  HasSpill = TRUE
  Uploadable = {}
  Discardable = {b1, b2}
  Readable = {}
  Failing = {}
  FreeUntracked = FALSE
  CleanShutdown = TRUE
  MaxSegs = 8
  MaxCheckpoints = 2
  MaxCrashes = 1
SYMMETRY Symmetry
CHECK_DEADLOCK FALSE
INVARIANT TypeOK
INVARIANT SpillBacked
