SPECIFICATION Spec
CONSTANTS
  Blobs = {b1, b2}
  Slots = {s1, s2, s3, s4}
  Hole = Hole
  Meta = Meta
  NoSlot = NoSlot
  Cap = 2
  HasSpill = TRUE
  Uploadable = {b1, b2}
  Discardable = {}
  Readable = {b1, b2}
  Failing = {}
  FreeUntracked = FALSE
  CleanShutdown = FALSE
  MaxSegs = 8
  MaxCheckpoints = 2
  MaxCrashes = 0
SYMMETRY Symmetry
CHECK_DEADLOCK FALSE
INVARIANT CommittedRecoverable
