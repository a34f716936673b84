SPECIFICATION Spec
CONSTANTS
  Blobs = {b1, b2}
  Slots = {s1, s2, s3, s4}
  Hole = Hole
  Meta = Meta
  NoSlot = NoSlot
  Cap = 2
  HasSpill = FALSE
  Uploadable = {b1, b2}
  Discardable = {b1, b2}
  Readable = {b1, b2}
  Failing = {b1, b2}
  FreeUntracked = TRUE
  CleanShutdown = FALSE
  MaxSegs = 8
  MaxCheckpoints = 2
  MaxCrashes = 1
SYMMETRY Symmetry
CHECK_DEADLOCK FALSE
INVARIANT CommittedNotFree
INVARIANT BytesInPlace
INVARIANT DurableIsCommitted
PROPERTY Implements
