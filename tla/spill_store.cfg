SPECIFICATION Spec
CONSTANTS
  Blobs = {b1, b2, b3}
  Ck = Ck
  None = None
  Target = 2
  QuietCommit = TRUE
  MaxSegs = 4
  MaxCheckpoints = 2
  MaxFailures = 1
  MaxCrashes = 1
SYMMETRY Symmetry
CHECK_DEADLOCK FALSE
INVARIANT BytesReachable
INVARIANT NoLostOrphan
