SPECIFICATION Spec
CONSTANTS
  Trees <- FourTrees
  Blobs = {"a"}
  BlobsOf <- OneBlob
  MaxPuts = 1
  MaxWaiting = 2
  MaxCrashes = 0
CHECK_DEADLOCK FALSE
INVARIANT CommittedBandsPresent
