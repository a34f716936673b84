SPECIFICATION Spec
CONSTANTS
  Trees <- ThreeTrees
  Blobs = {"a", "b"}
  BlobsOf <- SharedBlobs
  MaxPuts = 2
  MaxWaiting = 1
  MaxCrashes = 2
CHECK_DEADLOCK FALSE
INVARIANT BucketReadable
INVARIANT UploadedOnce
INVARIANT DrainedIsDurable
PROPERTY WaitDrainedReturns
