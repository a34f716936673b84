SPECIFICATION FairSpec
CONSTANTS
  RunLength = 2
  PassPoints = 2
  Trees = {1, 2}
  Root = 1
  Units <- MCUnits
  Names = {1, 2}
  Batches <- MCBatches
  Minted = {}
  QuietFinalize = TRUE
  MaxCalls = 5
  MaxRequests = 1
  MaxFaults = 1
INVARIANTS UnitsReadable CommitLasts ShippedWhole
PROPERTY HostReturns
CHECK_DEADLOCK FALSE
