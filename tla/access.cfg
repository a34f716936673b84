SPECIFICATION Spec
CONSTANTS
  r1 = r1
  r2 = r2
  Requests <- MCRequests
  Root = "root"
  Parent <- MCParent
  Wanted <- MCWanted
  BatchNodes = 2
  QuietClose = TRUE
  Failing = {r2}
  OpenFails = TRUE
CHECK_DEADLOCK FALSE
INVARIANTS ToldIsFinal ResultWhole
PROPERTIES Delivered WaitReturns
