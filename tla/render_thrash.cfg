SPECIFICATION Spec
CONSTANTS
  n1 = n1
  n2 = n2
  Nodes = {n1, n2}
  Order <- MCOrder
  Leaves = {n1, n2}
  Promotable = {n1, n2}
  Corrupt = {}
  Attrs = {"rgb", "class"}
  Cams = {"near", "wide", "far"}
  Start = "near"
  Walk <- MCWalk
  InView <- MCWalk
  Refined <- MCRefined
  Near <- MCNear
  Octants = {"oct"}
  Objs = {1, 2, 3, 4}
  Size <- MCSize
  CutSize <- MCCutSize
  MonolithBytes = 2
  RootBytes = 1
  OctantBytes = 1
  HandlerSize = 4
  ResidentSize = 5
  GpuBudget = 4
  CpuBudgets = {6}
  MaxUpload = 2
  MaxIo = 1
  MaxNewIo = 2
  BacklogCap = 4
  Builds = 1
  Fade = 1
  EvictTtl = 1
  PruneTtl = 2
  FreeAfter = 1
  MaxInputs = 0
CHECK_DEADLOCK FALSE
PROPERTY CutsSettle
