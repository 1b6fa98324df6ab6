INIT MCInit
NEXT Next
CONSTANTS
  v = v
  n = n
  d = d
  w = w
  b1 = b1
  b2 = b2
  VMs = {v}
  Nodes = {n}
  Workloads = {d, w}
  Pods = {w}
  Blocks = {b1, b2}
  SameName <- Named
  InImage <- Images
  UpperUID = {}
  MaxChanges = 2
  MaxFailures = 0
INVARIANT NoObsoleteBlocks
CHECK_DEADLOCK FALSE
