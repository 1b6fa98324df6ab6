SPECIFICATION Spec
CONSTANTS
  h1 = h1
  h2 = h2
  v1 = v1
  NoData = NoData
  Absent = Absent
  Hosts <- TwoHosts
  VMs <- OneVM
  HostOf <- AllOnOne
  Functions = {"lsmod", "vagrant"}
  MaxPending = 2
  MaxFailures = 1
INVARIANTS
  LatestSnapshotShown
  LinksMatchListing
  HypervisorsNeedKvm
CHECK_DEADLOCK FALSE
