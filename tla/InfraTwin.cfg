SPECIFICATION Spec
CONSTANTS
  h1 = h1
  h2 = h2
  v1 = v1
  NoData = NoData
  Absent = Absent
  Hosts <- OneHost
  VMs <- OneVM
  HostOf <- AllOnOne
  Functions = {"server_lshw", "lsmod", "vagrant", "vm_lshw"}
  MaxPending = 2
  MaxFailures = 1
INVARIANTS
  TypeOK
  LatestSnapshotShown
CHECK_DEADLOCK FALSE
