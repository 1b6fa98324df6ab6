SPECIFICATION Spec
CONSTANTS
  Snapshots <- MCSnapshots
  MaxSnapshots = 3
  MaxFailing = 1
  MaxFailures = 1
  Found <- FoundIn
  There <- ThereIn
INVARIANTS
  TypeOK
  WalkIsRight
  EveryDeviceIsShown
  NothingIsInvented
CHECK_DEADLOCK FALSE
