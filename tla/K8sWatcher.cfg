SPECIFICATION K8sSpec
CONSTANTS
  t1 = t1
  NoTimer = NoTimer
  Timers <- MCTimers
  MaxMarks = 3
  Kinds <- MCKinds
  PodKind = "pod"
  Changes <- MCChanges
  MaxDisturbances = 1
  MaxFailures = 1
INVARIANTS
  K8sTypeOK
  UnshownIsUnderway
PROPERTIES
  ShownNeverShrinks
  AppliedIsShown
CHECK_DEADLOCK FALSE
