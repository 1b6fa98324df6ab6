SPECIFICATION Spec
CONSTANTS
  p1 = p1
  p2 = p2
  n1 = n1
  h = h
  a = a
  b = b
  Objects <- LayeredObjects
  Pods <- LayeredPods
  Removable = {n1}
  Propagate <- LayeredPropagate
  Rely <- LayeredRely
  Late <- LayeredLate
  ClockSteps <- Ticks
  MaxBuilds = 1
  MaxFailures = 1
SYMMETRY Symmetry
INVARIANTS
  WavesReachEveryone
  MissedOnlyIfOvertaken
PROPERTIES
  OnlyNewerWavesWrite
CHECK_DEADLOCK FALSE
