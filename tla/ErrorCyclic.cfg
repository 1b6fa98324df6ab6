SPECIFICATION Spec
CONSTANTS
  p1 = p1
  p2 = p2
  n1 = n1
  h = h
  a = a
  b = b
  Objects <- CyclicObjects
  Pods <- CyclicPods
  Removable = {}
  Propagate <- CyclicPropagate
  Rely <- CyclicRely
  Late <- CyclicLate
  ClockSteps <- TicksAndTies
  MaxBuilds = 3
  MaxFailures = 1
INVARIANTS
  TypeOK
  WavesReachEveryone
  InfectionIsExact
  PodErrorShown
PROPERTIES
  OnlyNewerWavesWrite
  WavesDieOut
CHECK_DEADLOCK FALSE
