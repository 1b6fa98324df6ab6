SPECIFICATION Spec
CONSTANTS
  t1 = t1
  t2 = t2
  t3 = t3
  t4 = t4
  NoTimer = NoTimer
  Timers <- MCTimers
  MaxMarks = 4
INVARIANTS
  TypeOK
  NoLostWakeup
  TimerMatchesPending
  EveryPassAccountedFor
PROPERTIES
  EveryMarkAnswered
  CoalescedSpec
CHECK_DEADLOCK FALSE
