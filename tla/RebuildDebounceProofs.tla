----------------------- MODULE RebuildDebounceProofs ------------------------
(***************************************************************************)
(* Proofs that the debounced rebuild of the watcher loses no wake-up and   *)
(* implements CoalescedRebuild, for every set of timers and every number   *)
(* of changes.  NoLostWakeup is not inductive: that markDirty finds a      *)
(* timer to reset exactly when an earlier change is still waiting has to   *)
(* be carried along (TimerMatchesPending), and so does that marks are      *)
(* taken and announced in order (PassesInOrder).                           *)
(***************************************************************************)
EXTENDS RebuildDebounce, TLAPS

\* Marks are covered, and covered marks announced, only after they were made.
PassesInOrder ==
  /\ covered <= marks
  /\ announced <= covered
  /\ \A n \in passes : n <= covered

DebounceInv ==
  /\ TypeOK
  /\ TimerMatchesPending
  /\ NoLostWakeup
  /\ PassesInOrder
  /\ EveryPassAccountedFor

LEMMA DebounceInit == Init => DebounceInv
<1> SUFFICES ASSUME Init PROVE DebounceInv
  OBVIOUS
<1> USE MaxMarksAssumption DEF Init
<1>1. TypeOK
  <2>1. rebuildPending \in BOOLEAN
    OBVIOUS
  <2> QED
    BY <2>1 DEF TypeOK
<1>2. TimerMatchesPending
  BY DEF TimerMatchesPending
<1>3. NoLostWakeup /\ PassesInOrder /\ EveryPassAccountedFor
  BY DEF NoLostWakeup, PassesInOrder, EveryPassAccountedFor
<1> QED
  BY <1>1, <1>2, <1>3 DEF DebounceInv

LEMMA MarkDirtyStep == DebounceInv /\ MarkDirty => DebounceInv'
<1> SUFFICES ASSUME DebounceInv, MarkDirty PROVE DebounceInv'
  OBVIOUS
<1> USE TimersAssumption, MaxMarksAssumption DEF DebounceInv, TypeOK, PassesInOrder
<1>1. /\ delayRebuildTimer' \in Timers
      /\ delayRebuildTimer' \in scheduled'
      /\ scheduled' \subseteq Timers
  BY DEF MarkDirty, ResetTimer, StartTimer
<1>2. TypeOK'
  BY <1>1 DEF MarkDirty
<1>3. TimerMatchesPending'
  BY <1>1 DEF MarkDirty, TimerMatchesPending
<1>4. NoLostWakeup'
  BY <1>1 DEF NoLostWakeup
<1>5. PassesInOrder'
  BY DEF MarkDirty
<1>6. EveryPassAccountedFor'
  BY DEF MarkDirty, EveryPassAccountedFor
<1> QED
  BY <1>2, <1>3, <1>4, <1>5, <1>6

LEMMA TimerFiresStep ==
  ASSUME NEW t \in Timers, DebounceInv, TimerFires(t)
  PROVE  DebounceInv'
<1> USE DEF DebounceInv, TypeOK, PassesInOrder, TimerFires
<1>1. TypeOK' /\ PassesInOrder'
  OBVIOUS
<1>2. NoLostWakeup'
  BY DEF NoLostWakeup
<1>3. TimerMatchesPending' /\ EveryPassAccountedFor'
  BY DEF TimerMatchesPending, EveryPassAccountedFor
<1> QED
  BY <1>1, <1>2, <1>3

LEMMA RebuildStep == DebounceInv /\ (RebuildReturns \/ RebuildTakes) => DebounceInv'
<1> SUFFICES ASSUME DebounceInv, RebuildReturns \/ RebuildTakes PROVE DebounceInv'
  OBVIOUS
<1> USE TimersAssumption, MaxMarksAssumption
    DEF DebounceInv, TypeOK, PassesInOrder, TimerMatchesPending, NoLostWakeup,
        EveryPassAccountedFor
<1>1. CASE RebuildReturns
  BY <1>1 DEF RebuildReturns
<1>2. CASE RebuildTakes
  <2>1. TypeOK'
    <3>1. rebuildPending' \in BOOLEAN
      BY <1>2 DEF RebuildTakes
    <3> QED
      BY <1>2, <3>1 DEF RebuildTakes
  <2>2. PassesInOrder' /\ TimerMatchesPending' /\ NoLostWakeup'
    BY <1>2 DEF RebuildTakes
  <2>3. EveryPassAccountedFor'
    BY <1>2 DEF RebuildTakes
  <2> QED
    BY <2>1, <2>2, <2>3
<1> QED
  BY <1>1, <1>2

LEMMA SignalStep ==
  ASSUME NEW n \in 1 .. MaxMarks, DebounceInv, SignalReturns(n)
  PROVE  DebounceInv'
<1> USE MaxMarksAssumption
    DEF DebounceInv, TypeOK, PassesInOrder, TimerMatchesPending, NoLostWakeup,
        EveryPassAccountedFor
<1>1. CASE SignalBuild(n)
  BY <1>1 DEF SignalBuild
<1>2. CASE SignalFails(n)
  BY <1>2 DEF SignalFails
<1> QED
  BY <1>1, <1>2 DEF SignalReturns

LEMMA DebounceNext == DebounceInv /\ [Next]_vars => DebounceInv'
<1> SUFFICES ASSUME DebounceInv, [Next]_vars PROVE DebounceInv'
  OBVIOUS
<1>1. CASE UNCHANGED vars
  BY <1>1 DEF vars, DebounceInv, TypeOK, TimerMatchesPending, NoLostWakeup,
              PassesInOrder, EveryPassAccountedFor
<1>2. CASE MarkDirty
  BY <1>2, MarkDirtyStep
<1>3. CASE \E t \in Timers : TimerFires(t)
  BY <1>3, TimerFiresStep
<1>4. CASE RebuildReturns \/ RebuildTakes
  BY <1>4, RebuildStep
<1>5. CASE \E n \in 1 .. MaxMarks : SignalReturns(n)
  BY <1>5, SignalStep
<1> QED
  BY <1>1, <1>2, <1>3, <1>4, <1>5 DEF Next

LEMMA DebounceInvariant == Spec => []DebounceInv
  BY DebounceInit, DebounceNext, PTL DEF Spec

\* The variables of the watcher keep their types.
THEOREM TypeCorrect == Spec => []TypeOK
<1>1. DebounceInv => TypeOK
  BY DEF DebounceInv
<1> QED
  BY <1>1, DebounceInvariant, PTL

\* A change that no pass has taken always has a timer running or a goroutine
\* on its way to the lock (markDirty and rebuild, watcher.go 295-329).
THEOREM WakeupKept == Spec => []NoLostWakeup
<1>1. DebounceInv => NoLostWakeup
  BY DEF DebounceInv
<1> QED
  BY <1>1, DebounceInvariant, PTL

\* The timer field of the watcher is set exactly while a change is waiting.
THEOREM TimerFieldCorrect == Spec => []TimerMatchesPending
<1>1. DebounceInv => TimerMatchesPending
  BY DEF DebounceInv
<1> QED
  BY <1>1, DebounceInvariant, PTL

\* No pass of rebuild disappears between Unlock and Signal.
THEOREM PassesAccounted == Spec => []EveryPassAccountedFor
<1>1. DebounceInv => EveryPassAccountedFor
  BY DEF DebounceInv
<1> QED
  BY <1>1, DebounceInvariant, PTL

-----------------------------------------------------------------------------
\* Every step of the watcher is a step of the coalescing queue or a stutter.
LEMMA StepSimulation == DebounceInv /\ [Next]_vars => [Coalesced!Next]_(Coalesced!vars)
<1> SUFFICES ASSUME DebounceInv, [Next]_vars
             PROVE  [Coalesced!Next]_(Coalesced!vars)
  OBVIOUS
<1> USE DEF Coalesced!vars
<1>1. CASE UNCHANGED vars
  BY <1>1 DEF vars
<1>2. CASE MarkDirty
  <2>1. Coalesced!Request
    BY <1>2 DEF MarkDirty, Coalesced!Request
  <2> QED
    BY <2>1 DEF Coalesced!Next
<1>3. CASE \E t \in Timers : TimerFires(t)
  BY <1>3 DEF TimerFires
<1>4. CASE RebuildReturns
  BY <1>4 DEF RebuildReturns
<1>5. CASE RebuildTakes
  <2>1. covered < marks
    BY <1>5 DEF RebuildTakes, DebounceInv, TimerMatchesPending
  <2>2. Coalesced!Take
    BY <1>5, <2>1 DEF RebuildTakes, Coalesced!Take
  <2> QED
    BY <2>2 DEF Coalesced!Next
<1>6. CASE \E n \in 1 .. MaxMarks : SignalReturns(n)
  <2>1. PICK n \in 1 .. MaxMarks : SignalReturns(n)
    BY <1>6
  <2>2. Coalesced!Finish(n)
    BY <2>1 DEF SignalReturns, SignalBuild, SignalFails, Coalesced!Finish,
                Coalesced!Announce, Coalesced!Lose
  <2> QED
    BY <2>2 DEF Coalesced!Next
<1> QED
  BY <1>1, <1>2, <1>3, <1>4, <1>5, <1>6 DEF Next

\* The watcher implements the coalescing queue: with timers, goroutines and
\* the lock hidden, its initial state and steps are those of CoalescedRebuild.
THEOREM ImplementsCoalescing ==
  Spec => Coalesced!Init /\ [][Coalesced!Next]_(Coalesced!vars)
<1>1. Init => Coalesced!Init
  BY DEF Init, Coalesced!Init
<1> QED
  BY <1>1, StepSimulation, DebounceInvariant, PTL DEF Spec
=============================================================================
