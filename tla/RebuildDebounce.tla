-------------------------- MODULE RebuildDebounce ---------------------------
(***************************************************************************)
(* The debounced rebuild of the Kubernetes watcher (watcher.go, markDirty  *)
(* and rebuild).  Any number of informer goroutines report changes; a      *)
(* time.AfterFunc timer runs rebuild on a goroutine of its own, and        *)
(* rebuildMu orders the critical sections of both.                         *)
(*                                                                         *)
(* A critical section only assigns two fields and arms a timer, so it is   *)
(* one action.  What the mutex does not order is visible here: a timer     *)
(* that has fired, but whose goroutine has not reached the lock, can be    *)
(* reset by markDirty and fire again, and the timer field can be cleared   *)
(* while that timer is still running, so that several timers run at once.  *)
(* The 300 ms delay is abstracted: a scheduled timer may fire at any time. *)
(***************************************************************************)
EXTENDS Naturals, FiniteSets

CONSTANTS
  Timers,      \* identities of time.Timer objects
  NoTimer,     \* nil
  MaxMarks     \* bound on the number of markDirty calls

ASSUME TimersAssumption == NoTimer \notin Timers
ASSUME MaxMarksAssumption == MaxMarks \in Nat

VARIABLES
  rebuildPending,     \* Watcher.rebuildPending
  delayRebuildTimer,  \* Watcher.delayRebuildTimer, or NoTimer
  scheduled,          \* timers that are running and will call rebuild
  callbacks,          \* goroutines that entered rebuild and wait for rebuildMu
  marks,              \* number of markDirty calls so far
  covered,            \* marks that some pass of rebuild has taken
  passes,             \* passes between Unlock and Signal, named by the marks they cover
  announced,          \* the latest mark a sent build signal covers
  lost                \* passes whose Signal call returned an error

vars == <<rebuildPending, delayRebuildTimer, scheduled, callbacks, marks,
          covered, passes, announced, lost>>

Init ==
  /\ rebuildPending = FALSE
  /\ delayRebuildTimer = NoTimer
  /\ scheduled = {}
  /\ callbacks = 0
  /\ marks = 0
  /\ covered = 0
  /\ passes = {}
  /\ announced = 0
  /\ lost = {}

\* Timer.Reset: a running timer starts over, one that has fired runs again.
ResetTimer ==
  /\ delayRebuildTimer # NoTimer
  /\ scheduled' = scheduled \cup {delayRebuildTimer}
  /\ UNCHANGED delayRebuildTimer

\* time.AfterFunc: a new timer object, none of those still running.
StartTimer ==
  /\ delayRebuildTimer = NoTimer
  /\ \E t \in Timers \ scheduled :
       /\ delayRebuildTimer' = t
       /\ scheduled' = scheduled \cup {t}

\* Faulty variant: the flag is not set.
MarkDirtyForgetsFlag ==
  /\ marks < MaxMarks
  /\ marks' = marks + 1
  /\ ResetTimer \/ StartTimer
  /\ UNCHANGED <<rebuildPending, callbacks, covered, passes, announced, lost>>

MarkDirty ==
  /\ marks < MaxMarks
  /\ marks' = marks + 1
  /\ rebuildPending' = TRUE
  /\ ResetTimer \/ StartTimer
  /\ UNCHANGED <<callbacks, covered, passes, announced, lost>>

\* The runtime starts a goroutine that calls rebuild.
TimerFires(t) ==
  /\ t \in scheduled
  /\ scheduled' = scheduled \ {t}
  /\ callbacks' = callbacks + 1
  /\ UNCHANGED <<rebuildPending, delayRebuildTimer, marks, covered, passes,
                 announced, lost>>

\* Faulty variant: rebuild signals again without looking at the flag.
RebuildRepeats ==
  /\ callbacks > 0
  /\ ~rebuildPending
  /\ callbacks' = callbacks - 1
  /\ passes' = passes \cup {marks}
  /\ UNCHANGED <<rebuildPending, delayRebuildTimer, scheduled, marks, covered,
                 announced, lost>>

\* rebuild finds that an earlier callback has taken the change already.
RebuildReturns ==
  /\ callbacks > 0
  /\ ~rebuildPending
  /\ callbacks' = callbacks - 1
  /\ UNCHANGED <<rebuildPending, delayRebuildTimer, scheduled, marks, covered,
                 passes, announced, lost>>

\* Faulty variants: the timer field is kept; no signal is sent while another
\* one is being sent; one change too many is counted.
TakesKeepingTimer ==
  /\ callbacks > 0
  /\ rebuildPending
  /\ callbacks' = callbacks - 1
  /\ rebuildPending' = FALSE
  /\ covered' = marks
  /\ passes' = passes \cup {marks}
  /\ UNCHANGED <<delayRebuildTimer, scheduled, marks, announced, lost>>

TakesOnePassAtATime ==
  /\ callbacks > 0
  /\ rebuildPending
  /\ callbacks' = callbacks - 1
  /\ rebuildPending' = FALSE
  /\ delayRebuildTimer' = NoTimer
  /\ covered' = marks
  /\ passes' = IF passes = {} THEN {marks} ELSE passes
  /\ UNCHANGED <<scheduled, marks, announced, lost>>

TakesOneTooMany ==
  /\ callbacks > 0
  /\ rebuildPending
  /\ callbacks' = callbacks - 1
  /\ rebuildPending' = FALSE
  /\ delayRebuildTimer' = NoTimer
  /\ covered' = marks + 1
  /\ passes' = passes \cup {marks}
  /\ UNCHANGED <<scheduled, marks, announced, lost>>

\* rebuild takes all the changes reported so far and leaves the lock.
RebuildTakes ==
  /\ callbacks > 0
  /\ rebuildPending
  /\ callbacks' = callbacks - 1
  /\ rebuildPending' = FALSE
  /\ delayRebuildTimer' = NoTimer
  /\ covered' = marks
  /\ passes' = passes \cup {marks}
  /\ UNCHANGED <<scheduled, marks, announced, lost>>

SignalBuild(n) ==
  /\ n \in passes
  /\ passes' = passes \ {n}
  /\ announced' = IF n > announced THEN n ELSE announced
  /\ UNCHANGED <<rebuildPending, delayRebuildTimer, scheduled, callbacks, marks,
                 covered, lost>>

\* MsgOnErrorReturn logs the error of Signal; the pass is over.
SignalFails(n) ==
  /\ n \in passes
  /\ passes' = passes \ {n}
  /\ lost' = lost \cup {n}
  /\ UNCHANGED <<rebuildPending, delayRebuildTimer, scheduled, callbacks, marks,
                 covered, announced>>

SignalReturns(n) == SignalBuild(n) \/ SignalFails(n)

Next ==
  \/ MarkDirty
  \/ \E t \in Timers : TimerFires(t)
  \/ RebuildReturns
  \/ RebuildTakes
  \/ \E n \in 1 .. MaxMarks : SignalReturns(n)

\* Running timers fire, goroutines waiting for the lock get it, and a Signal
\* call returns.  Nothing makes a further change happen.
Fairness ==
  /\ \A t \in Timers : WF_vars(TimerFires(t))
  /\ WF_vars(RebuildReturns)
  /\ WF_vars(RebuildTakes)
  /\ \A n \in 1 .. MaxMarks : WF_vars(SignalReturns(n))

Spec == Init /\ [][Next]_vars /\ Fairness

-----------------------------------------------------------------------------
TypeOK ==
  /\ rebuildPending \in BOOLEAN
  /\ delayRebuildTimer \in Timers \cup {NoTimer}
  /\ scheduled \subseteq Timers
  /\ callbacks \in Nat
  /\ marks \in 0 .. MaxMarks
  /\ covered \in 0 .. MaxMarks
  /\ passes \subseteq 1 .. MaxMarks
  /\ announced \in 0 .. MaxMarks
  /\ lost \subseteq 1 .. MaxMarks

\* Safety: no wake-up is lost.  A change that no pass has taken keeps a timer
\* running or a goroutine on its way to the lock, whatever order the timer,
\* the resets and the callbacks of older timers come in (watcher.go 299-318).
NoLostWakeup ==
  covered < marks => callbacks > 0 \/ delayRebuildTimer \in scheduled

\* Safety: the timer field is set exactly while a change is waiting, so that
\* markDirty never resets a timer that belongs to a pass already taken, and
\* a pass never forgets the timer of a later change.
TimerMatchesPending ==
  /\ rebuildPending <=> delayRebuildTimer # NoTimer
  /\ rebuildPending <=> covered < marks

\* Safety: every pass that was taken is still to be signalled, was signalled
\* by a signal that covers it, or failed: none disappears between Unlock and
\* Signal, even when the signals of two passes overtake each other.
EveryPassAccountedFor ==
  covered > 0 => covered \in passes \/ covered \in lost \/ announced = covered

\* Liveness: each change is in the end covered by a signal that was sent, or
\* by one whose Signal call failed.
EveryMarkAnswered ==
  \A n \in 1 .. MaxMarks :
    marks >= n ~> (announced >= n \/ \E m \in lost : m >= n)

\* Refinement: with timers, goroutines and the lock hidden, the watcher is the
\* coalescing queue of CoalescedRebuild, its fairness included.
Coalesced == INSTANCE CoalescedRebuild WITH requested <- marks
CoalescedSpec == Coalesced!Spec
=============================================================================
