-------------------------- MODULE CoalescedRebuild --------------------------
(***************************************************************************)
(* What the watcher of the Kubernetes model promises about rebuilds,       *)
(* without timers, callbacks or locks.  Changes are numbered in the order  *)
(* in which they are reported.  A pass covers every change reported so     *)
(* far, so any number of changes may share one pass, and each pass ends in *)
(* one signal to the build function, which is sent or fails.               *)
(***************************************************************************)
EXTENDS Naturals

CONSTANT MaxMarks   \* bound on the number of reported changes

VARIABLES
  requested,   \* number of changes reported
  covered,     \* changes 1..covered have been taken by some pass
  passes,      \* passes that have not sent their signal yet, named by what they cover
  announced,   \* changes 1..announced are covered by a signal that was sent
  lost         \* passes whose Signal call failed

vars == <<requested, covered, passes, announced, lost>>

Init ==
  /\ requested = 0
  /\ covered = 0
  /\ passes = {}
  /\ announced = 0
  /\ lost = {}

Request ==
  /\ requested < MaxMarks
  /\ requested' = requested + 1
  /\ UNCHANGED <<covered, passes, announced, lost>>

Take ==
  /\ covered < requested
  /\ covered' = requested
  /\ passes' = passes \cup {requested}
  /\ UNCHANGED <<requested, announced, lost>>

Announce(n) ==
  /\ n \in passes
  /\ passes' = passes \ {n}
  /\ announced' = IF n > announced THEN n ELSE announced
  /\ UNCHANGED <<requested, covered, lost>>

Lose(n) ==
  /\ n \in passes
  /\ passes' = passes \ {n}
  /\ lost' = lost \cup {n}
  /\ UNCHANGED <<requested, covered, announced>>

Finish(n) == Announce(n) \/ Lose(n)

Next == Request \/ Take \/ \E n \in 1 .. MaxMarks : Finish(n)

Spec ==
  /\ Init
  /\ [][Next]_vars
  /\ WF_vars(Take)
  /\ \A n \in 1 .. MaxMarks : WF_vars(Finish(n))
=============================================================================
