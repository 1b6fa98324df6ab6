-------------------------- MODULE K8sWatcherProofs --------------------------
(***************************************************************************)
(* Proofs about the Kubernetes service, for every set of resource kinds    *)
(* and changes: no change of the mirror is left behind by the builds, and  *)
(* a build never takes away what it could read, unless another has         *)
(* overtaken it.  Both rest on any running build that is not overtaken     *)
(* having read, or tried to read, or still having to read everything that  *)
(* is shown (ShownIsReadAgain).                                            *)
(***************************************************************************)
EXTENDS K8sWatcher, RebuildDebounceProofs

\* Builds read the mirror, and nothing else.
ReadsComeFromMirror ==
  /\ \A b \in BuildObjects : seen[b] \subseteq applied
  /\ shown \subseteq applied

ShownIsReadAgain ==
  \A b \in Reading \ overtaken : \A c \in shown :
    c.kind \in unread[b] \/ c \in seen[b] \cup skipped[b]

\* Only deletions of pods wait for PropagateError.
OnlyPodsAreEvicted == \A c \in evicting : IsEviction(c)

K8sInv ==
  /\ K8sTypeOK
  /\ OnlyPodsAreEvicted
  /\ DebounceInv
  /\ ReadsComeFromMirror
  /\ ShownIsReadAgain
  /\ UnshownIsUnderway

\* A restart leaves the debounced rebuild as it was at first.
LEMMA DebounceRestart == DebounceStartsOver => DebounceInv'
<1> SUFFICES ASSUME DebounceStartsOver PROVE DebounceInv'
  OBVIOUS
<1> USE MaxMarksAssumption DEF DebounceStartsOver
<1>1. TypeOK'
  <2>1. (rebuildPending \in BOOLEAN)'
    OBVIOUS
  <2> QED
    BY <2>1 DEF TypeOK
<1>2. TimerMatchesPending' /\ NoLostWakeup'
  BY DEF TimerMatchesPending, NoLostWakeup
<1>3. PassesInOrder' /\ EveryPassAccountedFor'
  BY DEF PassesInOrder, EveryPassAccountedFor
<1> QED
  BY <1>1, <1>2, <1>3 DEF DebounceInv

\* Every other step of the service is a step of the debounced rebuild or
\* leaves it alone.
LEMMA DebounceStep == K8sNext /\ ~Restart => [Next]_vars
<1> SUFFICES ASSUME K8sNext, ~Restart PROVE [Next]_vars
  OBVIOUS
<1>1. ASSUME NEW c \in Changes, Sync(c) \/ EvictionApplied(c) PROVE [Next]_vars
  BY <1>1 DEF Sync, EvictionApplied
<1>2. ASSUME NEW k \in Kinds, HandlerMarks(k) PROVE [Next]_vars
  BY <1>2 DEF HandlerMarks, Next
<1>3. CASE RebuildTimer
  BY <1>3 DEF RebuildTimer, Next
<1>4. ASSUME NEW n \in 1 .. MaxMarks, BuildSignalled(n) \/ BuildSignalFails(n)
      PROVE  [Next]_vars
  BY <1>4 DEF BuildSignalled, BuildSignalFails, SignalReturns, Next
<1>5. ASSUME NEW b \in BuildObjects, BuildStep(b) PROVE [Next]_vars
  BY <1>5 DEF BuildStep, BuildStarts, BuildReads, BuildReadsPart, BuildTakes, BuildGivesUp,
              BuildPublishes, BuildLinksPart
<1>6. CASE PushUpdate
  BY <1>6 DEF PushUpdate
<1> QED
  BY <1>1, <1>2, <1>3, <1>4, <1>5, <1>6 DEF K8sNext, ServiceStep

LEMMA DebounceKept == DebounceInv /\ [K8sNext]_k8sVars => DebounceInv'
<1>1. Restart => DebounceInv'
  BY DebounceRestart DEF Restart
<1> QED
  BY <1>1, DebounceStep, DebounceNext DEF k8sVars

LEMMA K8sTypeNext == K8sTypeOK /\ DebounceInv /\ [K8sNext]_k8sVars => K8sTypeOK'
<1> SUFFICES ASSUME K8sTypeOK, DebounceInv, [K8sNext]_k8sVars PROVE K8sTypeOK'
  OBVIOUS
<1>1. TypeOK'
  BY DebounceKept DEF DebounceInv
<1> USE <1>1, ChangesAssumption, MaxDisturbancesAssumption, MaxFailuresAssumption
    DEF K8sTypeOK, mirrorVars, buildVars, readVars, publishedVars, errorVars, Reading
<1>0. CallFails \/ UNCHANGED failures => failures' \in 0 .. MaxFailures
  BY DEF CallFails
<1> USE <1>0
<1>2. CASE UNCHANGED k8sVars
  BY <1>2 DEF k8sVars
<1>3. ASSUME NEW c \in Changes, Sync(c) PROVE K8sTypeOK'
  BY <1>3 DEF Sync, SyncApplies, SyncReturnsEarly, SyncLogsError, SyncEvicts, Deliver,
              GoesOnToMark, GivenUp
<1>4. ASSUME NEW c \in Changes, EvictionApplied(c) PROVE K8sTypeOK'
  BY <1>4 DEF EvictionApplied
<1>5. ASSUME NEW k \in Kinds, HandlerMarks(k) PROVE K8sTypeOK'
  BY <1>5 DEF HandlerMarks
<1>6. CASE RebuildTimer
  BY <1>6 DEF RebuildTimer
<1>7. ASSUME NEW n \in 1 .. MaxMarks, BuildSignalled(n) \/ BuildSignalFails(n)
      PROVE  K8sTypeOK'
  BY <1>7 DEF BuildSignalled, BuildSignalFails, BuildObjects, GivenUp
<1>8. ASSUME NEW b \in BuildObjects, BuildStep(b) PROVE K8sTypeOK'
  <2>1. CASE BuildStarts(b)
    <3>1. buildSignals' \in [BuildObjects -> Nat]
      BY <2>1 DEF BuildStarts
    <3> QED
      BY <2>1, <3>1 DEF BuildStarts
  <2>2. ASSUME NEW k \in Kinds, BuildReads(b, k) \/ BuildReadsPart(b, k) PROVE K8sTypeOK'
    <3>1. PICK unreadable \in SUBSET Changes : BuildTakes(b, k, unreadable)
      BY <2>2 DEF BuildReads, BuildReadsPart
    <3>2. seen' \in [BuildObjects -> SUBSET Changes]
      <4>1. seen[b] \cup ({c \in applied : c.kind = k} \ unreadable) \in SUBSET Changes
        OBVIOUS
      <4> QED
        BY <3>1, <4>1 DEF BuildTakes
    <3>3. skipped' \in [BuildObjects -> SUBSET Changes]
      BY <3>1 DEF BuildTakes
    <3>4. forgone' \subseteq Changes \ shown'
      BY <3>1 DEF BuildTakes, GivenUp
    <3>5. failures' \in 0 .. MaxFailures
      BY <2>2 DEF BuildReads, BuildReadsPart
    <3> QED
      BY <3>1, <3>2, <3>3, <3>4, <3>5 DEF BuildTakes
  <2>3. CASE BuildGivesUp(b)
    BY <2>3 DEF BuildGivesUp, BuildEnds, GivenUp, Carried
  <2>4. CASE BuildPublishes(b) \/ BuildLinksPart(b)
    <3>1. PICK unlinked \in SUBSET Changes : Publish(b, unlinked)
      BY <2>4 DEF BuildPublishes, BuildLinksPart
    <3>2. /\ shown' \subseteq Changes
          /\ overwritten' \subseteq Changes \ shown'
          /\ forgone' \subseteq Changes \ shown'
      BY <3>1 DEF Publish
    <3>3. /\ BuildEnds(b)
          /\ UNCHANGED <<vars, mirrorVars, buildSignals, pushes, restarts>>
          /\ failures' \in 0 .. MaxFailures
      BY <2>4 DEF BuildPublishes, BuildLinksPart
    <3>4. overtaken' \subseteq {a \in BuildObjects : builder'[a] = "reading"}
      BY <3>1, <3>3 DEF Publish, BuildEnds
    <3> QED
      BY <3>2, <3>3, <3>4 DEF BuildEnds
  <2> QED
    BY <1>8, <2>1, <2>2, <2>3, <2>4 DEF BuildStep
<1>9. CASE PushUpdate
  <2>1. pushes' \in 0 .. MaxDisturbances
    BY <1>9 DEF PushUpdate
  <2>2. buildSignals' \in [BuildObjects -> Nat]
    BY <1>9 DEF PushUpdate, BuildObjects
  <2> QED
    BY <1>9, <2>1, <2>2 DEF PushUpdate
<1>10. CASE Restart
  <2>1. restarts' \in 0 .. MaxDisturbances
    BY <1>10 DEF Restart
  <2>2. buildSignals' \in [BuildObjects -> Nat]
    BY <1>10 DEF Restart
  <2> QED
    BY <1>10, <2>1, <2>2 DEF Restart, NotDeleted
<1> QED
  BY <1>2, <1>3, <1>4, <1>5, <1>6, <1>7, <1>8, <1>9, <1>10 DEF K8sNext, ServiceStep

LEMMA EvictionNext == OnlyPodsAreEvicted /\ [K8sNext]_k8sVars => OnlyPodsAreEvicted'
<1> SUFFICES ASSUME OnlyPodsAreEvicted, [K8sNext]_k8sVars PROVE OnlyPodsAreEvicted'
  OBVIOUS
<1> USE DEF OnlyPodsAreEvicted, IsEviction
<1>1. ASSUME NEW c \in Changes, Sync(c) PROVE OnlyPodsAreEvicted'
  BY <1>1 DEF Sync, SyncApplies, SyncReturnsEarly, SyncLogsError, SyncEvicts
<1>2. CASE evicting' \subseteq evicting
  BY <1>2
<1> QED
  BY <1>1, <1>2 DEF K8sNext, ServiceStep, k8sVars, mirrorVars, EvictionApplied, HandlerMarks,
     RebuildTimer, BuildSignalled, BuildSignalFails, BuildStep, BuildStarts, BuildReads,
     BuildReadsPart, BuildTakes, BuildGivesUp, BuildPublishes, BuildLinksPart, PushUpdate, Restart

\* What a step may do to the mirror, the reads and what is shown.
LEMMA ReadsNext ==
  K8sInv /\ [K8sNext]_k8sVars => ReadsComeFromMirror' /\ ShownIsReadAgain'
<1> SUFFICES ASSUME K8sInv, [K8sNext]_k8sVars
             PROVE  ReadsComeFromMirror' /\ ShownIsReadAgain'
  OBVIOUS
<1> USE ChangesAssumption
    DEF K8sInv, ReadsComeFromMirror, ShownIsReadAgain, K8sTypeOK, mirrorVars, buildVars,
        readVars, publishedVars, Reading
<1>1. CASE UNCHANGED k8sVars
  BY <1>1 DEF k8sVars
<1>2. ASSUME NEW c \in Changes, Sync(c)
      PROVE  ReadsComeFromMirror' /\ ShownIsReadAgain'
  BY <1>2 DEF Sync, SyncApplies, SyncReturnsEarly, SyncLogsError, SyncEvicts
<1>3. ASSUME NEW c \in Changes, EvictionApplied(c)
      PROVE  ReadsComeFromMirror' /\ ShownIsReadAgain'
  BY <1>3 DEF EvictionApplied
<1>4. ASSUME NEW k \in Kinds, HandlerMarks(k)
      PROVE  ReadsComeFromMirror' /\ ShownIsReadAgain'
  BY <1>4 DEF HandlerMarks
<1>5. CASE RebuildTimer
  BY <1>5 DEF RebuildTimer
<1>6. ASSUME NEW n \in 1 .. MaxMarks, BuildSignalled(n) \/ BuildSignalFails(n)
      PROVE  ReadsComeFromMirror' /\ ShownIsReadAgain'
  BY <1>6 DEF BuildSignalled, BuildSignalFails
<1>7. ASSUME NEW b \in BuildObjects, BuildStep(b)
      PROVE  ReadsComeFromMirror' /\ ShownIsReadAgain'
  <2>1. CASE BuildStarts(b)
    BY <2>1 DEF BuildStarts
  <2>2. ASSUME NEW k \in Kinds, BuildReads(b, k) \/ BuildReadsPart(b, k)
        PROVE  ReadsComeFromMirror' /\ ShownIsReadAgain'
    <3>1. PICK unreadable : BuildTakes(b, k, unreadable)
      BY <2>2 DEF BuildReads, BuildReadsPart
    <3> QED
      BY <3>1 DEF BuildTakes
  <2>3. CASE BuildGivesUp(b)
    BY <2>3 DEF BuildGivesUp, BuildEnds
  <2>4. CASE BuildPublishes(b) \/ BuildLinksPart(b)
    <3>1. PICK unlinked : Publish(b, unlinked)
      BY <2>4 DEF BuildPublishes, BuildLinksPart
    <3>2. BuildEnds(b) /\ UNCHANGED mirrorVars
      BY <2>4 DEF BuildPublishes, BuildLinksPart
    <3> QED
      BY <3>1, <3>2 DEF BuildEnds, Publish
  <2> QED
    BY <1>7, <2>1, <2>2, <2>3, <2>4 DEF BuildStep
<1>8. CASE PushUpdate
  BY <1>8 DEF PushUpdate
<1>9. CASE Restart
  BY <1>9 DEF Restart
<1> QED
  BY <1>1, <1>2, <1>3, <1>4, <1>5, <1>6, <1>7, <1>8, <1>9 DEF K8sNext, ServiceStep

Excused(c) == IsEviction(c) \/ c \in forgone \cup overwritten \/ Underway(c)

LEMMA UnderwayNext == K8sInv /\ [K8sNext]_k8sVars => UnshownIsUnderway'
<1> SUFFICES ASSUME K8sInv, [K8sNext]_k8sVars, NEW c \in (applied \ shown)'
             PROVE  Excused(c)'
  BY DEF UnshownIsUnderway, Excused
<1> USE ChangesAssumption
    DEF Excused, IsEviction, K8sInv, K8sTypeOK, mirrorVars, buildVars, readVars, publishedVars,
        errorVars
<1>0. /\ covered \in Nat /\ marks \in Nat
      /\ c \in applied \ shown => Excused(c)
  BY MaxMarksAssumption DEF UnshownIsUnderway, TypeOK
<1>1. CASE UNCHANGED k8sVars
  BY <1>0, <1>1 DEF k8sVars, vars, Underway
<1>2. ASSUME NEW d \in Changes, Sync(d)
      PROVE  Excused(c)'
  <2>1. /\ UNCHANGED <<vars, buildVars>>
        /\ handler' = handler \/ handler' = [handler EXCEPT ![d.kind] = "dirty"]
        /\ forgone \subseteq forgone'
        /\ todo' = todo \ {d}
        /\ c \notin applied => c = d /\ handler' = [handler EXCEPT ![d.kind] = "dirty"]
        /\ c = d /\ c \in applied =>
             \/ c \in forgone'
             \/ handler' = [handler EXCEPT ![d.kind] = "dirty"]
    BY <1>2 DEF Sync, SyncApplies, SyncReturnsEarly, SyncLogsError, SyncEvicts, GoesOnToMark,
                Deliver, GivenUp
  <2> QED
    BY <1>0, <2>1 DEF vars, Underway
<1>3. ASSUME NEW d \in Changes, EvictionApplied(d)
      PROVE  Excused(c)'
  <2>1. evicting' = evicting \ {d} /\ d \in evicting /\ applied' = applied \cup {d}
    BY <1>3 DEF EvictionApplied
  <2>2. CASE c \in applied
    BY <1>0, <1>3, <2>2 DEF EvictionApplied, vars, Underway
  <2>3. CASE c \notin applied
    BY <2>1, <2>3 DEF OnlyPodsAreEvicted
  <2> QED
    BY <2>2, <2>3
<1>4. ASSUME NEW k \in Kinds, HandlerMarks(k)
      PROVE  Excused(c)'
  <2>1. covered' < marks'
    BY <1>0, <1>4 DEF HandlerMarks, MarkDirty, DebounceInv, PassesInOrder
  <2> QED
    BY <2>1 DEF Underway
<1>5. CASE RebuildTimer
  <2>1. UNCHANGED <<mirrorVars, buildVars, forgone>>
    BY <1>5 DEF RebuildTimer
  <2>2. passes' # {} \/ (covered' = covered /\ marks' = marks /\ passes' = passes)
    BY <1>5 DEF RebuildTimer, TimerFires, RebuildReturns, RebuildTakes
  <2> QED
    BY <1>0, <2>1, <2>2 DEF Underway
<1>6. ASSUME NEW n \in 1 .. MaxMarks, BuildSignalled(n)
      PROVE  Excused(c)'
  <2>1. Watched \in BuildObjects /\ buildSignals'[Watched] > 0
    BY <1>6 DEF BuildSignalled, BuildObjects
  <2> QED
    BY <2>1 DEF Underway
<1>7. ASSUME NEW n \in 1 .. MaxMarks, BuildSignalFails(n)
      PROVE  Excused(c)'
  BY <1>7 DEF BuildSignalFails, GivenUp
<1>8. ASSUME NEW b \in BuildObjects, BuildStarts(b) PROVE Excused(c)'
  <2>1. builder'[b] = "reading" /\ unread'[b] = Kinds /\ c.kind \in Kinds
    BY <1>8 DEF BuildStarts
  <2> QED
    BY <2>1 DEF Underway
<1>9. ASSUME NEW b \in BuildObjects, NEW k \in Kinds, BuildReads(b, k) \/ BuildReadsPart(b, k)
      PROVE  Excused(c)'
  <2>1. PICK unreadable : BuildTakes(b, k, unreadable)
    BY <1>9 DEF BuildReads, BuildReadsPart
  <2>2. CASE c \in unreadable
    BY <2>1, <2>2 DEF BuildTakes, GivenUp
  <2>3. CASE c \notin unreadable
    <3>1. \A a \in BuildObjects :
            builder[a] = "reading" /\ (c.kind \in unread[a] \/ c \in seen[a]) =>
              builder'[a] = "reading" /\ (c.kind \in unread'[a] \/ c \in seen'[a])
      BY <2>1, <2>3 DEF BuildTakes
    <3> QED
      BY <1>0, <2>1, <3>1 DEF BuildTakes, GivenUp, vars, Underway
  <2> QED
    BY <2>2, <2>3
<1>10. ASSUME NEW b \in BuildObjects, BuildGivesUp(b) PROVE Excused(c)'
  <2>1. CASE c \in Carried(b)
    BY <1>10, <2>1 DEF BuildGivesUp, GivenUp
  <2>2. CASE c \notin Carried(b)
    <3>1. \A a \in BuildObjects :
            builder[a] = "reading" /\ (c.kind \in unread[a] \/ c \in seen[a]) =>
              builder'[a] = "reading" /\ (c.kind \in unread'[a] \/ c \in seen'[a])
      BY <1>10, <2>2 DEF BuildGivesUp, BuildEnds, Carried
    <3> QED
      BY <1>0, <1>10, <3>1 DEF BuildGivesUp, GivenUp, vars, Underway
  <2> QED
    BY <2>1, <2>2
<1>11. ASSUME NEW b \in BuildObjects, BuildPublishes(b) \/ BuildLinksPart(b)
       PROVE  Excused(c)'
  <2>1. PICK unlinked : Publish(b, unlinked)
    BY <1>11 DEF BuildPublishes, BuildLinksPart
  <2>2. /\ b \in Reading /\ unread[b] = {}
        /\ BuildEnds(b)
        /\ UNCHANGED <<vars, mirrorVars, buildSignals>>
    BY <1>11 DEF BuildPublishes, BuildLinksPart, Reading
  <2>3. c \in applied /\ c \notin seen[b] \ unlinked
    BY <2>1, <2>2 DEF Publish
  <2>4. CASE c \in unlinked \cup skipped[b] \cup forgone \cup overwritten
    BY <2>1, <2>3, <2>4 DEF Publish
  <2>5. CASE c \in shown /\ c \notin seen[b] \cup skipped[b]
    <3>1. b \in overtaken
      BY <2>2, <2>5 DEF ShownIsReadAgain
    <3> QED
      BY <2>1, <2>3, <2>5, <3>1 DEF Publish
  <2>6. CASE c \notin shown \cup forgone \cup overwritten \cup seen[b]
    <3>1. \A a \in BuildObjects :
            builder[a] = "reading" /\ (c.kind \in unread[a] \/ c \in seen[a]) =>
              builder'[a] = "reading" /\ (c.kind \in unread'[a] \/ c \in seen'[a])
      BY <2>2, <2>6 DEF BuildEnds
    <3> QED
      BY <1>0, <2>2, <2>3, <2>6, <3>1 DEF vars, Underway
  <2> QED
    BY <2>3, <2>4, <2>5, <2>6
<1>12. CASE PushUpdate
  <2>1. \A a \in BuildObjects : buildSignals[a] > 0 => buildSignals'[a] > 0
    BY <1>12 DEF PushUpdate
  <2> QED
    BY <1>0, <1>12, <2>1 DEF PushUpdate, vars, Underway
<1>13. CASE Restart
  BY <1>13 DEF Restart, NotDeleted, Underway
<1> QED
  BY <1>1, <1>2, <1>3, <1>4, <1>5, <1>6, <1>7, <1>8, <1>9, <1>10, <1>11, <1>12, <1>13
     DEF K8sNext, ServiceStep, BuildStep

LEMMA K8sInvariant == K8sSpec => []K8sInv
<1>1. K8sInit => K8sInv
  <2> SUFFICES ASSUME K8sInit PROVE K8sInv
    OBVIOUS
  <2>1. DebounceInv
    BY DebounceInit DEF K8sInit
  <2>2. K8sTypeOK
    BY <2>1, MaxDisturbancesAssumption, MaxFailuresAssumption
       DEF K8sInit, K8sTypeOK, DebounceInv
  <2> QED
    BY <2>1, <2>2 DEF K8sInit, K8sInv, OnlyPodsAreEvicted, ReadsComeFromMirror,
                      ShownIsReadAgain, UnshownIsUnderway, Reading
<1>2. K8sInv /\ [K8sNext]_k8sVars => K8sInv'
  <2> SUFFICES ASSUME K8sInv, [K8sNext]_k8sVars PROVE K8sInv'
    OBVIOUS
  <2>1. DebounceInv'
    BY DebounceKept DEF K8sInv
  <2> QED
    BY <2>1, K8sTypeNext, EvictionNext, ReadsNext, UnderwayNext DEF K8sInv
<1> QED
  BY <1>1, <1>2, PTL DEF K8sSpec

\* The variables of the service keep their types.
THEOREM K8sTypeCorrect == K8sSpec => []K8sTypeOK
<1>1. K8sInv => K8sTypeOK
  BY DEF K8sInv
<1> QED
  BY <1>1, K8sInvariant, PTL

\* A change that is in the mirror but not in what build has published is on
\* its way to a build that will read it, or a call failed that should have
\* shown it, or it was published and then replaced by an overtaken build:
\* builds of both objects, which may skip objects and links they get an error
\* for, handlers and restarts may interleave in any way (processResource,
\* markDirty, rebuild, build and onAfterStart).
THEOREM NoChangeLeftBehind == K8sSpec => []UnshownIsUnderway
<1>1. K8sInv => UnshownIsUnderway
  BY DEF K8sInv
<1> QED
  BY <1>1, K8sInvariant, PTL

\* Since the last restart a build takes away only what it could not read of
\* what earlier ones have published (ReqError), unless it started before the
\* last of them ended.
THEOREM BuildsOnlyAdd == K8sSpec => ShownNeverShrinks
<1> DEFINE Lost == shown \ shown'
           Kept == \/ shown \subseteq shown'
                   \/ restarts' # restarts
                   \/ \E b \in Reading \ Reading' : b \in overtaken \/ Lost \subseteq skipped[b]
<1>1. K8sInv /\ [K8sNext]_k8sVars => [Kept]_k8sVars
  <2> SUFFICES ASSUME K8sInv, K8sNext PROVE Kept
    OBVIOUS
  <2>1. ASSUME NEW b \in BuildObjects, BuildPublishes(b) \/ BuildLinksPart(b) PROVE Kept
    <3>1. b \in Reading /\ b \notin Reading' /\ unread[b] = {}
      BY <2>1 DEF BuildPublishes, BuildLinksPart, BuildEnds, Reading, K8sInv, K8sTypeOK
    <3>2. PICK unlinked \in SUBSET (seen[b] \ shown) : Publish(b, unlinked)
      BY <2>1 DEF BuildPublishes, BuildLinksPart
    <3>3. CASE b \in overtaken
      BY <3>1, <3>3
    <3>4. CASE b \notin overtaken
      <4>1. \A c \in shown : c \in seen[b] \cup skipped[b]
        BY <3>1, <3>4 DEF K8sInv, ShownIsReadAgain
      <4>2. Lost \subseteq skipped[b]
        BY <3>2, <4>1 DEF Publish
      <4> QED
        BY <3>1, <4>2
    <3> QED
      BY <3>3, <3>4
  <2>2. CASE Restart
    BY <2>2 DEF Restart, K8sInv, K8sTypeOK
  <2>3. CASE ~Restart /\ \A b \in BuildObjects : ~BuildPublishes(b) /\ ~BuildLinksPart(b)
    BY <2>3 DEF K8sNext, ServiceStep, buildVars, publishedVars, Sync, EvictionApplied,
       HandlerMarks, RebuildTimer, BuildSignalled, BuildSignalFails, PushUpdate, BuildStep,
       BuildStarts, BuildReads, BuildReadsPart, BuildTakes, BuildGivesUp
  <2> QED
    BY <2>1, <2>2, <2>3
<1> QED
  BY <1>1, K8sInvariant, PTL DEF K8sSpec, ShownNeverShrinks

-----------------------------------------------------------------------------
\* The debounced rebuild keeps its promises inside the service, across
\* restarts: between them no change is without a timer or a callback, the timer
\* field agrees with what waits, and no pass disappears (watcher.go 295-329).
THEOREM WakeupsKeptInService ==
  K8sSpec => [](NoLostWakeup /\ TimerMatchesPending /\ EveryPassAccountedFor)
<1>1. K8sInv => NoLostWakeup /\ TimerMatchesPending /\ EveryPassAccountedFor
  BY DEF K8sInv, DebounceInv
<1> QED
  BY <1>1, K8sInvariant, PTL

\* A restart takes the coalescing queue back to where it starts.
LEMMA RestartsQueue == DebounceStartsOver => (Coalesced!Init)'
  BY DEF DebounceStartsOver, Coalesced!Init

\* What the service asks of build is what the coalescing queue would ask, with
\* informers, builds and the other models around it: each of its steps is one of
\* CoalescedRebuild, or leaves the queue alone, or is a restart, from which the
\* queue starts anew.
THEOREM ServiceCoalesces ==
  K8sSpec => /\ Coalesced!Init
             /\ [][Coalesced!Next \/ (Restart /\ (Coalesced!Init)')]_(Coalesced!vars)
<1>1. K8sInit => Coalesced!Init
  BY DEF K8sInit, Init, Coalesced!Init
<1>2. K8sInv /\ [K8sNext]_k8sVars
        => [Coalesced!Next \/ (Restart /\ (Coalesced!Init)')]_(Coalesced!vars)
  <2> SUFFICES ASSUME K8sInv, [K8sNext]_k8sVars
               PROVE  [Coalesced!Next \/ (Restart /\ (Coalesced!Init)')]_(Coalesced!vars)
    OBVIOUS
  <2>1. CASE Restart
    <3>1. (Coalesced!Init)'
      BY <2>1, RestartsQueue DEF Restart
    <3> QED
      BY <2>1, <3>1
  <2>2. CASE ~Restart
    <3>1. [Next]_vars
      BY <2>2, DebounceStep DEF k8sVars
    <3> QED
      BY <3>1, StepSimulation DEF K8sInv
  <2> QED
    BY <2>1, <2>2
<1> QED
  BY <1>1, <1>2, K8sInvariant, PTL DEF K8sSpec
=============================================================================
