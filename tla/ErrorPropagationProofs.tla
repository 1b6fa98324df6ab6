----------------------- MODULE ErrorPropagationProofs -----------------------
(***************************************************************************)
(* Proofs about error propagation, for every graph, number of pods and     *)
(* clock.  That a handler overwrites only older results rests on the check *)
(* it made when it started still being true when it writes (ChecksHold):   *)
(* nobody else writes the object meanwhile.  That waves reach everyone     *)
(* rests on tracking where the wave of a written stamp is now (OnItsWay),  *)
(* and that pods show their restarts on tracking the news of one (Tracked),*)
(* and on who is asked in the end, if no call fails (NewsIsAsked).         *)
(* That only a newer wave hides an infected neighbour, where one path leads*)
(* from a pod to an object, rests on what waves of one time have in common *)
(* (TimesFit): one pod, and nobody behind them whom they have still to     *)
(* reach; and on what such a wave has shown to its object (Seen).          *)
(* That errors are shown exactly where they reach, on a tree with links    *)
(* that lead back, rests on objects counting only those above them: the    *)
(* wave of an object is on its way to those below it (Coming), and carries *)
(* what the object says (Agreeing); and on pods without an owner keeping   *)
(* quiet until they are deleted (BareSilent).                              *)
(***************************************************************************)
EXTENDS ErrorPropagation, WellFoundedInduction, TLAPS

Scanning(o) == task[o].phase = "scan"

\* The checks of propagateErrorRecalculate are still true while neighbours are
\* read, and every object to be signalled has been collected, but for those to
\* which there was no link yet.
ChecksHold ==
  \A o \in Objects :
    Scanning(o) =>
      /\ stamp[o] < task[o].ts
      /\ task[o].blast <= blast[o]
      /\ \A x \in Neighbours(o, Propagate) : x \in task[o].targets \/ task[o].ts <= lost[x]

\* The handler of n has written its wave and will signal o.
AboutToSignal(n, o) ==
  /\ task[n].phase = "finish"
  /\ task[n].ts = stamp[n]
  /\ task[n].blast = blast[n]
  /\ o \in task[n].targets

WaveTo(n, o) == [from |-> n, to |-> o, ts |-> stamp[n], blast |-> blast[n] + 1]

\* What the last wave of n means for o: o knows it or a newer one, or is closer
\* to a source, or a failing call or a late link kept it from o, or it is on its
\* way, or o is handling it.
OnItsWay(n, o) ==
  \/ stamp[n] <= stamp[o]
  \/ blast[o] <= blast[n]
  \/ stamp[n] <= lost[o]
  \/ WaveTo(n, o) \in waves
  \/ AboutToSignal(n, o)
  \/ Scanning(o) /\ stamp[n] <= task[o].ts

WavesTracked ==
  \A n, o \in alive : <<n, o>> \in Propagate /\ n # o => OnItsWay(n, o)

PropagationInv == TypeOK /\ ChecksHold /\ WavesTracked

-----------------------------------------------------------------------------
LEMMA IdleIsTask == Idle \in Task /\ Deleting \in Task
  BY DEF Idle, Deleting, Task

\* What a step does to the record of a running handler.
LEMMA StepOfTask ==
  ASSUME NEW t \in Task, NEW S \in SUBSET Objects, NEW F \in SUBSET Objects
  PROVE  /\ [t EXCEPT !.phase = "finish"] \in Task
         /\ [t EXCEPT !.unread = S] \in Task
         /\ [t EXCEPT !.found = F, !.unread = S] \in Task
  BY DEF Task

\* The clock is read as a number.
LEMMA NowIsNat ==
  ASSUME TypeOK, NEW p \in Pods, NEW t \in Now(p)
  PROVE  t \in Nat /\ p \in Objects
<1>1. PICK s \in ClockSteps : t = clock + s
  BY DEF Now
<1>2. clock \in Nat /\ s \in Nat
  BY ClockAssumption DEF TypeOK
<1> QED
  BY <1>1, <1>2, GraphAssumption

\* What is kept from objects is recorded for good.
LEMMA MissesRecorded ==
  ASSUME lost \in [Objects -> Nat], NEW S, NEW ts \in Nat, Misses(S, ts)
  PROVE  /\ lost' \in [Objects -> Nat]
         /\ \A x \in Objects : lost[x] <= lost'[x]
         /\ \A x \in Objects \cap S : ts <= lost'[x]
  BY DEF Misses

LEMMA ScanIsTask ==
  ASSUME TypeOK, NEW o \in Objects, NEW ts \in Nat, NEW radius \in Nat,
         NEW op \in {"update", "delete"}, NEW R \in SUBSET Pods
  PROVE  Scan(o, ts, radius, op, R) \in Task
<1>1. Linked(o, Rely) \subseteq Objects /\ Linked(o, Propagate) \subseteq Objects
  BY DEF Linked, Neighbours, TypeOK
<1> QED
  BY <1>1 DEF Scan, Task

\* What becomes of a handler that starts: it scans, with the checks passed, or
\* the wave has no effect, for one of three reasons.
LEMMA StartOutcome ==
  ASSUME TypeOK, NEW o \in Objects, NEW ts \in Nat, NEW radius \in Nat,
         NEW op \in {"update", "delete"}, Start(o, ts, radius, op),
         task[o].phase = "idle"
  PROVE  /\ task' \in [Objects -> Task]
         /\ lost' \in [Objects -> Nat] /\ blind' \subseteq Objects
         /\ early' \in BOOLEAN /\ failures' \in Nat
         /\ \A x \in Objects : lost[x] <= lost'[x]
         /\ \A x \in Objects \ {o} : task'[x] = task[x]
         /\ \/ /\ o \in alive /\ Accepts(o, ts, radius)
               /\ \A x \in Overlooked(o, Propagate) : ts <= lost'[x]
               /\ \E R \in SUBSET Pods : task'[o] = Scan(o, ts, radius, op, R)
            \/ /\ task'[o].phase # "scan"
               /\ o \notin alive \/ ts <= lost'[o] \/ ~Accepts(o, ts, radius)
<1> USE DEF TypeOK
<1>1. CASE o \notin alive
  BY <1>1 DEF Start, faults
<1>2. CASE o \in alive /\ CallFails /\ Misses({o}, ts) /\ UNCHANGED <<task, blind, early>>
  BY <1>2, MissesRecorded DEF CallFails
<1>3. CASE o \in alive /\ Accepts(o, ts, radius) /\ Begin(o, ts, radius, op)
  <2>1. PICK R \in SUBSET Pods : task' = [task EXCEPT ![o] = Scan(o, ts, radius, op, R)]
    BY <1>3 DEF Begin
  <2>2. Scan(o, ts, radius, op, R) \in Task
    BY ScanIsTask
  <2>3. task' \in [Objects -> Task] /\ task'[o] = Scan(o, ts, radius, op, R)
    BY <2>1, <2>2
  <2>4. blind' \subseteq Objects /\ failures' \in Nat
    BY <1>3 DEF Begin, CallFails
  <2>5. early' \in BOOLEAN
    BY <1>3 DEF Begin
  <2>6. /\ lost' \in [Objects -> Nat]
        /\ \A x \in Objects : lost[x] <= lost'[x]
        /\ \A x \in Overlooked(o, Propagate) : ts <= lost'[x]
    <3>1. Misses(Overlooked(o, Propagate), ts)
      BY <1>3 DEF Begin
    <3>2. Overlooked(o, Propagate) \subseteq Objects
      BY DEF Overlooked, Neighbours
    <3> QED
      BY <3>1, <3>2, MissesRecorded
  <2> QED
    BY <1>3, <2>1, <2>3, <2>4, <2>5, <2>6
<1>4. CASE /\ o \in alive
           /\ ~Accepts(o, ts, radius)
           /\ task' = [task EXCEPT ![o] = IF op = "delete" THEN Deleting ELSE Idle]
           /\ UNCHANGED faults
  <2>1. /\ task'[o] \in {Deleting, Idle}
        /\ Idle.phase # "scan" /\ Deleting.phase # "scan"
    BY <1>4 DEF Idle, Deleting
  <2> QED
    BY <1>4, <2>1, IdleIsTask DEF faults
<1> QED
  BY <1>1, <1>2, <1>3, <1>4 DEF Start

LEMMA TypeNext == TypeOK /\ [Next]_vars => TypeOK'
<1> SUFFICES ASSUME TypeOK, [Next]_vars PROVE TypeOK'
  OBVIOUS
<1> USE GraphAssumption, ClockAssumption
<1>1. CASE UNCHANGED vars
  BY <1>1 DEF vars, graph, signals, pods, faults, TypeOK
<1>2. ASSUME NEW p \in Pods, PodRestarts(p) PROVE TypeOK'
  <2>1. buildDue' \in BOOLEAN
    BY <1>2 DEF PodRestarts
  <2> QED
    BY <1>2, <2>1 DEF PodRestarts, TypeOK, graph, signals, faults
<1>3. ASSUME NEW p \in Pods, PodDeleted(p) PROVE TypeOK'
  <2>1. buildDue' \in BOOLEAN
    BY <1>3 DEF PodDeleted
  <2>2. early' \in BOOLEAN
    BY <1>3 DEF PodDeleted, TypeOK
  <2>3. doomed' \subseteq Pods /\ failures' \in Nat
    BY <1>3 DEF PodDeleted, CallFails, TypeOK
  <2> QED
    BY <1>3, <2>1, <2>2, <2>3 DEF PodDeleted, TypeOK, graph
<1>4. ASSUME NEW o \in Removable, ObjectRemoved(o) PROVE TypeOK'
  <2>1. buildDue' \in BOOLEAN
    BY <1>4 DEF ObjectRemoved
  <2> QED
    BY <1>4, <2>1 DEF ObjectRemoved, TypeOK, graph, signals, faults
<1>5. CASE BuildRequested
  <2>1. buildDue' \in BOOLEAN
    BY <1>5 DEF BuildRequested
  <2> QED
    BY <1>5, <2>1 DEF BuildRequested, TypeOK, graph, signals, faults
<1>14. CASE Build
  <2>1. buildDue' \in BOOLEAN
    BY <1>14 DEF Build
  <2>2. early' \in BOOLEAN
    BY <1>14 DEF Build, TypeOK
  <2>3. PICK P : Ask(P)
    BY <1>14 DEF Build
  <2>4. asked' \in [Pods -> Nat] /\ unasked' \subseteq restarted
    BY <2>3 DEF Ask, TypeOK
  <2>5. failures' \in Nat
    BY <1>14 DEF Build, CallFails, TypeOK
  <2> QED
    BY <1>14, <2>1, <2>2, <2>4, <2>5 DEF Build, TypeOK, graph
<1>6. ASSUME NEW p \in Pods, StartAsked(p) PROVE TypeOK'
  <2>1. PICK t \in Now(p) : clock' = t /\ Start(p, t, 0, "update")
    BY <1>6 DEF StartAsked
  <2>2. t \in Nat /\ p \in Objects
    BY NowIsNat
  <2>3. /\ task' \in [Objects -> Task] /\ lost' \in [Objects -> Nat]
        /\ blind' \subseteq Objects /\ early' \in BOOLEAN /\ failures' \in Nat
    BY <1>6, <2>1, <2>2, StartOutcome DEF StartAsked
  <2>4. asked' \in [Pods -> Nat]
    BY <1>6 DEF StartAsked, TypeOK
  <2> QED
    BY <1>6, <2>1, <2>2, <2>3, <2>4 DEF StartAsked, TypeOK, graph, pods
<1>7. ASSUME NEW p \in Pods, StartDelete(p) PROVE TypeOK'
  <2>1. PICK t \in Now(p) : clock' = t /\ Start(p, t, 0, "delete")
    BY <1>7 DEF StartDelete
  <2>2. t \in Nat /\ p \in Objects
    BY NowIsNat
  <2>3. /\ task' \in [Objects -> Task] /\ lost' \in [Objects -> Nat]
        /\ blind' \subseteq Objects /\ early' \in BOOLEAN /\ failures' \in Nat
    BY <1>7, <2>1, <2>2, StartOutcome DEF StartDelete
  <2> QED
    BY <1>7, <2>1, <2>2, <2>3 DEF StartDelete, TypeOK, graph, pods
<1>8. ASSUME NEW w \in waves, StartWave(w) PROVE TypeOK'
  <2>1. w.to \in Objects /\ w.ts \in Nat /\ w.blast \in Nat
    BY DEF TypeOK
  <2>2. /\ task' \in [Objects -> Task] /\ lost' \in [Objects -> Nat]
        /\ blind' \subseteq Objects /\ early' \in BOOLEAN /\ failures' \in Nat
    BY <1>8, <2>1, StartOutcome DEF StartWave
  <2> QED
    BY <1>8, <2>2 DEF StartWave, TypeOK, graph, pods
<1>9. ASSUME NEW o \in Objects, NEW n \in Objects, ReadNeighbour(o, n) PROVE TypeOK'
  <2>1. task' \in [Objects -> Task]
    <3>1. task[o] \in Task /\ task[o].unread \ {n} \in SUBSET Objects
      BY DEF TypeOK, Task
    <3>2. /\ [task[o] EXCEPT !.found = {n}, !.unread = {}] \in Task
          /\ [task[o] EXCEPT !.unread = task[o].unread \ {n}] \in Task
      BY <3>1, StepOfTask
    <3>3. \/ task' = [task EXCEPT ![o] = [task[o] EXCEPT !.found = {n}, !.unread = {}]]
          \/ task' = [task EXCEPT ![o] = [task[o] EXCEPT !.unread = task[o].unread \ {n}]]
      BY <1>9 DEF ReadNeighbour, TypeOK
    <3> QED
      BY <3>2, <3>3 DEF TypeOK
  <2> QED
    BY <1>9, <2>1 DEF ReadNeighbour, TypeOK, graph, signals, pods, faults
<1>10. ASSUME NEW o \in Objects, WriteError(o) PROVE TypeOK'
  <2>1. task' \in [Objects -> Task]
    <3>1. task' = [task EXCEPT ![o] = [task[o] EXCEPT !.phase = "finish"]]
      BY <1>10 DEF WriteError, TypeOK
    <3>2. [task[o] EXCEPT !.phase = "finish"] \in Task
      BY StepOfTask DEF TypeOK
    <3> QED
      BY <3>1, <3>2 DEF TypeOK
  <2>2. /\ stamp' \in [Objects -> Nat]
        /\ blast' \in [Objects -> Nat]
        /\ failing' \subseteq Objects
        /\ infected' \subseteq Objects
    <3>1. task[o].ts \in Nat /\ task[o].blast \in Nat /\ task[o].restarts \subseteq Pods
      BY DEF TypeOK, Task
    <3>2. CASE o \in alive /\ UNCHANGED faults
      <4>1. /\ stamp' = [stamp EXCEPT ![o] = task[o].ts]
            /\ blast' = [blast EXCEPT ![o] = task[o].blast]
            /\ failing' = (failing \ {o}) \cup task[o].restarts
        BY <1>10, <3>2 DEF WriteError, CallFails, faults, TypeOK
      <4>2. infected' \subseteq infected \cup {o}
        BY <1>10, <3>2 DEF WriteError, CallFails, faults, TypeOK
      <4> QED
        BY <3>1, <4>1, <4>2 DEF TypeOK
    <3>3. CASE UNCHANGED <<failing, graph>>
      BY <3>3 DEF TypeOK, graph
    <3> QED
      BY <1>10, <3>2, <3>3 DEF WriteError
  <2>3. /\ lost' \in [Objects -> Nat] /\ blind' \subseteq Objects
        /\ early' \in BOOLEAN /\ failures' \in Nat
    <3>1. task[o].ts \in Nat
      BY DEF TypeOK, Task
    <3>2. CASE UNCHANGED faults
      BY <3>2 DEF faults, TypeOK
    <3>3. CASE CallFails /\ Misses({o}, task[o].ts) /\ UNCHANGED <<blind, early>>
      <4>1. early' \in BOOLEAN
        BY <3>3 DEF TypeOK
      <4> QED
        BY <3>1, <3>3, <4>1, MissesRecorded DEF CallFails, TypeOK
    <3> QED
      BY <1>10, <3>2, <3>3 DEF WriteError
  <2> QED
    BY <1>10, <2>1, <2>2, <2>3 DEF WriteError, TypeOK, signals, pods
<1>11. ASSUME NEW o \in Objects, Finish(o) PROVE TypeOK'
  <2>1. task' \in [Objects -> Task]
    BY <1>11, IdleIsTask DEF Finish, TypeOK
  <2>2. Sent(o) \subseteq [from : Objects, to : Objects, ts : Nat, blast : Nat]
    <3>1. /\ task[o].ts \in Nat
          /\ task[o].blast + 1 \in Nat
          /\ task[o].targets \subseteq Objects
      BY DEF TypeOK, Task
    <3> QED
      BY <3>1 DEF Sent
  <2>3. alive' \subseteq alive /\ waves' \subseteq waves \cup Sent(o)
    BY <1>11 DEF Finish
  <2>4. /\ lost' \in [Objects -> Nat] /\ blind' \subseteq Objects
        /\ early' \in BOOLEAN /\ failures' \in Nat
    <3>1. task[o].ts \in Nat
      BY DEF TypeOK, Task
    <3>2. CASE UNCHANGED faults
      BY <3>2 DEF faults, TypeOK
    <3>3. ASSUME NEW S, CallFails, Misses(S, task[o].ts), UNCHANGED <<blind, early>>
          PROVE  /\ lost' \in [Objects -> Nat] /\ blind' \subseteq Objects
                 /\ early' \in BOOLEAN /\ failures' \in Nat
      <4>1. early' \in BOOLEAN
        BY <3>3 DEF TypeOK
      <4> QED
        BY <3>1, <3>3, <4>1, MissesRecorded DEF CallFails, TypeOK
    <3> QED
      BY <1>11, <3>2, <3>3 DEF Finish
  <2> QED
    BY <1>11, <2>1, <2>2, <2>3, <2>4 DEF Finish, TypeOK, graph, pods
<1>12. ASSUME NEW o \in Objects, ReadFails(o) PROVE TypeOK'
  <2>1. task' \in [Objects -> Task]
    <3>1. PICK left \in SUBSET task[o].unread :
            task' = [task EXCEPT ![o] = [task[o] EXCEPT !.unread = left]]
      BY <1>12 DEF ReadFails
    <3>2. [task[o] EXCEPT !.unread = left] \in Task
      <4>1. task[o] \in Task /\ left \in SUBSET Objects
        BY DEF TypeOK, Task
      <4> QED
        BY <4>1, StepOfTask
    <3> QED
      BY <3>1, <3>2 DEF TypeOK
  <2> QED
    BY <1>12, <2>1 DEF ReadFails, CallFails, TypeOK, graph, signals, pods
<1>13. ASSUME NEW e \in Late, LinkMade(e) PROVE TypeOK'
  BY <1>13 DEF LinkMade, TypeOK, graph, signals, pods, faults
<1> QED
  BY <1>1, <1>2, <1>3, <1>4, <1>5, <1>6, <1>7, <1>8, <1>9, <1>10, <1>11, <1>12, <1>13,
     <1>14
     DEF Next, Handle, HandlePod

LEMMA TypeInvariant == Spec => []TypeOK
<1>1. Init => TypeOK
  <2> SUFFICES ASSUME Init PROVE TypeOK
    OBVIOUS
  <2>1. buildDue \in BOOLEAN
    BY DEF Init
  <2>2. task \in [Objects -> Task]
    BY IdleIsTask DEF Init
  <2>3. early \in BOOLEAN
    BY DEF Init
  <2> QED
    BY <2>1, <2>2, <2>3, GraphAssumption DEF Init, TypeOK, NoBlast
<1> QED
  BY <1>1, TypeNext, PTL DEF Spec

-----------------------------------------------------------------------------
\* Steps of the environment: they write no error and remove objects at most.
LEMMA EnvironmentStep ==
  ASSUME PropagationInv, UNCHANGED <<task, stamp, blast, waves, lost>>, alive' \subseteq alive
  PROVE  ChecksHold' /\ WavesTracked'
<1>1. ChecksHold'
  <2> SUFFICES ASSUME NEW o \in Objects, Scanning(o)'
               PROVE  /\ stamp[o] < task[o].ts
                      /\ task[o].blast <= blast[o]
                      /\ \A x \in Neighbours(o, Propagate)' :
                           x \in task[o].targets \/ task[o].ts <= lost[x]
    BY DEF ChecksHold
  <2>1. Neighbours(o, Propagate)' \subseteq Neighbours(o, Propagate)
    BY DEF Neighbours
  <2> QED
    BY <2>1 DEF PropagationInv, ChecksHold, Scanning
<1>2. WavesTracked'
  BY DEF PropagationInv, WavesTracked, OnItsWay, WaveTo, AboutToSignal, Scanning
<1> QED
  BY <1>1, <1>2

\* A handler starts with a signal w, or with one that is no wave.
LEMMA StartStep ==
  ASSUME PropagationInv,
         NEW o \in Objects, NEW ts \in Nat, NEW radius \in Nat,
         NEW op \in {"update", "delete"}, Start(o, ts, radius, op),
         task[o].phase = "idle", UNCHANGED <<alive, stamp, blast>>,
         \A w \in waves \ waves' : w.to = o /\ w.ts = ts /\ w.blast = radius
  PROVE  ChecksHold' /\ WavesTracked'
<1> USE DEF PropagationInv, TypeOK
<1>1. /\ \A x \in Objects \ {o} : task'[x] = task[x]
      /\ lost' \in [Objects -> Nat]
      /\ \A x \in Objects : lost[x] <= lost'[x]
  BY StartOutcome
<1>2. task'[o].phase = "scan"
        => /\ Accepts(o, ts, radius)
           /\ task'[o].ts = ts
           /\ task'[o].blast = radius
           /\ task'[o].targets = Linked(o, Propagate)
           /\ \A x \in Overlooked(o, Propagate) : ts <= lost'[x]
  <2> SUFFICES ASSUME task'[o].phase = "scan"
               PROVE  /\ Accepts(o, ts, radius)
                      /\ task'[o].ts = ts
                      /\ task'[o].blast = radius
                      /\ task'[o].targets = Linked(o, Propagate)
                      /\ \A x \in Overlooked(o, Propagate) : ts <= lost'[x]
    OBVIOUS
  <2>1. /\ Accepts(o, ts, radius)
        /\ \A x \in Overlooked(o, Propagate) : ts <= lost'[x]
        /\ \E R \in SUBSET Pods : task'[o] = Scan(o, ts, radius, op, R)
    BY StartOutcome
  <2> QED
    BY <2>1 DEF Scan
<1>3. o \notin alive \/ ts <= lost'[o] \/ ~Accepts(o, ts, radius) \/ task'[o].phase = "scan"
  <2>1. \A R \in SUBSET Pods : Scan(o, ts, radius, op, R).phase = "scan"
    BY DEF Scan
  <2> QED
    BY <2>1, StartOutcome
<1>4. ChecksHold'
  <2> SUFFICES ASSUME NEW x \in Objects, Scanning(x)'
               PROVE  /\ stamp[x] < task'[x].ts
                      /\ task'[x].blast <= blast[x]
                      /\ \A y \in Neighbours(x, Propagate) :
                           y \in task'[x].targets \/ task'[x].ts <= lost'[y]
    BY DEF ChecksHold, Neighbours
  <2>1. CASE x = o
    <3>1. Neighbours(x, Propagate) = Linked(o, Propagate) \cup Overlooked(o, Propagate)
      BY <2>1 DEF Neighbours, Linked, Overlooked
    <3> QED
      BY <1>2, <2>1, <3>1 DEF Scanning, Accepts
  <2>2. CASE x # o
    <3>1. task'[x] = task[x] /\ task[x].ts \in Nat
      BY <1>1, <2>2 DEF Task
    <3>2. Neighbours(x, Propagate) \subseteq Objects
      BY DEF Neighbours
    <3> QED
      BY <1>1, <3>1, <3>2 DEF Scanning, ChecksHold
  <2> QED
    BY <2>1, <2>2
<1>5. WavesTracked'
  <2> SUFFICES ASSUME NEW n \in alive, NEW x \in alive,
                      <<n, x>> \in Propagate, n # x
               PROVE  OnItsWay(n, x)'
    BY DEF WavesTracked
  <2>1. n \in Objects /\ x \in Objects
    OBVIOUS
  <2>2. OnItsWay(n, x)
    BY DEF WavesTracked
  <2>3. CASE stamp[n] <= stamp[x] \/ blast[x] <= blast[n] \/ stamp[n] <= lost[x]
    BY <1>1, <2>1, <2>3 DEF OnItsWay
  <2>4. CASE WaveTo(n, x) \in waves
    <3>1. CASE WaveTo(n, x) \in waves'
      BY <3>1 DEF OnItsWay, WaveTo
    <3>2. CASE WaveTo(n, x) \notin waves'
      <4>1. x = o /\ ts = stamp[n] /\ radius = blast[n] + 1
        BY <2>4, <3>2 DEF WaveTo
      <4>2. CASE task'[o].phase = "scan"
        BY <1>2, <4>1, <4>2, <2>1 DEF OnItsWay, Scanning
      <4>3. CASE ~Accepts(o, ts, radius)
        BY <4>1, <4>3, <2>1 DEF OnItsWay, Accepts
      <4>4. CASE ts <= lost'[o]
        BY <4>1, <4>4 DEF OnItsWay
      <4> QED
        BY <1>3, <4>1, <4>2, <4>3, <4>4
    <3> QED
      BY <3>1, <3>2
  <2>5. CASE AboutToSignal(n, x)
    BY <1>1, <2>1, <2>5 DEF OnItsWay, AboutToSignal
  <2>6. CASE Scanning(x) /\ stamp[n] <= task[x].ts
    BY <1>1, <2>1, <2>6 DEF OnItsWay, Scanning
  <2> QED
    BY <2>2, <2>3, <2>4, <2>5, <2>6 DEF OnItsWay
<1> QED
  BY <1>4, <1>5

\* Nor do they fail when a handler reads or ends, and fewer waves have an effect.
LEMMA ChecksStillHold ==
  ASSUME PropagationInv, lost' \in [Objects -> Nat], UNCHANGED <<stamp, blast>>,
         alive' \subseteq alive,
         \A x \in Objects : lost[x] <= lost'[x],
         \A x \in Objects : Scanning(x)' => /\ Scanning(x)
                                            /\ task'[x].ts = task[x].ts
                                            /\ task'[x].blast = task[x].blast
                                            /\ task'[x].targets = task[x].targets
  PROVE  ChecksHold'
<1> SUFFICES ASSUME NEW o \in Objects, Scanning(o)'
             PROVE  /\ stamp[o] < task'[o].ts
                    /\ task'[o].blast <= blast[o]
                    /\ \A x \in Neighbours(o, Propagate)' :
                         x \in task'[o].targets \/ task'[o].ts <= lost'[x]
  BY DEF ChecksHold
<1>1. Neighbours(o, Propagate)' \subseteq Neighbours(o, Propagate)
  BY DEF Neighbours
<1>2. /\ Neighbours(o, Propagate) \subseteq Objects /\ task[o].ts \in Nat
      /\ lost \in [Objects -> Nat]
  BY DEF Neighbours, PropagationInv, TypeOK, Task
<1> QED
  BY <1>1, <1>2 DEF PropagationInv, ChecksHold

LEMMA ReadStep ==
  ASSUME PropagationInv, NEW o \in Objects,
         ReadFails(o) \/ \E y \in Objects : ReadNeighbour(o, y)
  PROVE  ChecksHold' /\ WavesTracked'
<1> USE DEF PropagationInv, TypeOK
<1>1. UNCHANGED <<alive, stamp, blast, waves, lost>>
  BY DEF ReadNeighbour, ReadFails, graph, signals, faults
<1>2. \A x \in Objects : /\ task'[x].phase = task[x].phase
                         /\ task'[x].ts = task[x].ts
                         /\ task'[x].blast = task[x].blast
                         /\ task'[x].targets = task[x].targets
  <2>1. ASSUME NEW y \in Objects, ReadNeighbour(o, y)
        PROVE  \A x \in Objects : /\ task'[x].phase = task[x].phase
                                   /\ task'[x].ts = task[x].ts
                                   /\ task'[x].blast = task[x].blast
                                   /\ task'[x].targets = task[x].targets
    <3>1. \A x \in Objects \ {o} : task'[x] = task[x]
      BY <2>1 DEF ReadNeighbour
    <3>2. \/ task'[o] = [task[o] EXCEPT !.found = {y}, !.unread = {}]
          \/ task'[o] = [task[o] EXCEPT !.unread = @ \ {y}]
      BY <2>1 DEF ReadNeighbour
    <3>3. task[o] \in Task
      OBVIOUS
    <3>4. /\ task'[o].phase = task[o].phase
          /\ task'[o].ts = task[o].ts
          /\ task'[o].blast = task[o].blast
          /\ task'[o].targets = task[o].targets
      <4>1. CASE task'[o] = [task[o] EXCEPT !.found = {y}, !.unread = {}]
        BY <3>3, <4>1 DEF Task
      <4>2. CASE task'[o] = [task[o] EXCEPT !.unread = @ \ {y}]
        BY <3>3, <4>2 DEF Task
      <4> QED
        BY <3>2, <4>1, <4>2
    <3> QED
      BY <3>1, <3>4
  <2>2. CASE ReadFails(o)
    <3>1. PICK left : task' = [task EXCEPT ![o] = [task[o] EXCEPT !.unread = left]]
      BY <2>2 DEF ReadFails
    <3>2. task[o] \in Task
      OBVIOUS
    <3>3. \A x \in Objects \ {o} : task'[x] = task[x]
      BY <3>1
    <3>4. task'[o] = [task[o] EXCEPT !.unread = left]
      BY <3>1
    <3> QED
      BY <3>2, <3>3, <3>4 DEF Task
  <2> QED
    BY <2>1, <2>2
<1>3. ChecksHold'
  BY <1>1, <1>2, ChecksStillHold DEF Scanning
<1>4. WavesTracked'
  BY <1>1, <1>2 DEF WavesTracked, OnItsWay, WaveTo, AboutToSignal, Scanning
<1> QED
  BY <1>3, <1>4

LEMMA WriteStep ==
  ASSUME PropagationInv, NEW o \in Objects, WriteError(o)
  PROVE  ChecksHold' /\ WavesTracked'
<1> USE DEF PropagationInv, TypeOK
<1>1. /\ UNCHANGED <<alive, waves>>
      /\ Scanning(o)
      /\ \A x \in Objects \ {o} : /\ task'[x] = task[x]
                                   /\ stamp'[x] = stamp[x]
                                   /\ blast'[x] = blast[x]
  BY DEF WriteError, signals, Scanning, graph
<1>2. /\ task'[o].phase = "finish"
      /\ task'[o].ts = task[o].ts
      /\ task'[o].blast = task[o].blast
      /\ task'[o].targets = task[o].targets
  BY DEF WriteError, Task
<1>3. /\ lost' \in [Objects -> Nat]
      /\ \A x \in Objects : lost[x] <= lost'[x]
      /\ \/ o \notin alive
         \/ stamp'[o] = task[o].ts /\ blast'[o] = task[o].blast
         \/ stamp'[o] = stamp[o] /\ blast'[o] = blast[o] /\ task[o].ts <= lost'[o]
  <2>1. task[o].ts \in Nat
    BY DEF Task
  <2>2. CASE UNCHANGED faults
    BY <2>2 DEF WriteError, faults, CallFails
  <2>3. CASE o \in alive /\ CallFails /\ Misses({o}, task[o].ts) /\ UNCHANGED <<failing, graph, blind, early>>
    BY <2>1, <2>3, MissesRecorded DEF graph
  <2> QED
    BY <2>2, <2>3 DEF WriteError
<1>4. ChecksHold'
  <2> SUFFICES ASSUME NEW x \in Objects, Scanning(x)'
               PROVE  /\ stamp'[x] < task'[x].ts
                      /\ task'[x].blast <= blast'[x]
                      /\ \A y \in Neighbours(x, Propagate) :
                           y \in task'[x].targets \/ task'[x].ts <= lost'[y]
    BY <1>1 DEF ChecksHold, Neighbours
  <2>1. x # o
    BY <1>2 DEF Scanning
  <2>2. Neighbours(x, Propagate) \subseteq Objects /\ task[x].ts \in Nat
    BY DEF Neighbours, Task
  <2> QED
    BY <1>1, <1>3, <2>1, <2>2 DEF ChecksHold, Scanning
<1>5. WavesTracked'
  <2> SUFFICES ASSUME NEW n \in alive, NEW x \in alive,
                      <<n, x>> \in Propagate, n # x
               PROVE  OnItsWay(n, x)'
    BY <1>1 DEF WavesTracked
  <2>1. /\ n \in Objects /\ x \in Objects
        /\ OnItsWay(n, x)
        /\ stamp[o] \in Nat /\ blast[o] \in Nat
        /\ stamp[n] \in Nat /\ blast[n] \in Nat
        /\ stamp[x] \in Nat /\ blast[x] \in Nat
        /\ task[o].ts \in Nat /\ task[o].blast \in Nat
    BY DEF WavesTracked, Task
  <2>2. /\ stamp[o] < task[o].ts
        /\ task[o].blast <= blast[o]
        /\ \A y \in Neighbours(o, Propagate) : y \in task[o].targets \/ task[o].ts <= lost[y]
    BY <1>1 DEF ChecksHold
  <2>3. CASE n = o
    <3>1. x \in task'[n].targets \/ task[o].ts <= lost'[x]
      BY <1>2, <1>3, <2>1, <2>2, <2>3 DEF Neighbours
    <3>2. CASE stamp'[o] = task[o].ts /\ blast'[o] = task[o].blast
      BY <1>2, <2>3, <3>1, <3>2 DEF OnItsWay, AboutToSignal
    <3>3. CASE stamp'[o] = stamp[o] /\ blast'[o] = blast[o]
      BY <1>1, <1>3, <2>1, <2>3, <3>3 DEF OnItsWay, WaveTo, AboutToSignal, Scanning
    <3> QED
      BY <1>3, <2>3, <3>2, <3>3
  <2>4. CASE x = o
    <3>1. /\ stamp'[n] = stamp[n] /\ blast'[n] = blast[n]
          /\ task'[n] = task[n]
          /\ stamp[x] <= stamp'[x] /\ blast'[x] <= blast[x]
          /\ stamp'[x] \in Nat /\ blast'[x] \in Nat
          /\ task[x].ts <= stamp'[x] \/ task[x].ts <= lost'[x]
      BY <1>1, <1>3, <2>1, <2>2, <2>4
    <3>2. CASE stamp[n] <= stamp[x] \/ blast[x] <= blast[n] \/ stamp[n] <= lost[x]
      BY <1>3, <2>1, <2>4, <3>1, <3>2 DEF OnItsWay
    <3>3. CASE WaveTo(n, x) \in waves
      BY <1>1, <3>1, <3>3 DEF OnItsWay, WaveTo
    <3>4. CASE AboutToSignal(n, x)
      BY <3>1, <3>4 DEF OnItsWay, AboutToSignal
    <3>5. CASE Scanning(x) /\ stamp[n] <= task[x].ts
      BY <1>3, <2>1, <2>4, <3>1, <3>5 DEF OnItsWay
    <3> QED
      BY <2>1, <3>2, <3>3, <3>4, <3>5 DEF OnItsWay
  <2>5. CASE n # o /\ x # o
    BY <1>1, <1>3, <2>1, <2>5 DEF OnItsWay, WaveTo, AboutToSignal, Scanning
  <2> QED
    BY <2>3, <2>4, <2>5
<1> QED
  BY <1>4, <1>5

LEMMA FinishStep ==
  ASSUME PropagationInv, NEW o \in Objects, Finish(o)
  PROVE  ChecksHold' /\ WavesTracked'
<1> USE DEF PropagationInv, TypeOK
<1>1. /\ alive' \subseteq alive
      /\ UNCHANGED <<stamp, blast>>
      /\ waves \subseteq waves'
      /\ \A x \in Objects \ {o} : task'[x] = task[x]
      /\ task'[o].phase = "idle"
      /\ task[o].phase = "finish"
  BY DEF Finish, graph, Idle
<1>0. /\ lost' \in [Objects -> Nat]
      /\ \A x \in Objects : lost[x] <= lost'[x]
      /\ \A w \in Sent(o) : w \in waves' \/ task[o].ts <= lost'[w.to]
  <2>1. task[o].ts \in Nat /\ \A w \in Sent(o) : w.to \in Objects
    BY DEF Sent, Task
  <2>2. CASE UNCHANGED faults /\ waves' = waves \cup Sent(o)
    BY <2>2 DEF faults
  <2>3. ASSUME NEW unsent \in SUBSET Sent(o), waves' = waves \cup (Sent(o) \ unsent),
               Misses({w.to : w \in unsent}, task[o].ts)
        PROVE  /\ lost' \in [Objects -> Nat]
               /\ \A x \in Objects : lost[x] <= lost'[x]
               /\ \A w \in Sent(o) : w \in waves' \/ task[o].ts <= lost'[w.to]
    BY <2>1, <2>3, MissesRecorded
  <2> QED
    BY <2>2, <2>3 DEF Finish
<1>2. ChecksHold'
  BY <1>0, <1>1, ChecksStillHold DEF Scanning
<1>3. WavesTracked'
  <2> SUFFICES ASSUME NEW n \in alive, NEW x \in alive,
                      <<n, x>> \in Propagate, n # x
               PROVE  OnItsWay(n, x)'
    BY <1>1 DEF WavesTracked
  <2>1. n \in Objects /\ x \in Objects /\ OnItsWay(n, x)
    BY DEF WavesTracked
  <2>2. CASE \/ stamp[n] <= stamp[x] \/ blast[x] <= blast[n] \/ stamp[n] <= lost[x]
             \/ WaveTo(n, x) \in waves
    BY <1>0, <1>1, <2>1, <2>2 DEF OnItsWay, WaveTo
  <2>3. CASE AboutToSignal(n, x)
    <3>1. CASE n = o
      <4>1. WaveTo(n, x) \in Sent(o) /\ task[o].ts = stamp[n]
        BY <2>3, <3>1 DEF AboutToSignal, Sent, WaveTo
      <4> QED
        BY <1>0, <1>1, <4>1 DEF OnItsWay, WaveTo
    <3>2. CASE n # o
      BY <1>1, <2>1, <2>3, <3>2 DEF OnItsWay, AboutToSignal
    <3> QED
      BY <3>1, <3>2
  <2>4. CASE Scanning(x) /\ stamp[n] <= task[x].ts
    BY <1>1, <2>1, <2>4 DEF OnItsWay, Scanning
  <2> QED
    BY <2>1, <2>2, <2>3, <2>4 DEF OnItsWay
<1> QED
  BY <1>2, <1>3
-----------------------------------------------------------------------------
LEMMA PropagationNext == PropagationInv /\ [Next]_vars => PropagationInv'
<1> SUFFICES ASSUME PropagationInv, [Next]_vars PROVE PropagationInv'
  OBVIOUS
<1> USE GraphAssumption, ClockAssumption
<1>1. TypeOK'
  BY TypeNext DEF PropagationInv
<1>2. ChecksHold' /\ WavesTracked'
  <2>1. CASE UNCHANGED vars
    BY <2>1, EnvironmentStep DEF vars, graph, signals, faults
  <2>2. ASSUME NEW p \in Pods, PodRestarts(p) \/ PodDeleted(p)
        PROVE  ChecksHold' /\ WavesTracked'
    BY <2>2, EnvironmentStep DEF PodRestarts, PodDeleted, graph, signals, faults
  <2>3. ASSUME NEW o \in Removable, ObjectRemoved(o)
        PROVE  ChecksHold' /\ WavesTracked'
    BY <2>3, EnvironmentStep DEF ObjectRemoved, graph, signals, faults
  <2>4. CASE BuildRequested \/ Build \/ \E e \in Late : LinkMade(e)
    BY <2>4, EnvironmentStep DEF BuildRequested, Build, LinkMade, graph, signals, faults
  <2>5. ASSUME NEW p \in Pods, StartAsked(p)
        PROVE  ChecksHold' /\ WavesTracked'
    <3>1. PICK t \in Now(p) : Start(p, t, 0, "update")
      BY <2>5 DEF StartAsked
    <3>2. t \in Nat /\ p \in Objects
      BY NowIsNat DEF PropagationInv
    <3> QED
      BY <2>5, <3>1, <3>2, StartStep DEF StartAsked, graph
  <2>6. ASSUME NEW p \in Pods, StartDelete(p)
        PROVE  ChecksHold' /\ WavesTracked'
    <3>1. PICK t \in Now(p) : Start(p, t, 0, "delete")
      BY <2>6 DEF StartDelete
    <3>2. t \in Nat /\ p \in Objects
      BY NowIsNat DEF PropagationInv
    <3> QED
      BY <2>6, <3>1, <3>2, StartStep DEF StartDelete, graph
  <2>7. ASSUME NEW w \in waves, StartWave(w)
        PROVE  ChecksHold' /\ WavesTracked'
    <3>1. w.to \in Objects /\ w.ts \in Nat /\ w.blast \in Nat
      BY DEF PropagationInv, TypeOK
    <3> QED
      BY <2>7, <3>1, StartStep DEF StartWave, graph
  <2>8. ASSUME NEW o \in Objects, ReadFails(o) \/ \E n \in Objects : ReadNeighbour(o, n)
        PROVE  ChecksHold' /\ WavesTracked'
    BY <2>8, ReadStep
  <2>9. ASSUME NEW o \in Objects, WriteError(o) \/ Finish(o)
        PROVE  ChecksHold' /\ WavesTracked'
    BY <2>9, WriteStep, FinishStep
  <2> QED
    BY <2>1, <2>2, <2>3, <2>4, <2>5, <2>6, <2>7, <2>8, <2>9 DEF Next, Handle, HandlePod
<1> QED
  BY <1>1, <1>2 DEF PropagationInv

LEMMA PropagationInvariant == Spec => []PropagationInv
<1>1. Init /\ TypeOK => PropagationInv
  BY DEF Init, PropagationInv, ChecksHold, WavesTracked, OnItsWay, Scanning, Idle
<1> QED
  BY <1>1, TypeInvariant, PropagationNext, PTL DEF Spec

\* Records, signals and handlers keep their types.
THEOREM TypeCorrect == Spec => []TypeOK
  BY TypeInvariant

\* When the signals have been handled, every object has seen the last wave of
\* each object that propagates to it, or a newer one, or is closer to a source, or
\* was kept from it by a failing call or a late link (propagateErrorRecalculate and
\* propagateToLinked), whatever the order in which signals arrive, handlers
\* interleave and links are made.
THEOREM WavesArrive == Spec => []WavesReachEveryone
<1>1. PropagationInv => WavesReachEveryone
  BY DEF PropagationInv, WavesTracked, OnItsWay, WavesReachEveryone, Quiescent,
         AboutToSignal, Scanning, TypeOK
<1> QED
  BY <1>1, PropagationInvariant, PTL

\* A step replaces what an object says of its error only by the result of a
\* newer wave that started no farther away.
LEMMA StepKeepsNewest ==
  ASSUME PropagationInv, [Next]_vars, NEW o \in Objects
  PROVE  /\ stamp[o] <= stamp'[o]
         /\ blast'[o] <= blast[o]
         /\ (o \in infected) # (o \in infected)' => stamp[o] < stamp'[o]
<1>1. stamp[o] \in Nat /\ blast[o] \in Nat
  BY DEF PropagationInv, TypeOK
<1>2. CASE UNCHANGED graph
  BY <1>1, <1>2 DEF graph
<1>3. ASSUME NEW x \in Objects, WriteError(x)
      PROVE  /\ stamp[o] <= stamp'[o]
             /\ blast'[o] <= blast[o]
             /\ (o \in infected) # (o \in infected)' => stamp[o] < stamp'[o]
  <2>1. CASE x = o /\ o \in alive /\ ~UNCHANGED graph
    <3>1. stamp'[o] = task[o].ts /\ blast'[o] = task[o].blast
      BY <1>3, <2>1 DEF WriteError, PropagationInv, TypeOK, graph
    <3>2. stamp[o] < task[o].ts /\ task[o].blast <= blast[o]
      BY <1>3, <2>1 DEF WriteError, PropagationInv, ChecksHold, Scanning
    <3>3. task[o].ts \in Nat
      BY DEF PropagationInv, TypeOK, Task
    <3> QED
      BY <1>1, <3>1, <3>2, <3>3
  <2>2. CASE x # o \/ UNCHANGED graph
    <3>1. /\ stamp'[o] = stamp[o]
          /\ blast'[o] = blast[o]
          /\ o \in infected <=> o \in infected'
      BY <1>3, <2>2 DEF WriteError, PropagationInv, TypeOK, graph
    <3> QED
      BY <1>1, <3>1
  <2> QED
    BY <1>3, <2>1, <2>2 DEF WriteError
<1>4. UNCHANGED graph \/ \E x \in Objects : WriteError(x)
  BY DEF Next, vars, Handle, HandlePod, PodRestarts, PodDeleted, ObjectRemoved,
         BuildRequested, Build, LinkMade,
         StartAsked, StartDelete, StartWave, ReadNeighbour, ReadFails, Finish
<1> QED
  BY <1>2, <1>3, <1>4

\* What an object says of its error is replaced only by a newer wave, and by
\* one that started no farther away.
THEOREM NewestWins == Spec => OnlyNewerWavesWrite
<1>1. PropagationInv /\ [Next]_vars
        => [\A o \in Objects :
              /\ stamp[o] <= stamp'[o]
              /\ blast'[o] <= blast[o]
              /\ (o \in infected) # (o \in infected)' => stamp[o] < stamp'[o]]_vars
  BY StepKeepsNewest
<1> QED
  BY <1>1, PropagationInvariant, PTL DEF Spec, OnlyNewerWavesWrite

-----------------------------------------------------------------------------
\* A handler puts no object but its own in error.
OwnRestarts == \A o \in Objects : task[o].restarts \subseteq {o}

\* Where the news of a restart is: no build has asked the pod, or it is asked,
\* or its handler is about to write what the informer says of it, or the two
\* agree, or a call of the last handler failed.
Tracked(p) ==
  \/ p \in unasked
  \/ asked[p] > 0
  \/ p \in blind
  \/ Scanning(p) /\ task[p].restarts = restarted \cap {p}
  \/ ~Scanning(p) /\ ((p \in failing <=> p \in restarted) \/ stamp[p] < lost[p])

\* A pod with an owner that no build has asked since it restarted will be, unless
\* some call has failed.
NewsIsAsked == \A p \in (alive \cap unasked) \ bare : buildDue \/ failures > 0

\* Signals and handlers do not concern builds, and a failed call is counted.
LEMMA HandlersAskNobody ==
  ASSUME TypeOK, NEW o \in Objects, Handle(o) \/ (o \in Pods /\ HandlePod(o))
  PROVE  UNCHANGED pods /\ alive' \subseteq alive /\ failures <= failures'
<1>1. failures' = failures \/ CallFails => failures <= failures'
  BY DEF CallFails, TypeOK
<1>2. CASE HandlePod(o) \/ \E w \in waves : StartWave(w)
  <2>1. PICK x, t, r, op : Start(x, t, r, op)
    BY <1>2 DEF HandlePod, StartAsked, StartDelete, StartWave
  <2>2. failures' = failures \/ CallFails
    BY <2>1 DEF Start, Begin, faults
  <2> QED
    BY <1>1, <1>2, <2>2 DEF HandlePod, StartAsked, StartDelete, StartWave
<1>3. CASE ReadFails(o) \/ \E n \in Objects : ReadNeighbour(o, n)
  BY <1>1, <1>3 DEF ReadFails, ReadNeighbour, faults
<1>4. CASE WriteError(o) \/ Finish(o)
  BY <1>1, <1>4 DEF WriteError, Finish, faults
<1> QED
  BY <1>2, <1>3, <1>4 DEF Handle

\* A pod that has not been asked yet is still not asked, or is asked now.
LEMMA BuildAsks ==
  ASSUME TypeOK, Build, NEW p \in Pods
  PROVE  p \in unasked \/ asked[p] > 0 => p \in unasked' \/ asked'[p] > 0
<1>1. PICK P : Ask(P)
  BY DEF Build
<1> QED
  BY <1>1 DEF Ask, TypeOK

LEMMA NewsNext == TypeOK /\ NewsIsAsked /\ [Next]_vars => NewsIsAsked'
<1> SUFFICES ASSUME TypeOK, NewsIsAsked, [Next]_vars PROVE NewsIsAsked'
  OBVIOUS
<1>1. ASSUME NEW p \in Pods, PodRestarts(p) \/ PodDeleted(p) PROVE NewsIsAsked'
  BY <1>1 DEF PodRestarts, PodDeleted, NewsIsAsked
<1>2. ASSUME NEW o \in Removable, ObjectRemoved(o) PROVE NewsIsAsked'
  BY <1>2 DEF ObjectRemoved, NewsIsAsked
<1>3. CASE BuildRequested
  BY <1>3 DEF BuildRequested, NewsIsAsked
<1>4. CASE Build
  BY <1>4 DEF Build, Ask, CallFails, NewsIsAsked, TypeOK
<1>5. CASE UNCHANGED vars \/ \E e \in Late : LinkMade(e)
  BY <1>5 DEF vars, LinkMade, pods, faults, NewsIsAsked
<1>6. ASSUME NEW o \in Objects, Handle(o) \/ (o \in Pods /\ HandlePod(o)) PROVE NewsIsAsked'
  <2>1. UNCHANGED pods /\ alive' \subseteq alive /\ failures <= failures'
    BY <1>6, HandlersAskNobody
  <2>2. failures \in Nat /\ failures' \in Nat
    BY TypeNext DEF TypeOK
  <2> QED
    BY <2>1, <2>2 DEF pods, NewsIsAsked
<1> QED
  BY <1>1, <1>2, <1>3, <1>4, <1>5, <1>6, GraphAssumption DEF Next

LEMMA NewsInvariant == Spec => []NewsIsAsked
<1>1. Init => NewsIsAsked
  BY DEF Init, NewsIsAsked
<1> QED
  BY <1>1, TypeInvariant, NewsNext, PTL DEF Spec

PodsInv == PropagationInv /\ OwnRestarts /\ \A p \in Pods \cap alive : Tracked(p)

\* The handler of a pod starts with a wave that passes the checks, or one that
\* leaves the pod as it was.
LEMMA PodStart ==
  ASSUME PodsInv, NEW o \in Objects, NEW ts \in Nat, NEW radius \in Nat,
         NEW op \in {"update", "delete"}, Start(o, ts, radius, op),
         task[o].phase = "idle",
         UNCHANGED <<alive, restarted, failing, stamp, blast, unasked>>,
         \A p \in Pods \ {o} : asked'[p] = asked[p],
         asked'[o] = asked[o] \/ o \notin Pods \/ Accepts(o, ts, radius)
  PROVE  OwnRestarts' /\ \A p \in Pods \cap alive' : Tracked(p)'
<1> USE DEF PodsInv, PropagationInv, TypeOK
<1>1. /\ \A x \in Objects \ {o} : task'[x] = task[x]
      /\ task' \in [Objects -> Task]
      /\ lost' \in [Objects -> Nat]
      /\ \A x \in Objects : lost[x] <= lost'[x]
  BY StartOutcome
<1>2. \A x \in Objects \ {o} : x \in blind' <=> x \in blind
  BY DEF Start, Begin, faults
<1>3. \/ /\ task'[o].phase = "scan"
         /\ task'[o].restarts = restarted \cap {o} \/ (task'[o].restarts = {} /\ o \in blind')
      \/ /\ task'[o].phase # "scan"
         /\ task'[o].restarts \subseteq {o}
         /\ o \in blind' <=> o \in blind
         /\ o \notin alive \/ ts <= lost'[o] \/ ~Accepts(o, ts, radius)
  <2>1. CASE o \notin alive /\ UNCHANGED <<task, faults>>
    BY <2>1 DEF faults, OwnRestarts
  <2>2. CASE o \in alive /\ CallFails /\ Misses({o}, ts) /\ UNCHANGED <<task, blind>>
    BY <2>2, MissesRecorded DEF OwnRestarts
  <2>3. CASE o \in alive /\ Accepts(o, ts, radius) /\ Begin(o, ts, radius, op)
    <3>1. \/ task'[o] = Scan(o, ts, radius, op, restarted \cap {o})
          \/ task'[o] = Scan(o, ts, radius, op, {}) /\ o \in blind'
      BY <2>3 DEF Begin
    <3> QED
      BY <3>1 DEF Scan
  <2>4. CASE /\ o \in alive
             /\ ~Accepts(o, ts, radius)
             /\ task' = [task EXCEPT ![o] = IF op = "delete" THEN Deleting ELSE Idle]
             /\ UNCHANGED faults
    <3>1. task'[o] = Deleting \/ task'[o] = Idle
      BY <2>4
    <3>2. Idle.phase # "scan" /\ Deleting.phase # "scan" /\ Idle.restarts = {} /\ Deleting.restarts = {}
      BY DEF Idle, Deleting
    <3> QED
      BY <2>4, <3>1, <3>2 DEF faults
  <2> QED
    BY <2>1, <2>2, <2>3, <2>4 DEF Start
<1>4. OwnRestarts'
  <2> SUFFICES ASSUME NEW x \in Objects PROVE task'[x].restarts \subseteq {x}
    BY DEF OwnRestarts
  <2> QED
    BY <1>1, <1>3 DEF OwnRestarts
<1>5. ASSUME NEW p \in Pods \cap alive PROVE Tracked(p)'
  <2>1. p \in Objects /\ Tracked(p)
    OBVIOUS
  <2>2. CASE p # o
    BY <1>1, <1>2, <2>1, <2>2 DEF Tracked, Scanning
  <2>3. CASE p = o /\ task'[o].phase = "scan"
    BY <1>3, <2>3 DEF Tracked, Scanning
  <2>4. CASE p = o /\ task'[o].phase # "scan" /\ Accepts(o, ts, radius)
    <3>1. ts <= lost'[p] /\ stamp[p] < ts
      BY <1>3, <2>4 DEF Accepts
    <3> QED
      BY <1>1, <2>1, <2>4, <3>1 DEF Tracked, Scanning
  <2>5. CASE p = o /\ task'[o].phase # "scan" /\ asked'[o] = asked[o]
    BY <1>1, <1>3, <2>1, <2>5 DEF Tracked, Scanning
  <2> QED
    BY <2>2, <2>3, <2>4, <2>5
<1> QED
  BY <1>4, <1>5

\* A signal without a payload carries a new timestamp and starts at the pod.
LEMMA OwnWaveAccepted ==
  ASSUME TypeOK, NEW p \in Pods, NEW t \in Now(p)
  PROVE  Accepts(p, t, 0)
  BY NowIsNat DEF Accepts, Now, TypeOK

LEMMA PodWrite ==
  ASSUME PodsInv, NEW o \in Objects, WriteError(o)
  PROVE  OwnRestarts' /\ \A p \in Pods \cap alive' : Tracked(p)'
<1> USE DEF PodsInv, PropagationInv, TypeOK
<1>1. /\ UNCHANGED <<alive, restarted, unasked, asked, blind>>
      /\ \A x \in Objects \ {o} : /\ task'[x] = task[x]
                                   /\ stamp'[x] = stamp[x]
                                   /\ lost'[x] = lost[x]
  BY DEF WriteError, signals, pods, graph, faults, Misses
<1>2. task'[o].phase = "finish" /\ task'[o].restarts = task[o].restarts
  BY DEF WriteError, Task
<1>3. task[o].restarts \subseteq {o} /\ Scanning(o)
  BY DEF WriteError, OwnRestarts, Scanning
<1>4. OwnRestarts'
  BY <1>1, <1>2, <1>3 DEF OwnRestarts
<1>5. \A x \in Objects \ {o} : x \in failing' <=> x \in failing
  BY <1>3 DEF WriteError, graph
<1>6. ASSUME NEW p \in Pods \cap alive PROVE Tracked(p)'
  <2>1. p \in Objects /\ Tracked(p)
    OBVIOUS
  <2>2. CASE p # o
    BY <1>1, <1>5, <2>1, <2>2 DEF Tracked, Scanning
  <2>3. CASE p = o /\ failing' = (failing \ {o}) \cup task[o].restarts
    BY <1>1, <1>2, <1>3, <2>1, <2>3 DEF Tracked, Scanning
  <2>4. CASE p = o /\ Misses({o}, task[o].ts) /\ UNCHANGED graph
    <3>1. task[o].ts \in Nat /\ stamp[o] < task[o].ts
      BY <1>3 DEF ChecksHold, Task
    <3>2. task[o].ts <= lost'[o] /\ lost'[o] \in Nat /\ stamp'[o] = stamp[o]
      BY <2>4, <3>1, MissesRecorded DEF graph
    <3> QED
      BY <1>2, <2>4, <3>1, <3>2 DEF Tracked, Scanning
  <2> QED
    BY <2>1, <2>2, <2>3, <2>4 DEF WriteError
<1> QED
  BY <1>1, <1>4, <1>6

LEMMA PodFinish ==
  ASSUME PodsInv, NEW o \in Objects, Finish(o)
  PROVE  OwnRestarts' /\ \A p \in Pods \cap alive' : Tracked(p)'
<1> USE DEF PodsInv, PropagationInv, TypeOK
<1>1. /\ alive' \subseteq alive
      /\ UNCHANGED <<restarted, unasked, asked, blind, failing, stamp>>
      /\ \A x \in Objects \ {o} : task'[x] = task[x]
      /\ ~Scanning(o)
  BY DEF Finish, pods, graph, faults, Condemned, Scanning
<1>2. task'[o].phase # "scan" /\ task'[o].restarts = {}
  BY DEF Finish, Idle
<1>3. lost' \in [Objects -> Nat] /\ \A x \in Objects : lost[x] <= lost'[x]
  <2>1. task[o].ts \in Nat
    BY DEF Task
  <2>2. lost' = lost \/ \E S : Misses(S, task[o].ts)
    BY DEF Finish, faults
  <2> QED
    BY <2>1, <2>2, MissesRecorded
<1>4. OwnRestarts'
  BY <1>1, <1>2 DEF OwnRestarts
<1>5. ASSUME NEW p \in Pods \cap alive' PROVE Tracked(p)'
  <2>1. p \in Objects /\ Tracked(p) /\ stamp[p] \in Nat
    BY <1>1
  <2>2. Scanning(p)' => Scanning(p) /\ task'[p] = task[p]
    BY <1>1, <1>2, <2>1 DEF Scanning
  <2>3. Scanning(p) => Scanning(p)' /\ task'[p] = task[p]
    BY <1>1, <2>1 DEF Scanning
  <2> QED
    BY <1>1, <1>3, <2>1, <2>2, <2>3 DEF Tracked
<1> QED
  BY <1>4, <1>5

LEMMA PodsNext == PodsInv /\ [Next]_vars => PodsInv'
<1> SUFFICES ASSUME PodsInv, [Next]_vars
             PROVE  OwnRestarts' /\ \A p \in Pods \cap alive' : Tracked(p)'
  BY PropagationNext DEF PodsInv
<1>1. CASE UNCHANGED vars
  BY <1>1 DEF vars, graph, signals, pods, faults, PodsInv, OwnRestarts, Tracked, Scanning
<1>2. ASSUME NEW p \in Pods, PodRestarts(p)
      PROVE  OwnRestarts' /\ \A q \in Pods \cap alive' : Tracked(q)'
  <2>1. restarted \in SUBSET Pods
    BY DEF PodsInv, PropagationInv, TypeOK
  <2> QED
    BY <1>2, <2>1, GraphAssumption
       DEF PodRestarts, graph, signals, faults, PodsInv, OwnRestarts, Tracked, Scanning
<1>13. ASSUME NEW p \in Pods, PodDeleted(p)
       PROVE  OwnRestarts' /\ \A q \in Pods \cap alive' : Tracked(q)'
  BY <1>13, GraphAssumption DEF PodDeleted, graph, PodsInv, OwnRestarts, Tracked, Scanning
<1>3. ASSUME NEW o \in Removable, ObjectRemoved(o)
      PROVE  OwnRestarts' /\ \A q \in Pods \cap alive' : Tracked(q)'
  BY <1>3, GraphAssumption
     DEF ObjectRemoved, graph, signals, faults, PodsInv, OwnRestarts, Tracked, Scanning
<1>4. CASE BuildRequested
  BY <1>4 DEF BuildRequested, graph, signals, faults, PodsInv, OwnRestarts, Tracked, Scanning
<1>12. CASE Build
  <2>1. \A p \in Pods : p \in unasked \/ asked[p] > 0 => p \in unasked' \/ asked'[p] > 0
    BY <1>12, BuildAsks DEF PodsInv, PropagationInv
  <2> QED
    BY <1>12, <2>1, GraphAssumption
       DEF Build, graph, PodsInv, OwnRestarts, Tracked, Scanning
<1>5. ASSUME NEW p \in Pods, StartAsked(p)
      PROVE  OwnRestarts' /\ \A q \in Pods \cap alive' : Tracked(q)'
  <2>1. PICK t \in Now(p) : Start(p, t, 0, "update")
    BY <1>5 DEF StartAsked
  <2>2. t \in Nat /\ p \in Objects /\ Accepts(p, t, 0)
    BY NowIsNat, OwnWaveAccepted DEF PodsInv, PropagationInv
  <2>3. \A q \in Pods \ {p} : asked'[q] = asked[q]
    BY <1>5 DEF StartAsked, PodsInv, PropagationInv, TypeOK
  <2> QED
    BY <1>5, <2>1, <2>2, <2>3, PodStart DEF StartAsked, graph, pods
<1>6. ASSUME NEW p \in Pods, StartDelete(p)
      PROVE  OwnRestarts' /\ \A q \in Pods \cap alive' : Tracked(q)'
  <2>1. PICK t \in Now(p) : Start(p, t, 0, "delete")
    BY <1>6 DEF StartDelete
  <2>2. t \in Nat /\ p \in Objects
    BY NowIsNat DEF PodsInv, PropagationInv
  <2> QED
    BY <1>6, <2>1, <2>2, PodStart DEF StartDelete, graph, pods
<1>7. ASSUME NEW w \in waves, StartWave(w)
      PROVE  OwnRestarts' /\ \A q \in Pods \cap alive' : Tracked(q)'
  <2>1. w.to \in Objects /\ w.ts \in Nat /\ w.blast \in Nat
    BY DEF PodsInv, PropagationInv, TypeOK
  <2> QED
    BY <1>7, <2>1, PodStart DEF StartWave, graph, pods
<1>8. ASSUME NEW o \in Objects, NEW n \in Objects, ReadNeighbour(o, n)
      PROVE  OwnRestarts' /\ \A q \in Pods \cap alive' : Tracked(q)'
  <2>1. \A x \in Objects : task'[x].phase = task[x].phase /\ task'[x].restarts = task[x].restarts
    <3>1. task \in [Objects -> Task]
      BY DEF PodsInv, PropagationInv, TypeOK
    <3>2. \A x \in Objects \ {o} : task'[x] = task[x]
      BY <1>8, <3>1 DEF ReadNeighbour
    <3>3. \/ task'[o] = [task[o] EXCEPT !.found = {n}, !.unread = {}]
          \/ task'[o] = [task[o] EXCEPT !.unread = @ \ {n}]
      BY <1>8, <3>1 DEF ReadNeighbour
    <3>4. task'[o].phase = task[o].phase /\ task'[o].restarts = task[o].restarts
      <4>1. CASE task'[o] = [task[o] EXCEPT !.found = {n}, !.unread = {}]
        BY <3>1, <4>1 DEF Task
      <4>2. CASE task'[o] = [task[o] EXCEPT !.unread = @ \ {n}]
        BY <3>1, <4>2 DEF Task
      <4> QED
        BY <3>3, <4>1, <4>2
    <3> QED
      BY <3>2, <3>4
  <2>2. UNCHANGED <<alive, failing, stamp, asked, restarted, unasked, lost, blind>>
    BY <1>8 DEF ReadNeighbour, graph, signals, pods, faults
  <2> QED
    BY <2>1, <2>2, GraphAssumption DEF PodsInv, OwnRestarts, Tracked, Scanning
<1>9. ASSUME NEW o \in Objects, ReadFails(o)
      PROVE  OwnRestarts' /\ \A q \in Pods \cap alive' : Tracked(q)'
  <2>1. PICK left : task' = [task EXCEPT ![o] = [task[o] EXCEPT !.unread = left]]
    BY <1>9 DEF ReadFails
  <2>2. task \in [Objects -> Task]
    BY DEF PodsInv, PropagationInv, TypeOK
  <2>3. \A x \in Objects : task'[x].phase = task[x].phase /\ task'[x].restarts = task[x].restarts
    <3>1. task'[o] = [task[o] EXCEPT !.unread = left] /\ \A x \in Objects \ {o} : task'[x] = task[x]
      BY <2>1, <2>2
    <3> QED
      BY <2>2, <3>1 DEF Task
  <2>4. /\ UNCHANGED <<alive, failing, stamp, asked, restarted, unasked, lost>>
        /\ blind \subseteq blind'
    BY <1>9 DEF ReadFails, graph, signals, pods
  <2> QED
    BY <2>3, <2>4, GraphAssumption DEF PodsInv, OwnRestarts, Tracked, Scanning
<1>10. ASSUME NEW o \in Objects, WriteError(o) \/ Finish(o)
       PROVE  OwnRestarts' /\ \A q \in Pods \cap alive' : Tracked(q)'
  BY <1>10, PodWrite, PodFinish
<1>11. ASSUME NEW e \in Late, LinkMade(e)
       PROVE  OwnRestarts' /\ \A q \in Pods \cap alive' : Tracked(q)'
  BY <1>11 DEF LinkMade, graph, signals, pods, faults, PodsInv, OwnRestarts, Tracked, Scanning
<1> QED
  BY <1>1, <1>2, <1>3, <1>4, <1>5, <1>6, <1>7, <1>8, <1>9, <1>10, <1>11, <1>12, <1>13
     DEF Next, Handle, HandlePod

LEMMA PodsInvariant == Spec => []PodsInv
<1>1. Init /\ PropagationInv => PodsInv
  <2> SUFFICES ASSUME Init, PropagationInv PROVE PodsInv
    OBVIOUS
  <2>1. \A o \in Objects : task[o].restarts = {}
    BY DEF Init, Idle
  <2> QED
    BY <2>1 DEF Init, PodsInv, OwnRestarts, Tracked
<1> QED
  BY <1>1, PropagationInvariant, PodsNext, PTL DEF Spec

\* Once quiet, a pod is in error exactly when its containers have restarted,
\* unless a call of its last handler failed, or no build has asked it since it
\* restarted, which for a pod with an owner takes a call that failed: a result
\* computed before the informer wrote is replaced by that of the build the
\* informer asks for.
THEOREM PodErrorsSettle == Spec => []PodErrorShown
<1>1. PodsInv /\ NewsIsAsked => PodErrorShown
  <2> SUFFICES ASSUME PodsInv, NewsIsAsked, Quiescent, NEW p \in Pods \cap alive
               PROVE  \/ p \in failing <=> p \in restarted
                      \/ p \in blind
                      \/ stamp[p] < lost[p]
                      \/ p \in unasked /\ (p \in bare \/ failures > 0)
    BY DEF PodErrorShown
  <2>1. p \in Objects
    BY GraphAssumption
  <2>2. ~buildDue /\ asked[p] = 0 /\ ~Scanning(p)
    BY <2>1 DEF Quiescent, Scanning, PodsInv, PropagationInv, TypeOK
  <2>3. CASE p \in unasked
    BY <2>2, <2>3 DEF NewsIsAsked
  <2>4. CASE p \notin unasked
    BY <2>2, <2>4 DEF PodsInv, Tracked
  <2> QED
    BY <2>3, <2>4
<1> QED
  BY <1>1, PodsInvariant, NewsInvariant, PTL

-----------------------------------------------------------------------------
(* Graphs with one path from a pod to an object.                           *)

\* x comes before y on some path of propagation links.
Before == TransitiveClosureOn(Propagate, Objects)

\* The objects a wave of pod p may reach.
From(p) == {x \in Objects : x = p \/ <<p, x>> \in Before}

\* Every object has one distance from all the pods that reach it, and a wave
\* comes to it from one neighbour only.
SinglePaths(Level) ==
  /\ Level \in [Objects -> Nat]
  /\ \A x \in Objects : Level[x] < NoBlast
  /\ \A p \in Pods : Level[p] = 0
  /\ \A x, y \in Objects : <<x, y>> \in Propagate => Level[y] = Level[x] + 1
  /\ \A p \in Pods : \A x, y \in From(p) : \A z \in Objects :
       <<x, z>> \in Propagate /\ <<y, z>> \in Propagate => x = y

LEMMA BeforeFacts ==
  /\ Propagate \subseteq Before
  /\ Before \subseteq Objects \X Objects
  /\ \A x, y, z \in Objects : <<x, y>> \in Before /\ <<y, z>> \in Before => <<x, z>> \in Before
<1>1. Propagate \cap Objects \X Objects = Propagate
  BY GraphAssumption
<1>2. /\ Propagate \cap Objects \X Objects \subseteq Before
      /\ IsTransitivelyClosedOn(Before, Objects)
  BY TransitiveClosureThm DEF Before
<1>3. Before \subseteq Objects \X Objects
  BY DEF Before, TransitiveClosureOn
<1> QED
  BY <1>1, <1>2, <1>3 DEF IsTransitivelyClosedOn

\* A path has a last link.
LEMMA LastLink ==
  ASSUME NEW x \in Objects, NEW z \in Objects, <<x, z>> \in Before
  PROVE  \/ <<x, z>> \in Propagate
         \/ \E y \in Objects : <<x, y>> \in Before /\ <<y, z>> \in Propagate
<1> DEFINE Ends(c) == \/ c \in Propagate
                      \/ \E y \in Objects : <<c[1], y>> \in Before /\ <<y, c[2]>> \in Propagate
           U == {c \in Objects \X Objects : c \in Before /\ Ends(c)}
<1>1. Propagate \cap Objects \X Objects \subseteq U
  BY BeforeFacts
<1>2. IsTransitivelyClosedOn(U, Objects)
  <2> SUFFICES ASSUME NEW i \in Objects, NEW j \in Objects, NEW k \in Objects,
                      <<i, j>> \in U, <<j, k>> \in U
               PROVE  <<i, k>> \in U
    BY DEF IsTransitivelyClosedOn
  <2>1. <<i, j>> \in Before /\ <<j, k>> \in Before /\ <<i, k>> \in Before
    BY BeforeFacts
  <2>2. Ends(<<j, k>>)
    OBVIOUS
  <2>3. CASE <<j, k>> \in Propagate
    BY <2>1, <2>3
  <2>4. CASE \E y \in Objects : <<j, y>> \in Before /\ <<y, k>> \in Propagate
    <3>1. PICK y \in Objects : <<j, y>> \in Before /\ <<y, k>> \in Propagate
      BY <2>4
    <3>2. <<i, y>> \in Before
      BY <2>1, <3>1, BeforeFacts
    <3> QED
      BY <2>1, <3>1, <3>2
  <2> QED
    BY <2>2, <2>3, <2>4
<1>3. Before \subseteq U
  <2>1. U \in SUBSET (Objects \X Objects)
    OBVIOUS
  <2> HIDE DEF U
  <2> QED
    BY <1>1, <1>2, <2>1, TransitiveClosureMinimal DEF Before
<1> QED
  BY <1>3

LEMMA LevelIsNat ==
  ASSUME NEW Level, SinglePaths(Level), NEW x \in Objects
  PROVE  Level[x] \in Nat /\ Level[x] < NoBlast
  BY DEF SinglePaths

\* Along a path the distance grows.
LEMMA LevelsGrow ==
  ASSUME NEW Level, SinglePaths(Level), NEW x \in Objects, NEW y \in Objects,
         <<x, y>> \in Before
  PROVE  Level[x] < Level[y]
<1> DEFINE U == {c \in Objects \X Objects : Level[c[1]] < Level[c[2]]}
<1>1. \A z \in Objects : Level[z] \in Nat
  BY LevelIsNat
<1>2. Propagate \cap Objects \X Objects \subseteq U
  BY <1>1 DEF SinglePaths
<1>3. IsTransitivelyClosedOn(U, Objects)
  BY <1>1 DEF IsTransitivelyClosedOn
<1>4. U \in SUBSET (Objects \X Objects)
  OBVIOUS
<1>5. Before \subseteq U
  <2> HIDE DEF U
  <2> QED
    BY <1>2, <1>3, <1>4, TransitiveClosureMinimal DEF Before
<1> QED
  BY <1>5

\* Of the objects a wave of pod p may reach, all that come before z come before
\* its neighbour x, or are x.
LEMMA PathsMeet ==
  ASSUME NEW Level, SinglePaths(Level), NEW p \in Pods, NEW x \in From(p), NEW z \in Objects,
         <<x, z>> \in Propagate, NEW a \in From(p), <<a, z>> \in Before
  PROVE  a = x \/ <<a, x>> \in Before
<1>1. a \in Objects /\ x \in Objects /\ p \in Objects
  BY GraphAssumption DEF From
<1>2. CASE <<a, z>> \in Propagate
  BY <1>1, <1>2 DEF SinglePaths
<1>3. CASE \E y \in Objects : <<a, y>> \in Before /\ <<y, z>> \in Propagate
  <2>1. PICK y \in Objects : <<a, y>> \in Before /\ <<y, z>> \in Propagate
    BY <1>3
  <2>2. y \in From(p)
    BY <1>1, <2>1, BeforeFacts DEF From
  <2>3. y = x
    BY <2>1, <2>2 DEF SinglePaths
  <2> QED
    BY <2>1, <2>3
<1> QED
  BY <1>1, <1>2, <1>3, LastLink

-----------------------------------------------------------------------------
\* The wave of time t has touched x, and it has still to be handled by x or to
\* be sent on.
Carries(x, t) ==
  stamp[x] = t \/ task[x].ts = t \/ \E w \in waves : w.ts = t /\ x \in {w.from, w.to}
Active(x, t) == task[x].ts = t \/ \E w \in waves : w.ts = t /\ w.to = x

\* Waves follow the links, carry the distance of their object, and reach it once.
WavesFit(Level) ==
  \A w \in waves :
    /\ w.ts > 0
    /\ <<w.from, w.to>> \in Propagate
    /\ w.blast = Level[w.to]
    /\ task[w.to].ts # w.ts

\* Objects and handlers carry their distance, once a wave has reached them.
RadiusFits(Level) ==
  \A x \in Objects :
    /\ blast[x] = IF stamp[x] = 0 THEN NoBlast ELSE Level[x]
    /\ task[x].ts > 0 => task[x].blast = Level[x]
    /\ task[x].ts = 0 => task[x].targets = {}
    /\ task[x].phase = "idle" => task[x].ts = 0
    /\ \A y \in task[x].targets : <<x, y>> \in Propagate

\* No timestamp is ahead of the clock, each is that of one pod, and a wave moves
\* on: nobody that handles it comes before an object it has touched.
Times == Nat \ {0}
ClockAhead == \A t \in Times : \A x \in Objects : Carries(x, t) => t <= clock
OneSource ==
  \A t \in Times : \A y \in Objects : Carries(y, t) =>
    \E p \in Pods : \A x \in Objects : Carries(x, t) => x \in From(p)
MovesOn ==
  \A t \in Times : \A x, y \in Objects :
    <<x, y>> \in Before /\ Active(x, t) => ~Carries(y, t)

TimesFit == ClockAhead /\ OneSource /\ MovesOn

PathInv(Level) ==
  /\ PropagationInv
  /\ failing \subseteq Pods
  /\ WavesFit(Level)
  /\ RadiusFits(Level)
  /\ TimesFit

\* A step that takes no new time and sends nothing.
LEMMA TimesKept ==
  ASSUME TimesFit, clock \in Nat, clock' \in Nat, clock <= clock',
         \A t \in Times : \A x \in Objects : /\ Carries(x, t)' => Carries(x, t)
                                             /\ Active(x, t)' => Active(x, t)
  PROVE  TimesFit'
<1>1. ClockAhead'
  BY DEF TimesFit, ClockAhead, Times
<1>2. OneSource'
  BY DEF TimesFit, OneSource
<1>3. MovesOn'
  BY DEF TimesFit, MovesOn
<1> QED
  BY <1>1, <1>2, <1>3 DEF TimesFit

\* A pod takes a new time from the clock: it is the only one to carry it.
LEMMA TimesTaken ==
  ASSUME NEW Level, SinglePaths(Level), TimesFit, NEW p \in Pods, clock \in Nat, clock' \in Nat,
         clock < clock',
         \A t \in Times : \A x \in Objects :
           /\ Carries(x, t)' => Carries(x, t) \/ (t = clock' /\ x = p)
           /\ Active(x, t)' => Active(x, t) \/ (t = clock' /\ x = p)
  PROVE  TimesFit'
<1>1. ClockAhead'
  <2> SUFFICES ASSUME NEW t \in Times, NEW x \in Objects, Carries(x, t)' PROVE t <= clock'
    BY DEF ClockAhead
  <2>1. t = clock' \/ Carries(x, t)
    OBVIOUS
  <2> QED
    BY <2>1 DEF TimesFit, ClockAhead, Times
<1>2. ASSUME NEW t \in Times, t = clock', NEW x \in Objects
      PROVE  (Carries(x, t)' \/ Active(x, t)') => x = p
  <2>1. ~Carries(x, t)
    BY <1>2 DEF TimesFit, ClockAhead, Times
  <2>2. ~Active(x, t)
    BY <2>1 DEF Active, Carries
  <2> QED
    BY <2>1, <2>2
<1>3. p \in Objects /\ p \in From(p)
  BY GraphAssumption DEF From
<1>4. OneSource'
  <2> SUFFICES ASSUME NEW t \in Times, NEW y \in Objects, Carries(y, t)'
               PROVE  \E q \in Pods : \A x \in Objects : Carries(x, t)' => x \in From(q)
    BY DEF OneSource
  <2>1. CASE t = clock'
    <3>1. \A x \in Objects : Carries(x, t)' => x \in From(p)
      BY <1>2, <1>3, <2>1
    <3> QED
      BY <3>1
  <2>2. CASE t # clock'
    <3>1. \A x \in Objects : Carries(x, t)' => Carries(x, t)
      BY <2>2
    <3> QED
      BY <3>1 DEF TimesFit, OneSource
  <2> QED
    BY <2>1, <2>2
<1>5. MovesOn'
  <2> SUFFICES ASSUME NEW t \in Times, NEW x \in Objects, NEW y \in Objects,
                      <<x, y>> \in Before, Active(x, t)', Carries(y, t)'
               PROVE  FALSE
    BY DEF MovesOn
  <2>1. CASE t = clock'
    <3>1. x = p /\ y = p
      BY <1>2, <2>1
    <3> QED
      BY <3>1, LevelsGrow, LevelIsNat
  <2>2. CASE t # clock'
    BY <2>2 DEF TimesFit, MovesOn
  <2> QED
    BY <2>1, <2>2
<1> QED
  BY <1>1, <1>4, <1>5 DEF TimesFit

\* What Start does, with what is known of an idle handler.
LEMMA StartPath ==
  ASSUME NEW Level, PathInv(Level), NEW o \in Objects, NEW ts \in Times, NEW radius \in Nat,
         NEW op \in {"update", "delete"}, Start(o, ts, radius, op),
         task[o].phase = "idle", radius = Level[o]
  PROVE  /\ task' \in [Objects -> Task]
         /\ lost' \in [Objects -> Nat]
         /\ \A x \in Objects : lost[x] <= lost'[x]
         /\ \A x \in Objects \ {o} : task'[x] = task[x] /\ (x \in blind' <=> x \in blind)
         /\ task[o].ts = 0
         /\ \/ /\ o \in alive /\ Accepts(o, ts, radius)
               /\ task'[o].phase = "scan" /\ task'[o].ts = ts /\ task'[o].blast = radius
               /\ task'[o].unread = Linked(o, Rely) /\ task'[o].found = {}
               /\ task'[o].targets = Linked(o, Propagate)
               /\ Overlooked(o, Rely) = {} \/ o \in blind'
            \/ /\ task'[o].phase # "scan" /\ task'[o].ts = 0 /\ task'[o].targets = {}
               /\ o \in blind' <=> o \in blind
               /\ o \notin alive \/ ts <= lost'[o] \/ ~Accepts(o, ts, radius)
<1> USE DEF PathInv, PropagationInv, TypeOK, Times
<1>1. /\ task' \in [Objects -> Task]
      /\ lost' \in [Objects -> Nat]
      /\ \A x \in Objects : lost[x] <= lost'[x]
      /\ \A x \in Objects \ {o} : task'[x] = task[x]
  BY StartOutcome
<1>2. task[o].ts = 0 /\ task[o].targets = {}
  BY DEF RadiusFits
<1>3. \A x \in Objects \ {o} : x \in blind' <=> x \in blind
  BY DEF Start, Begin, faults
<1>4. CASE o \notin alive /\ UNCHANGED <<task, faults>>
  BY <1>1, <1>2, <1>3, <1>4 DEF faults
<1>5. CASE o \in alive /\ CallFails /\ Misses({o}, ts) /\ UNCHANGED <<task, blind>>
  BY <1>1, <1>2, <1>3, <1>5, MissesRecorded
<1>6. CASE o \in alive /\ Accepts(o, ts, radius) /\ Begin(o, ts, radius, op)
  <2>1. PICK R : task' = [task EXCEPT ![o] = Scan(o, ts, radius, op, R)]
    BY <1>6 DEF Begin
  <2>2. task'[o] = Scan(o, ts, radius, op, R)
    BY <2>1
  <2>3. /\ task'[o].phase = "scan" /\ task'[o].ts = ts /\ task'[o].blast = radius
        /\ task'[o].unread = Linked(o, Rely) /\ task'[o].found = {}
        /\ task'[o].targets = Linked(o, Propagate)
    BY <2>2 DEF Scan
  <2>4. Overlooked(o, Rely) = {} \/ o \in blind'
    BY <1>6 DEF Begin
  <2> QED
    BY <1>1, <1>2, <1>3, <1>6, <2>3, <2>4
<1>7. CASE /\ o \in alive
           /\ ~Accepts(o, ts, radius)
           /\ task' = [task EXCEPT ![o] = IF op = "delete" THEN Deleting ELSE Idle]
           /\ UNCHANGED faults
  <2>1. task'[o] = Deleting \/ task'[o] = Idle
    BY <1>7
  <2>2. /\ Idle.phase # "scan" /\ Deleting.phase # "scan"
        /\ Idle.ts = 0 /\ Deleting.ts = 0
        /\ Idle.targets = {} /\ Deleting.targets = {}
    BY DEF Idle, Deleting
  <2> QED
    BY <1>1, <1>2, <1>3, <1>7, <2>1, <2>2 DEF faults
<1> QED
  BY <1>4, <1>5, <1>6, <1>7 DEF Start

\* The handler of an object starts with a wave: it is the only one of its time
\* to come there.
LEMMA PathWave ==
  ASSUME NEW Level, SinglePaths(Level), PathInv(Level), NEW w \in waves, StartWave(w)
  PROVE  WavesFit(Level)' /\ RadiusFits(Level)' /\ TimesFit'
<1> USE DEF PathInv, PropagationInv, TypeOK
<1> DEFINE o == w.to
<1>1. /\ o \in Objects /\ w.ts \in Times /\ w.blast \in Nat /\ w.blast = Level[o]
      /\ w.from \in Objects /\ <<w.from, o>> \in Propagate
  BY DEF WavesFit, Times
<1>2. /\ UNCHANGED <<alive, stamp, blast, clock>> /\ waves' = waves \ {w}
      /\ task[o].phase = "idle" /\ Start(o, w.ts, w.blast, "update")
  BY DEF StartWave, graph
<1> HIDE DEF o
<1>3. /\ task' \in [Objects -> Task]
      /\ \A x \in Objects \ {o} : task'[x] = task[x]
      /\ \/ /\ task'[o].ts = w.ts /\ task'[o].blast = Level[o]
            /\ task'[o].phase = "scan" /\ task'[o].targets = Linked(o, Propagate)
         \/ task'[o].ts = 0 /\ task'[o].targets = {}
  BY <1>1, <1>2, StartPath
<1>4. ASSUME NEW v \in waves, v.to = o, v.ts = w.ts PROVE v = w
  <2>1. /\ v.from \in Objects /\ <<v.from, o>> \in Propagate /\ v.blast = w.blast
    BY <1>1, <1>4 DEF WavesFit
  <2>2. Carries(v.from, w.ts) /\ Carries(w.from, w.ts)
    BY <1>4 DEF Carries
  <2>3. PICK p \in Pods : v.from \in From(p) /\ w.from \in From(p)
    BY <1>1, <2>1, <2>2 DEF TimesFit, OneSource
  <2>4. v.from = w.from
    BY <1>1, <2>1, <2>3 DEF SinglePaths
  <2> QED
    BY <1>4, <2>1, <2>4 DEF o
<1>5. WavesFit(Level)'
  <2> SUFFICES ASSUME NEW v \in waves, v # w PROVE task'[v.to].ts # v.ts
    BY <1>2 DEF WavesFit
  <2>1. v.to \in Objects /\ v.ts > 0 /\ v.ts \in Nat /\ task[v.to].ts # v.ts
    BY DEF WavesFit
  <2>2. CASE v.to = o
    BY <1>3, <1>4, <2>1, <2>2
  <2>3. CASE v.to # o
    BY <1>3, <2>1, <2>3
  <2> QED
    BY <2>2, <2>3
<1>6. RadiusFits(Level)'
  <2> SUFFICES ASSUME NEW x \in Objects
               PROVE  /\ task'[x].ts > 0 => task'[x].blast = Level[x]
                      /\ task'[x].ts = 0 => task'[x].targets = {}
                      /\ task'[x].phase = "idle" => task'[x].ts = 0
                      /\ \A y \in task'[x].targets : <<x, y>> \in Propagate
    BY <1>2 DEF RadiusFits
  <2>1. CASE x # o
    BY <1>3, <2>1 DEF RadiusFits
  <2>2. CASE x = o
    BY <1>1, <1>3, <2>2 DEF Linked, Neighbours, Times
  <2> QED
    BY <2>1, <2>2
<1>7. TimesFit'
  <2>1. \A t \in Times : \A x \in Objects : task'[x].ts = t => task[x].ts = t \/ (t = w.ts /\ x = o)
    BY <1>3 DEF Times
  <2>2. ASSUME NEW t \in Times, NEW x \in Objects
        PROVE  (Carries(x, t)' => Carries(x, t)) /\ (Active(x, t)' => Active(x, t))
    BY <1>2, <2>1 DEF Carries, Active, o
  <2> QED
    BY <1>2, <2>2, TimesKept
<1> QED
  BY <1>5, <1>6, <1>7

\* A signal without a payload takes a new time.
LEMMA PathAsked ==
  ASSUME NEW Level, SinglePaths(Level), PathInv(Level), 0 \notin ClockSteps,
         NEW p \in Pods, StartAsked(p) \/ StartDelete(p)
  PROVE  WavesFit(Level)' /\ RadiusFits(Level)' /\ TimesFit'
<1> USE DEF PathInv, PropagationInv, TypeOK
<1>1. PICK t \in Now(p), op \in {"update", "delete"} : clock' = t /\ Start(p, t, 0, op)
  BY DEF StartAsked, StartDelete
<1>2. t \in Nat /\ p \in Objects /\ clock < t
  <2>1. PICK s \in ClockSteps : t = clock + s
    BY DEF Now
  <2>2. s \in Nat /\ s # 0
    BY ClockAssumption
  <2> QED
    BY <2>1, <2>2, NowIsNat
<1>3. UNCHANGED <<alive, stamp, blast, waves>> /\ task[p].phase = "idle"
  BY DEF StartAsked, StartDelete, graph
<1>4. t \in Times /\ Level[p] = 0
  BY <1>2 DEF Times, SinglePaths
<1>5. /\ task' \in [Objects -> Task]
      /\ \A x \in Objects \ {p} : task'[x] = task[x]
      /\ \/ /\ task'[p].ts = t /\ task'[p].blast = Level[p]
            /\ task'[p].phase = "scan" /\ task'[p].targets = Linked(p, Propagate)
         \/ task'[p].ts = 0 /\ task'[p].targets = {}
  BY <1>1, <1>2, <1>3, <1>4, StartPath
<1>6. WavesFit(Level)'
  <2> SUFFICES ASSUME NEW v \in waves PROVE task'[v.to].ts # v.ts
    BY <1>3 DEF WavesFit
  <2>1. v.to \in Objects /\ v.ts \in Times /\ task[v.to].ts # v.ts
    <3>1. v.to \in Objects /\ v.ts \in Nat /\ v.ts > 0 /\ task[v.to].ts # v.ts
      BY DEF WavesFit
    <3> QED
      BY <3>1 DEF Times
  <2>2. v.ts <= clock
    <3>1. Carries(v.to, v.ts)
      BY DEF Carries
    <3> QED
      BY <2>1, <3>1 DEF TimesFit, ClockAhead
  <2> QED
    BY <1>2, <1>5, <2>1, <2>2 DEF Times
<1>7. RadiusFits(Level)'
  <2> SUFFICES ASSUME NEW x \in Objects
               PROVE  /\ task'[x].ts > 0 => task'[x].blast = Level[x]
                      /\ task'[x].ts = 0 => task'[x].targets = {}
                      /\ task'[x].phase = "idle" => task'[x].ts = 0
                      /\ \A y \in task'[x].targets : <<x, y>> \in Propagate
    BY <1>3 DEF RadiusFits
  <2>1. CASE x # p
    BY <1>5, <2>1 DEF RadiusFits
  <2>2. CASE x = p
    BY <1>2, <1>4, <1>5, <2>2 DEF Linked, Neighbours, Times
  <2> QED
    BY <2>1, <2>2
<1>8. TimesFit'
  <2>1. \A u \in Times : \A x \in Objects : task'[x].ts = u => task[x].ts = u \/ (u = clock' /\ x = p)
    BY <1>1, <1>5 DEF Times
  <2>2. ASSUME NEW u \in Times, NEW x \in Objects
        PROVE  /\ Carries(x, u)' => Carries(x, u) \/ (u = clock' /\ x = p)
               /\ Active(x, u)' => Active(x, u) \/ (u = clock' /\ x = p)
    BY <1>3, <2>1 DEF Carries, Active
  <2>3. clock \in Nat /\ clock' \in Nat /\ clock < clock'
    BY <1>1, <1>2
  <2> QED
    BY <2>2, <2>3, TimesTaken
<1> QED
  BY <1>6, <1>7, <1>8

\* Steps that leave the wave of every handler as it is, but may write its stamp.
LEMMA PathQuiet ==
  ASSUME NEW Level, PathInv(Level), UNCHANGED <<waves, clock>>,
         \A x \in Objects :
           /\ task'[x].ts = task[x].ts /\ task'[x].blast = task[x].blast
           /\ task'[x].targets = task[x].targets
           /\ task'[x].phase = "idle" => task[x].phase = "idle"
           /\ \/ stamp'[x] = stamp[x] /\ blast'[x] = blast[x]
              \/ stamp'[x] = task[x].ts /\ blast'[x] = task[x].blast /\ task[x].ts > 0
  PROVE  WavesFit(Level)' /\ RadiusFits(Level)' /\ TimesFit'
<1> USE DEF PathInv, PropagationInv, TypeOK
<1>1. WavesFit(Level)'
  BY DEF WavesFit
<1>2. RadiusFits(Level)'
  BY DEF RadiusFits
<1>3. ASSUME NEW t \in Times, NEW x \in Objects
      PROVE  (Carries(x, t)' => Carries(x, t)) /\ (Active(x, t)' => Active(x, t))
  BY DEF Carries, Active
<1>4. TimesFit'
  BY <1>3, TimesKept
<1> QED
  BY <1>1, <1>2, <1>4

\* A handler sends its wave on: nobody beyond it has been touched by that wave,
\* and whoever comes before the next objects has done with it.
LEMMA PathFinish ==
  ASSUME NEW Level, SinglePaths(Level), PathInv(Level), NEW o \in Objects, Finish(o)
  PROVE  WavesFit(Level)' /\ RadiusFits(Level)' /\ TimesFit'
<1> USE DEF PathInv, PropagationInv, TypeOK
<1> DEFINE T == task[o].ts
<1>1. /\ UNCHANGED <<stamp, blast, clock>>
      /\ waves' \subseteq waves \cup Sent(o)
      /\ waves \subseteq waves'
      /\ task' = [task EXCEPT ![o] = Idle]
  BY DEF Finish, graph
<1>2. /\ Idle.ts = 0 /\ Idle.targets = {} /\ Idle.phase = "idle"
      /\ \A x \in Objects \ {o} : task'[x] = task[x]
      /\ task'[o] = Idle
  BY <1>1 DEF Idle
<1>3. T \in Nat /\ task[o].blast \in Nat /\ task[o].targets \subseteq Objects
  BY DEF Task
<1>4. ASSUME NEW w \in Sent(o)
      PROVE  /\ w.from = o /\ w.to \in Objects \ {o} /\ w.ts = T /\ T \in Times
             /\ <<o, w.to>> \in Propagate /\ w.blast = Level[w.to]
  <2>1. /\ w.from = o /\ w.to \in task[o].targets \ {o} /\ w.ts = T
        /\ w.blast = task[o].blast + 1
    BY DEF Sent
  <2>2. <<o, w.to>> \in Propagate /\ T # 0
    BY <2>1 DEF RadiusFits
  <2>3. task[o].blast = Level[o]
    BY <1>3, <2>2 DEF RadiusFits
  <2> QED
    BY <1>3, <2>1, <2>2, <2>3 DEF SinglePaths, Times
<1>5. T \in Times => Active(o, T) /\ Carries(o, T)
  BY DEF Active, Carries
<1>6. ASSUME NEW y \in Objects, T \in Times, <<o, y>> \in Before PROVE ~Carries(y, T)
  BY <1>5, <1>6 DEF TimesFit, MovesOn
<1>7. WavesFit(Level)'
  <2> SUFFICES ASSUME NEW v \in waves'
               PROVE  /\ v.ts > 0 /\ <<v.from, v.to>> \in Propagate /\ v.blast = Level[v.to]
                      /\ task'[v.to].ts # v.ts
    BY DEF WavesFit
  <2>1. CASE v \in waves
    <3>1. /\ v.ts > 0 /\ <<v.from, v.to>> \in Propagate /\ v.blast = Level[v.to]
          /\ task[v.to].ts # v.ts /\ v.to \in Objects /\ v.ts \in Nat
      BY <2>1 DEF WavesFit
    <3> QED
      BY <1>2, <3>1
  <2>2. CASE v \in Sent(o)
    <3>1. ~Carries(v.to, T)
      BY <1>4, <1>6, <2>2, BeforeFacts
    <3>2. task[v.to].ts # T
      BY <3>1 DEF Carries
    <3>3. T > 0 /\ v.ts = T /\ v.to \in Objects \ {o}
      <4>1. T \in Times /\ v.ts = T /\ v.to \in Objects \ {o}
        BY <1>4, <2>2
      <4>2. T > 0
        BY <1>3, <4>1 DEF Times
      <4> QED
        BY <4>1, <4>2
    <3>4. <<v.from, v.to>> \in Propagate /\ v.blast = Level[v.to]
      BY <1>4, <2>2
    <3>5. task'[v.to].ts # v.ts
      BY <1>2, <3>2, <3>3
    <3> QED
      BY <3>3, <3>4, <3>5
  <2> QED
    BY <1>1, <2>1, <2>2
<1>8. RadiusFits(Level)'
  <2> SUFFICES ASSUME NEW x \in Objects
               PROVE  /\ task'[x].ts > 0 => task'[x].blast = Level[x]
                      /\ task'[x].ts = 0 => task'[x].targets = {}
                      /\ task'[x].phase = "idle" => task'[x].ts = 0
                      /\ \A y \in task'[x].targets : <<x, y>> \in Propagate
    BY <1>1 DEF RadiusFits
  <2>1. CASE x # o
    BY <1>2, <2>1 DEF RadiusFits
  <2>2. CASE x = o
    BY <1>2, <2>2
  <2> QED
    BY <2>1, <2>2
<1>9. ASSUME NEW t \in Times, NEW x \in Objects
      PROVE  /\ Carries(x, t)' => Carries(x, t) \/ (t = T /\ <<o, x>> \in Propagate)
             /\ Active(x, t)' => \/ Active(x, t) /\ ~(t = T /\ x = o)
                                 \/ t = T /\ <<o, x>> \in Propagate
  <2>1. task'[x].ts = t => task[x].ts = t /\ x # o
    BY <1>2 DEF Times
  <2>2. ASSUME NEW w \in waves', w \notin waves
        PROVE  w.from = o /\ w.ts = T /\ <<o, w.to>> \in Propagate /\ T \in Times
    BY <1>1, <1>4, <2>2
  <2>3. Carries(x, t)' => Carries(x, t) \/ (t = T /\ <<o, x>> \in Propagate)
    BY <1>1, <2>1, <2>2 DEF Carries
  <2>4. ASSUME NEW w \in waves, w.to = o PROVE w.ts # T
    BY <2>4 DEF WavesFit
  <2>5. Active(x, t)' => \/ Active(x, t) /\ ~(t = T /\ x = o)
                         \/ t = T /\ <<o, x>> \in Propagate
    BY <2>1, <2>2, <2>4 DEF Active
  <2> QED
    BY <2>3, <2>5
<1>10. ClockAhead'
  <2> SUFFICES ASSUME NEW t \in Times, NEW x \in Objects, Carries(x, t)' PROVE t <= clock
    BY <1>1 DEF ClockAhead
  <2>1. Carries(x, t) \/ Carries(o, t)
    BY <1>5, <1>9
  <2> QED
    BY <2>1 DEF TimesFit, ClockAhead
<1>11. ASSUME T \in Times
       PROVE  \E p \in Pods : \A x \in Objects : Carries(x, T) \/ <<o, x>> \in Propagate => x \in From(p)
  <2>1. PICK p \in Pods : \A x \in Objects : Carries(x, T) => x \in From(p)
    BY <1>5, <1>11 DEF TimesFit, OneSource
  <2>2. o \in From(p) /\ p \in Objects
    BY <1>5, <1>11, <2>1, GraphAssumption
  <2>3. \A x \in Objects : <<o, x>> \in Propagate => x \in From(p)
    BY <2>2, BeforeFacts DEF From
  <2> QED
    BY <2>1, <2>3
<1>12. OneSource'
  <2> SUFFICES ASSUME NEW t \in Times, NEW y \in Objects, Carries(y, t)'
               PROVE  \E p \in Pods : \A x \in Objects : Carries(x, t)' => x \in From(p)
    BY DEF OneSource
  <2>1. CASE t = T
    BY <1>9, <1>11, <2>1
  <2>2. CASE t # T
    <3>1. \A x \in Objects : Carries(x, t)' => Carries(x, t)
      BY <1>9, <2>2
    <3> QED
      BY <3>1 DEF TimesFit, OneSource
  <2> QED
    BY <2>1, <2>2
<1>13. MovesOn'
  <2> SUFFICES ASSUME NEW t \in Times, NEW a \in Objects, NEW z \in Objects,
                      <<a, z>> \in Before, Active(a, t)', Carries(z, t)'
               PROVE  FALSE
    BY DEF MovesOn
  <2>1. CASE Active(a, t) /\ Carries(z, t)
    BY <2>1 DEF TimesFit, MovesOn
  <2>2. CASE t = T /\ <<o, a>> \in Propagate /\ Carries(z, t)
    BY <1>6, <2>2, BeforeFacts
  <2>3. CASE t = T /\ <<o, a>> \in Propagate /\ <<o, z>> \in Propagate
    <3>1. Level[a] = Level[o] + 1 /\ Level[z] = Level[o] + 1
      BY <2>3 DEF SinglePaths
    <3> QED
      BY <3>1, LevelsGrow, LevelIsNat
  <2>4. CASE Active(a, t) /\ a # o /\ t = T /\ <<o, z>> \in Propagate
    <3>1. PICK p \in Pods : \A x \in Objects : Carries(x, T) => x \in From(p)
      BY <1>11, <2>4
    <3>2. Carries(a, T)
      BY <2>4 DEF Active, Carries
    <3>3. a \in From(p) /\ o \in From(p)
      BY <1>5, <2>4, <3>1, <3>2
    <3>4. <<a, o>> \in Before
      BY <2>4, <3>3, PathsMeet
    <3> QED
      BY <1>5, <2>4, <3>4 DEF TimesFit, MovesOn
  <2> QED
    BY <1>9, <2>1, <2>2, <2>3, <2>4
<1> QED
  BY <1>7, <1>8, <1>10, <1>12, <1>13 DEF TimesFit

\* What the steps of a handler that reads or writes keep of its record.
LEMMA ReadsKeepTask ==
  ASSUME TypeOK, NEW o \in Objects, NEW n \in Objects, ReadNeighbour(o, n) \/ ReadFails(o)
  PROVE  /\ task' \in [Objects -> Task]
         /\ \A x \in Objects \ {o} : task'[x] = task[x]
         /\ task[o].phase = "scan" /\ task'[o].phase = "scan"
         /\ task'[o].ts = task[o].ts /\ task'[o].blast = task[o].blast
         /\ task'[o].targets = task[o].targets
         /\ \/ /\ ReadFails(o)
               /\ task'[o].found = task[o].found
            \/ /\ ReadNeighbour(o, n) /\ Infects(n, task[o].blast)
               /\ task'[o].found = {n}
            \/ /\ ReadNeighbour(o, n) /\ ~Infects(n, task[o].blast)
               /\ task'[o].found = task[o].found /\ task'[o].unread = task[o].unread \ {n}
<1> USE DEF TypeOK
<1>1. task[o] \in Task /\ task[o].phase = "scan"
  BY DEF ReadNeighbour, ReadFails
<1>2. CASE ReadFails(o)
  <2>1. PICK left \in SUBSET task[o].unread :
          task' = [task EXCEPT ![o] = [task[o] EXCEPT !.unread = left]]
    BY <1>2 DEF ReadFails
  <2>2. task'[o] = [task[o] EXCEPT !.unread = left] /\ \A x \in Objects \ {o} : task'[x] = task[x]
    BY <2>1
  <2>3. left \in SUBSET Objects
    BY <1>1 DEF Task
  <2>4. task' \in [Objects -> Task]
    BY <1>1, <2>1, <2>3, StepOfTask
  <2>5. /\ task'[o].phase = task[o].phase /\ task'[o].ts = task[o].ts
        /\ task'[o].blast = task[o].blast /\ task'[o].targets = task[o].targets
        /\ task'[o].found = task[o].found
    BY <1>1, <2>2 DEF Task
  <2> QED
    BY <1>1, <1>2, <2>2, <2>4, <2>5
<1>3. CASE ReadNeighbour(o, n) /\ Infects(n, task[o].blast)
  <2>1. task' = [task EXCEPT ![o] = [task[o] EXCEPT !.found = {n}, !.unread = {}]]
    BY <1>3 DEF ReadNeighbour
  <2>2. task'[o] = [task[o] EXCEPT !.found = {n}, !.unread = {}]
        /\ \A x \in Objects \ {o} : task'[x] = task[x]
    BY <2>1
  <2>3. task' \in [Objects -> Task]
    BY <1>1, <2>1, StepOfTask
  <2>4. /\ task'[o].phase = task[o].phase /\ task'[o].ts = task[o].ts
        /\ task'[o].blast = task[o].blast /\ task'[o].targets = task[o].targets
        /\ task'[o].found = {n}
    BY <1>1, <2>2 DEF Task
  <2> QED
    BY <1>1, <1>3, <2>2, <2>3, <2>4
<1>4. CASE ReadNeighbour(o, n) /\ ~Infects(n, task[o].blast)
  <2>1. task' = [task EXCEPT ![o] = [task[o] EXCEPT !.unread = task[o].unread \ {n}]]
    BY <1>4 DEF ReadNeighbour
  <2>2. task'[o] = [task[o] EXCEPT !.unread = task[o].unread \ {n}]
        /\ \A x \in Objects \ {o} : task'[x] = task[x]
    BY <2>1
  <2>3. task' \in [Objects -> Task]
    <3>1. task[o].unread \ {n} \in SUBSET Objects
      BY <1>1 DEF Task
    <3> QED
      BY <1>1, <2>1, <3>1, StepOfTask
  <2>4. /\ task'[o].phase = task[o].phase /\ task'[o].ts = task[o].ts
        /\ task'[o].blast = task[o].blast /\ task'[o].targets = task[o].targets
        /\ task'[o].found = task[o].found /\ task'[o].unread = task[o].unread \ {n}
    BY <1>1, <2>2 DEF Task
  <2> QED
    BY <1>1, <1>4, <2>2, <2>3, <2>4
<1> QED
  BY <1>2, <1>3, <1>4

LEMMA WriteKeepsTask ==
  ASSUME TypeOK, NEW o \in Objects, WriteError(o)
  PROVE  /\ \A x \in Objects \ {o} : task'[x] = task[x]
         /\ task[o].phase = "scan" /\ task[o].unread = {} /\ task'[o].phase = "finish"
         /\ task'[o].ts = task[o].ts /\ task'[o].blast = task[o].blast
         /\ task'[o].targets = task[o].targets
         /\ \A x \in Objects \ {o} : stamp'[x] = stamp[x] /\ blast'[x] = blast[x]
         /\ \A x \in Objects : lost[x] <= lost'[x]
         /\ \/ /\ stamp' = stamp /\ blast' = blast /\ infected' = infected /\ failing' = failing
               /\ o \in alive => task[o].ts <= lost'[o]
            \/ /\ stamp'[o] = task[o].ts /\ blast'[o] = task[o].blast
               /\ failing' = (failing \ {o}) \cup task[o].restarts
               /\ infected' = IF task[o].found = {} THEN infected \ {o} ELSE infected \cup {o}
               /\ lost' = lost
<1> USE DEF TypeOK
<1>1. task' = [task EXCEPT ![o] = [task[o] EXCEPT !.phase = "finish"]] /\ task[o] \in Task
  BY DEF WriteError
<1>2. task'[o] = [task[o] EXCEPT !.phase = "finish"] /\ \A x \in Objects \ {o} : task'[x] = task[x]
  BY <1>1
<1>3. /\ task'[o].phase = "finish" /\ task'[o].ts = task[o].ts
      /\ task'[o].blast = task[o].blast /\ task'[o].targets = task[o].targets
  BY <1>1, <1>2 DEF Task
<1>4. \/ /\ stamp' = stamp /\ blast' = blast /\ infected' = infected /\ failing' = failing
         /\ o \notin alive \/ Misses({o}, task[o].ts)
      \/ /\ stamp' = [stamp EXCEPT ![o] = task[o].ts]
         /\ blast' = [blast EXCEPT ![o] = task[o].blast]
         /\ failing' = (failing \ {o}) \cup task[o].restarts
         /\ infected' = IF task[o].found = {} THEN infected \ {o} ELSE infected \cup {o}
         /\ lost' = lost
  BY DEF WriteError, graph, faults
<1>5. /\ \A x \in Objects : lost[x] <= lost'[x]
      /\ Misses({o}, task[o].ts) => task[o].ts <= lost'[o]
  <2>1. task[o].ts \in Nat
    BY <1>1 DEF Task
  <2>2. lost' = lost \/ Misses({o}, task[o].ts)
    BY DEF WriteError, faults
  <2> QED
    BY <2>1, <2>2, MissesRecorded
<1> QED
  BY <1>2, <1>3, <1>4, <1>5 DEF WriteError

LEMMA PathNext ==
  ASSUME NEW Level, SinglePaths(Level), 0 \notin ClockSteps, PathInv(Level), [Next]_vars
  PROVE  PathInv(Level)'
<1>1. PropagationInv' /\ PropagationInv /\ TypeOK /\ failing \subseteq Pods
  BY PropagationNext DEF PathInv, PropagationInv
<1>2. failing' \subseteq Pods
  <2>1. ASSUME NEW o \in Objects, WriteError(o) PROVE failing' \subseteq Pods
    <3>1. task[o].restarts \subseteq Pods
      BY <1>1 DEF TypeOK, Task
    <3> QED
      BY <1>1, <2>1, <3>1, WriteKeepsTask
  <2>2. ASSUME NEW p \in Pods, PodRestarts(p) PROVE failing' \subseteq Pods
    BY <1>1, <2>2 DEF PodRestarts
  <2>3. \/ failing' = failing
        \/ \E o \in Objects : WriteError(o)
        \/ \E p \in Pods : PodRestarts(p)
    BY DEF Next, vars, Handle, HandlePod, PodDeleted, ObjectRemoved, BuildRequested, Build,
           LinkMade, StartAsked, StartDelete, StartWave, ReadNeighbour, ReadFails, Finish
  <2> QED
    BY <1>1, <2>1, <2>2, <2>3
<1> DEFINE Goal == WavesFit(Level)' /\ RadiusFits(Level)' /\ TimesFit'
<1>3. ASSUME UNCHANGED <<task, stamp, blast, waves, clock>> PROVE Goal
  BY <1>3, PathQuiet
<1>4. UNCHANGED vars \/ BuildRequested \/ Build \/ (\E e \in Late : LinkMade(e)) => Goal
  BY <1>3 DEF vars, graph, signals, pods, BuildRequested, Build, LinkMade
<1>5. ASSUME NEW p \in Pods, PodRestarts(p) \/ PodDeleted(p) PROVE Goal
  BY <1>3, <1>5 DEF PodRestarts, PodDeleted, graph, signals
<1>6. ASSUME NEW o \in Removable, ObjectRemoved(o) PROVE Goal
  BY <1>3, <1>6 DEF ObjectRemoved, graph, signals
<1>7. ASSUME NEW p \in Pods, HandlePod(p) PROVE Goal
  BY <1>7, PathAsked DEF HandlePod
<1>8. ASSUME NEW w \in waves, StartWave(w) PROVE Goal
  BY <1>8, PathWave
<1>9. ASSUME NEW o \in Objects, NEW n \in Objects, ReadNeighbour(o, n) \/ ReadFails(o) PROVE Goal
  <2>1. UNCHANGED <<stamp, blast, waves, clock>>
    BY <1>9 DEF ReadNeighbour, ReadFails, graph, signals
  <2>2. \A x \in Objects :
           /\ task'[x].ts = task[x].ts /\ task'[x].blast = task[x].blast
           /\ task'[x].targets = task[x].targets
           /\ task'[x].phase = "idle" => task[x].phase = "idle"
    BY <1>1, <1>9, ReadsKeepTask
  <2> QED
    BY <2>1, <2>2, PathQuiet
<1>10. ASSUME NEW o \in Objects, WriteError(o) PROVE Goal
  <2>1. UNCHANGED <<waves, clock>>
    BY <1>10 DEF WriteError, signals
  <2>2. task[o].ts > 0
    <3>1. stamp[o] < task[o].ts /\ stamp[o] \in Nat /\ task[o].ts \in Nat
      BY <1>1, <1>10, WriteKeepsTask DEF PropagationInv, ChecksHold, Scanning, TypeOK, Task
    <3> QED
      BY <3>1
  <2>3. \A x \in Objects :
           /\ task'[x].ts = task[x].ts /\ task'[x].blast = task[x].blast
           /\ task'[x].targets = task[x].targets
           /\ task'[x].phase = "idle" => task[x].phase = "idle"
           /\ \/ stamp'[x] = stamp[x] /\ blast'[x] = blast[x]
              \/ stamp'[x] = task[x].ts /\ blast'[x] = task[x].blast /\ task[x].ts > 0
    BY <1>1, <1>10, <2>2, WriteKeepsTask
  <2> QED
    BY <2>1, <2>3, PathQuiet
<1>11. ASSUME NEW o \in Objects, Finish(o) PROVE Goal
  BY <1>11, PathFinish
<1>12. Goal
  BY <1>4, <1>5, <1>6, <1>7, <1>8, <1>9, <1>10, <1>11 DEF Next, Handle
<1> QED
  BY <1>1, <1>2, <1>12 DEF PathInv

LEMMA PathInit ==
  ASSUME NEW Level, Init, PropagationInv
  PROVE  PathInv(Level)
<1>1. /\ waves = {} /\ stamp = [o \in Objects |-> 0] /\ blast = [o \in Objects |-> NoBlast]
      /\ task = [o \in Objects |-> Idle] /\ failing \subseteq Pods
  BY DEF Init
<1>2. /\ Idle.ts = 0 /\ Idle.targets = {} /\ Idle.phase = "idle"
  BY DEF Idle
<1>3. \A t \in Times : \A x \in Objects : ~Carries(x, t) /\ ~Active(x, t)
  BY <1>1, <1>2 DEF Carries, Active, Times
<1>4. TimesFit
  BY <1>3 DEF TimesFit, ClockAhead, OneSource, MovesOn
<1>5. WavesFit(Level) /\ RadiusFits(Level)
  BY <1>1, <1>2 DEF WavesFit, RadiusFits
<1> QED
  BY <1>1, <1>4, <1>5 DEF PathInv

-----------------------------------------------------------------------------
\* Why o may have overlooked n for good reason: a wave was kept from one of them,
\* or the pod has yet to show what its restart means.
Excused(n, o) ==
  \/ stamp[n] <= lost[o]
  \/ stamp[n] < lost[n]
  \/ n \in Pods /\ (n \in unasked \/ asked[n] > 0 \/ Scanning(n))

\* What the wave that o shares with an infected neighbour n has shown to o.
Seen(n, o) ==
  /\ stamp[o] = stamp[n] => \/ o \in infected \cup blind
                            \/ Scanning(o) /\ stamp[n] < task[o].ts
                            \/ Excused(n, o)
  /\ Scanning(o) /\ task[o].ts = stamp[n] => \/ n \in task[o].unread
                                             \/ task[o].found # {}
                                             \/ o \in blind
                                             \/ Excused(n, o)

NoneMissed ==
  \A n, o \in alive :
    /\ <<n, o>> \in Propagate
    /\ <<o, n>> \in Rely
    /\ n \in failing \cup infected
    /\ stamp[n] > 0
    => Seen(n, o)

MissInv(Level) == PathInv(Level) /\ OwnRestarts /\ NoneMissed

LEMMA SeenStart ==
  ASSUME NEW Level, MissInv(Level), NEW c \in Objects, NEW ts \in Times, NEW radius \in Nat,
         NEW op \in {"update", "delete"}, Start(c, ts, radius, op),
         task[c].phase = "idle", radius = Level[c],
         UNCHANGED <<alive, failing, graph, unasked>>,
         \A p \in Pods \ {c} : asked'[p] = asked[p],
         c \in Pods => asked'[c] = asked[c] \/ Accepts(c, ts, radius)
  PROVE  NoneMissed'
<1> USE DEF MissInv, PathInv, PropagationInv, TypeOK, graph
<1>1. /\ task' \in [Objects -> Task]
      /\ lost' \in [Objects -> Nat]
      /\ \A x \in Objects : lost[x] <= lost'[x]
      /\ \A x \in Objects \ {c} : task'[x] = task[x] /\ (x \in blind' <=> x \in blind)
      /\ \/ /\ c \in alive /\ Accepts(c, ts, radius)
            /\ task'[c].phase = "scan" /\ task'[c].ts = ts
            /\ task'[c].unread = Linked(c, Rely)
            /\ Overlooked(c, Rely) = {} \/ c \in blind'
         \/ /\ task'[c].phase # "scan"
            /\ c \in blind' <=> c \in blind
            /\ c \notin alive \/ ts <= lost'[c] \/ ~Accepts(c, ts, radius)
  BY StartPath
<1>2. ts \in Nat /\ (Accepts(c, ts, radius) => stamp[c] < ts)
  BY DEF Accepts, Times
<1>3. ASSUME NEW n \in alive, NEW o \in alive, Excused(n, o) PROVE Excused(n, o)'
  <2>1. n \in Objects /\ o \in Objects /\ stamp[n] \in Nat /\ stamp'[n] = stamp[n]
    OBVIOUS
  <2>2. CASE stamp[n] <= lost[o] \/ stamp[n] < lost[n]
    BY <1>1, <2>1, <2>2 DEF Excused
  <2>3. CASE n \in Pods /\ (n \in unasked \/ asked[n] > 0 \/ Scanning(n)) /\ n # c
    BY <1>1, <2>1, <2>3 DEF Excused, Scanning
  <2>4. CASE n \in Pods /\ (n \in unasked \/ asked[n] > 0) /\ n = c
    BY <1>1, <1>2, <2>1, <2>4 DEF Excused, Scanning
  <2>5. ~Scanning(c)
    BY DEF Scanning
  <2> QED
    BY <1>3, <2>2, <2>3, <2>4, <2>5 DEF Excused
<1> SUFFICES ASSUME NEW n \in alive, NEW o \in alive,
                    <<n, o>> \in Propagate, <<o, n>> \in Rely,
                    n \in failing \cup infected, stamp[n] > 0
             PROVE  Seen(n, o)'
  BY DEF NoneMissed
<1>4. Seen(n, o) /\ n \in Objects /\ o \in Objects
  BY DEF NoneMissed
<1>5. CASE o # c
  BY <1>1, <1>3, <1>4, <1>5 DEF Seen, Scanning
<1>6. CASE o = c
  <2>1. n \in Linked(o, Rely) \cup Overlooked(o, Rely)
    BY DEF Linked, Overlooked, Neighbours
  <2>2. ~Scanning(c)
    BY DEF Scanning
  <2> QED
    BY <1>1, <1>2, <1>3, <1>4, <1>6, <2>1, <2>2 DEF Seen, Scanning
<1> QED
  BY <1>5, <1>6

\* A neighbour that counts as infected by now is found when it is read.
LEMMA SeenRead ==
  ASSUME NEW Level, SinglePaths(Level), MissInv(Level), NEW c \in Objects, NEW m \in Objects,
         ReadNeighbour(c, m) \/ ReadFails(c)
  PROVE  NoneMissed'
<1> USE DEF MissInv, PathInv, PropagationInv, TypeOK
<1>1. /\ \A x \in Objects \ {c} : task'[x] = task[x]
      /\ task[c].phase = "scan" /\ task'[c].phase = "scan"
      /\ task'[c].ts = task[c].ts
      /\ \/ ReadFails(c)
         \/ task'[c].found = {m}
         \/ /\ ReadNeighbour(c, m) /\ ~Infects(m, task[c].blast)
            /\ task'[c].found = task[c].found /\ task'[c].unread = task[c].unread \ {m}
  BY ReadsKeepTask
<1>2. /\ UNCHANGED <<alive, failing, infected, stamp, asked, unasked, lost>>
      /\ \A x \in Objects : x \in blind => x \in blind'
      /\ ReadFails(c) => c \in blind'
  BY DEF ReadNeighbour, ReadFails, graph, signals, pods, faults
<1>3. \A x \in Objects : Scanning(x)' <=> Scanning(x)
  BY <1>1 DEF Scanning
<1> SUFFICES ASSUME NEW n \in alive, NEW o \in alive,
                    <<n, o>> \in Propagate, <<o, n>> \in Rely,
                    n \in failing \cup infected, stamp[n] > 0
             PROVE  Seen(n, o)'
  BY <1>2 DEF NoneMissed
<1>4. Seen(n, o) /\ n \in Objects /\ o \in Objects
  BY DEF NoneMissed
<1>5. Excused(n, o)' <=> Excused(n, o)
  BY <1>2, <1>3, <1>4 DEF Excused
<1>6. task'[o].ts = task[o].ts
  BY <1>1, <1>4
<1>7. Scanning(o) /\ task[o].ts = stamp[n] => Infects(n, task[o].blast)
  <2> SUFFICES ASSUME Scanning(o), task[o].ts = stamp[n] PROVE Infects(n, task[o].blast)
    OBVIOUS
  <2>1. /\ task[o].blast = Level[o] /\ blast[n] = Level[n]
        /\ Level[o] = Level[n] + 1 /\ Level[n] \in Nat /\ Level[n] < NoBlast
    BY <1>4, LevelIsNat DEF RadiusFits, SinglePaths
  <2> QED
    BY <2>1 DEF Infects, NoBlast
<1>8. stamp[o] = stamp[n] => \/ o \in infected \cup blind'
                             \/ Scanning(o)' /\ stamp[n] < task'[o].ts
                             \/ Excused(n, o)'
  BY <1>2, <1>3, <1>4, <1>5, <1>6 DEF Seen
<1>9. ASSUME Scanning(o), task[o].ts = stamp[n]
       PROVE  n \in task'[o].unread \/ task'[o].found # {} \/ o \in blind' \/ Excused(n, o)'
  <2>1. n \in task[o].unread \/ task[o].found # {} \/ o \in blind \/ Excused(n, o)
    BY <1>4, <1>9 DEF Seen
  <2>2. CASE o # c
    BY <1>1, <1>2, <1>4, <1>5, <2>1, <2>2
  <2>3. CASE o = c
    BY <1>1, <1>2, <1>4, <1>5, <1>7, <1>9, <2>1, <2>3
  <2> QED
    BY <2>2, <2>3
<1> QED
  BY <1>2, <1>3, <1>6, <1>8, <1>9 DEF Seen

\* A result written with the stamp of an infected neighbour shows the infection,
\* and a neighbour writes no stamp that has been beyond it.
LEMMA SeenWrite ==
  ASSUME NEW Level, SinglePaths(Level), MissInv(Level), NEW c \in Objects, WriteError(c)
  PROVE  NoneMissed'
<1> USE DEF MissInv, PathInv, PropagationInv, TypeOK
<1> DEFINE T == task[c].ts
<1>1. /\ \A x \in Objects \ {c} : task'[x] = task[x] /\ stamp'[x] = stamp[x]
      /\ task[c].phase = "scan" /\ task[c].unread = {} /\ task'[c].phase = "finish"
      /\ \A x \in Objects : lost[x] <= lost'[x]
      /\ \/ /\ stamp' = stamp /\ infected' = infected /\ failing' = failing
            /\ c \in alive => T <= lost'[c]
         \/ /\ stamp'[c] = T
            /\ failing' = (failing \ {c}) \cup task[c].restarts
            /\ infected' = IF task[c].found = {} THEN infected \ {c} ELSE infected \cup {c}
            /\ lost' = lost
  BY WriteKeepsTask
<1>2. UNCHANGED <<alive, asked, unasked, blind>>
  BY DEF WriteError, signals, pods, faults
<1>3. T \in Nat /\ stamp[c] < T
  BY <1>1 DEF ChecksHold, Scanning, Task
<1>4. lost' \in [Objects -> Nat] /\ stamp' \in [Objects -> Nat]
  <2>1. lost' = lost \/ Misses({c}, T)
    BY DEF WriteError, faults
  <2>2. stamp' = stamp \/ stamp' = [stamp EXCEPT ![c] = T]
    BY DEF WriteError, graph
  <2> QED
    BY <1>3, <2>1, <2>2, MissesRecorded
<1> SUFFICES ASSUME NEW n \in alive, NEW o \in alive,
                    <<n, o>> \in Propagate, <<o, n>> \in Rely,
                    n \in failing' \cup infected', stamp'[n] > 0
             PROVE  Seen(n, o)'
  BY <1>2 DEF NoneMissed
<1>5. n \in Objects /\ o \in Objects /\ n # o
  <2>1. n \in Objects /\ o \in Objects
    OBVIOUS
  <2>2. Level[o] = Level[n] + 1 /\ Level[n] \in Nat
    BY LevelIsNat DEF SinglePaths
  <2> QED
    BY <2>1, <2>2
<1>6. CASE n = c /\ stamp'[c] = T
  <2>1. T \in Times /\ Active(n, T)
    BY <1>3, <1>5, <1>6 DEF Times, Active
  <2>2. ~Carries(o, T)
    BY <1>5, <2>1, BeforeFacts DEF TimesFit, MovesOn
  <2>3. stamp[o] # T /\ task[o].ts # T
    BY <2>2 DEF Carries
  <2>4. stamp'[n] = T /\ stamp'[o] = stamp[o] /\ task'[o].ts = task[o].ts
    BY <1>1, <1>5, <1>6
  <2> QED
    BY <2>3, <2>4 DEF Seen
<1>7. CASE ~(n = c /\ stamp'[c] = T)
  <2>1. stamp'[n] = stamp[n] /\ n \in failing \cup infected
    <3>1. CASE n = c
      BY <1>1, <1>5, <1>7, <3>1
    <3>2. CASE n # c
      <4>1. task[c].restarts \subseteq {c}
        BY DEF OwnRestarts
      <4> QED
        BY <1>1, <1>5, <1>5, <3>2, <4>1
    <3> QED
      BY <3>1, <3>2
  <2>2. Seen(n, o)
    BY <1>5, <2>1 DEF NoneMissed
  <2>3. Excused(n, o) => Excused(n, o)'
    <3>1. CASE stamp[n] <= lost[o] \/ stamp[n] < lost[n]
      BY <1>1, <1>4, <1>5, <2>1, <3>1 DEF Excused
    <3>2. CASE n \in Pods /\ (n \in unasked \/ asked[n] > 0)
      BY <1>2, <3>2 DEF Excused
    <3>3. CASE n \in Pods /\ Scanning(n) /\ n # c
      BY <1>1, <1>5, <3>3 DEF Excused, Scanning
    <3>4. CASE n = c
      <4>1. T <= lost'[n]
        BY <1>1, <1>7, <3>4
      <4> QED
        BY <1>3, <1>4, <1>5, <2>1, <3>4, <4>1 DEF Excused
    <3> QED
      BY <3>1, <3>2, <3>3, <3>4 DEF Excused
  <2>4. CASE o # c
    <3>1. /\ task'[o] = task[o] /\ stamp'[o] = stamp[o] /\ (Scanning(o)' <=> Scanning(o))
          /\ (o \in infected' <=> o \in infected) /\ (o \in blind' <=> o \in blind)
      BY <1>1, <1>2, <1>5, <2>4 DEF Scanning
    <3> QED
      BY <2>1, <2>2, <2>3, <3>1 DEF Seen
  <2>5. CASE o = c
    <3>1. ~Scanning(o)' /\ Scanning(o)
      BY <1>1, <2>5 DEF Scanning
    <3>2. CASE stamp' = stamp /\ infected' = infected /\ T <= lost'[o]
      <4>1. stamp[n] < T => Excused(n, o)'
        BY <1>3, <1>4, <1>5, <2>1, <3>2 DEF Excused
      <4> QED
        BY <1>2, <2>1, <2>2, <2>3, <2>5, <3>1, <3>2, <4>1 DEF Seen
    <3>3. CASE /\ stamp'[c] = T
               /\ infected' = IF task[c].found = {} THEN infected \ {c} ELSE infected \cup {c}
      BY <1>1, <1>2, <2>1, <2>2, <2>3, <2>5, <3>1, <3>3 DEF Seen
    <3> QED
      BY <1>1, <2>5, <3>2, <3>3
  <2> QED
    BY <2>4, <2>5
<1> QED
  BY <1>6, <1>7

\* Steps that write no result and leave the handlers that read alone.
LEMMA SeenQuiet ==
  ASSUME NEW Level, MissInv(Level), alive' \subseteq alive,
         UNCHANGED <<stamp, infected, blind>>,
         lost' \in [Objects -> Nat], \A x \in Objects : lost[x] <= lost'[x],
         \A x \in Objects : /\ Scanning(x)' <=> Scanning(x)
                            /\ Scanning(x) => task'[x] = task[x],
         \A x \in failing' : x \in failing \/ (x \in Pods /\ x \in unasked'),
         \A p \in Pods \cap alive' : p \in unasked \/ asked[p] > 0 => p \in unasked' \/ asked'[p] > 0
  PROVE  NoneMissed'
<1> USE DEF MissInv, PathInv, PropagationInv, TypeOK
<1> SUFFICES ASSUME NEW n \in alive', NEW o \in alive',
                    <<n, o>> \in Propagate, <<o, n>> \in Rely,
                    n \in failing' \cup infected, stamp[n] > 0
             PROVE  Seen(n, o)'
  BY DEF NoneMissed
<1>1. n \in Objects /\ o \in Objects /\ n \in alive /\ o \in alive
  OBVIOUS
<1>2. Excused(n, o) => Excused(n, o)'
  BY <1>1 DEF Excused
<1>3. CASE n \in Pods /\ n \in unasked'
  BY <1>3 DEF Seen, Excused
<1>4. CASE n \in failing \cup infected
  <2>1. Seen(n, o)
    BY <1>1, <1>4 DEF NoneMissed
  <2> QED
    BY <1>1, <1>2, <2>1 DEF Seen
<1> QED
  BY <1>3, <1>4

LEMMA MissNext ==
  ASSUME NEW Level, SinglePaths(Level), 0 \notin ClockSteps, MissInv(Level), PodsInv, [Next]_vars
  PROVE  MissInv(Level)'
<1>1. PathInv(Level)' /\ OwnRestarts'
  BY PathNext, PodsNext DEF MissInv, PodsInv
<1> SUFFICES NoneMissed'
  BY <1>1 DEF MissInv
<1>2. PathInv(Level) /\ PropagationInv /\ TypeOK
  BY DEF MissInv, PathInv, PropagationInv
<1>3. ASSUME alive' \subseteq alive, UNCHANGED <<graph, task, lost, blind>>,
             \A x \in failing' : x \in failing \/ (x \in Pods /\ x \in unasked'),
             \A p \in Pods \cap alive' : p \in unasked \/ asked[p] > 0 => p \in unasked' \/ asked'[p] > 0
      PROVE  NoneMissed'
  <2>1. UNCHANGED <<stamp, infected, blind, lost>>
    BY <1>3 DEF graph
  <2>2. \A x \in Objects : /\ Scanning(x)' <=> Scanning(x)
                           /\ Scanning(x) => task'[x] = task[x]
    BY <1>3 DEF Scanning
  <2>3. lost' \in [Objects -> Nat] /\ \A x \in Objects : lost[x] <= lost'[x]
    BY <1>2, <2>1 DEF TypeOK
  <2> QED
    BY <1>3, <2>1, <2>2, <2>3, SeenQuiet
<1>4. CASE UNCHANGED vars \/ \E e \in Late : LinkMade(e)
  <2>1. UNCHANGED <<alive, graph, task, lost, blind, failing, unasked, asked>>
    BY <1>4 DEF vars, signals, pods, faults, LinkMade
  <2>2. \A p \in Pods \cap alive' : p \in unasked \/ asked[p] > 0 => p \in unasked' \/ asked'[p] > 0
    BY <2>1, Zenon
  <2> QED
    BY <1>3, <2>1, <2>2
<1>5. ASSUME NEW p \in Pods, PodRestarts(p) \/ PodDeleted(p) PROVE NoneMissed'
  <2>1. /\ UNCHANGED <<alive, graph, task, lost, blind, asked>>
        /\ \A x \in failing' : x \in failing \/ (x \in Pods /\ x \in unasked')
        /\ unasked \subseteq unasked'
    BY <1>5 DEF PodRestarts, PodDeleted, signals, faults
  <2> QED
    BY <1>3, <2>1
<1>6. ASSUME NEW o \in Removable, ObjectRemoved(o) PROVE NoneMissed'
  <2>1. alive' \subseteq alive /\ UNCHANGED <<graph, task, lost, blind, asked, failing, unasked>>
    BY <1>6 DEF ObjectRemoved, signals, faults
  <2> QED
    BY <1>3, <2>1
<1>7. CASE BuildRequested
  <2>1. UNCHANGED <<alive, graph, task, lost, blind, asked, failing, unasked>>
    BY <1>7 DEF BuildRequested, signals, faults
  <2> QED
    BY <1>3, <2>1
<1>8. CASE Build
  <2>1. \A p \in Pods : p \in unasked \/ asked[p] > 0 => p \in unasked' \/ asked'[p] > 0
    BY <1>2, <1>8, BuildAsks
  <2>2. UNCHANGED <<alive, graph, task, lost, blind, failing>>
    BY <1>8 DEF Build
  <2> QED
    BY <1>3, <2>1, <2>2
<1>9. ASSUME NEW p \in Pods, HandlePod(p) PROVE NoneMissed'
  <2>1. p \in Objects /\ Level[p] = 0 /\ task[p].phase = "idle"
    BY <1>9, GraphAssumption DEF SinglePaths, HandlePod, StartAsked, StartDelete
  <2>2. ASSUME NEW t \in Now(p) PROVE t \in Times /\ Accepts(p, t, 0)
    <3>1. t \in Nat /\ stamp[p] \in Nat /\ stamp[p] < t
      BY <1>2, <2>1, NowIsNat DEF Now, TypeOK
    <3> QED
      BY <1>2, <3>1, OwnWaveAccepted DEF Times
  <2>3. CASE StartAsked(p)
    <3>1. PICK t \in Now(p) : Start(p, t, 0, "update")
      BY <2>3 DEF StartAsked
    <3>2. \A q \in Pods \ {p} : asked'[q] = asked[q]
      BY <1>2, <2>3 DEF StartAsked, TypeOK
    <3> QED
      BY <2>1, <2>2, <2>3, <3>1, <3>2, SeenStart DEF StartAsked, pods
  <2>4. CASE StartDelete(p)
    <3>1. PICK t \in Now(p) : Start(p, t, 0, "delete")
      BY <2>4 DEF StartDelete
    <3> QED
      BY <2>1, <2>2, <2>4, <3>1, SeenStart DEF StartDelete, pods
  <2> QED
    BY <1>9, <2>3, <2>4 DEF HandlePod
<1>10. ASSUME NEW w \in waves, StartWave(w) PROVE NoneMissed'
  <2>1. w.to \in Objects /\ w.ts \in Nat /\ w.ts > 0 /\ w.blast \in Nat /\ w.blast = Level[w.to]
    BY <1>2 DEF PathInv, WavesFit, TypeOK
  <2>2. w.ts \in Times
    BY <2>1 DEF Times
  <2> QED
    BY <1>10, <2>1, <2>2, SeenStart DEF StartWave, pods
<1>11. ASSUME NEW o \in Objects, NEW n \in Objects, ReadFails(o) \/ ReadNeighbour(o, n)
       PROVE  NoneMissed'
  BY <1>11, SeenRead
<1>12. ASSUME NEW o \in Objects, WriteError(o) PROVE NoneMissed'
  BY <1>12, SeenWrite
<1>13. ASSUME NEW o \in Objects, Finish(o) PROVE NoneMissed'
  <2>1. /\ alive' \subseteq alive
        /\ UNCHANGED <<stamp, infected, blind, failing, asked, unasked>>
        /\ task' = [task EXCEPT ![o] = Idle] /\ task[o].phase = "finish"
    BY <1>13 DEF Finish, pods, graph, faults
  <2>2. \A x \in Objects : /\ Scanning(x)' <=> Scanning(x)
                           /\ Scanning(x) => task'[x] = task[x]
    BY <1>2, <2>1 DEF Scanning, TypeOK, Idle
  <2>3. lost' \in [Objects -> Nat] /\ \A x \in Objects : lost[x] <= lost'[x]
    <3>1. task[o].ts \in Nat
      BY <1>2 DEF TypeOK, Task
    <3>2. lost' = lost \/ \E S : Misses(S, task[o].ts)
      BY <1>13 DEF Finish, faults
    <3> QED
      BY <1>2, <3>1, <3>2, MissesRecorded DEF TypeOK
  <2> QED
    BY <2>1, <2>2, <2>3, SeenQuiet
<1> QED
  <2>1. ASSUME NEW o \in Objects, Handle(o) PROVE NoneMissed'
    BY <1>10, <1>11, <1>12, <1>13, <2>1 DEF Handle
  <2> QED
    BY <1>4, <1>5, <1>6, <1>7, <1>8, <1>9, <2>1 DEF Next

\* On a graph with one path from a pod to an object, and with timestamps that
\* differ, an infected neighbour is overlooked only by an object that carries a
\* newer wave: whoever reads it before it was infected is handling another wave
\* (error_propagate.go 64-100), unless a call of one of the two has failed, the
\* link between them was made late, or no build has asked the neighbour since it
\* restarted (adapter.go 141-149, 166).
THEOREM NothingElseOverlooked ==
  ASSUME NEW Level, SinglePaths(Level), 0 \notin ClockSteps
  PROVE  Spec => []MissedOnlyIfOvertaken
<1>1. Init /\ PodsInv => MissInv(Level)
  <2> SUFFICES ASSUME Init, PodsInv PROVE MissInv(Level)
    OBVIOUS
  <2>1. PathInv(Level) /\ OwnRestarts
    BY PathInit DEF PodsInv
  <2>2. alive = Objects /\ stamp = [o \in Objects |-> 0]
    BY DEF Init
  <2>3. NoneMissed
    BY <2>2 DEF NoneMissed
  <2> QED
    BY <2>1, <2>3 DEF MissInv
<1>2. PodsInv /\ MissInv(Level) /\ [Next]_vars => MissInv(Level)'
  BY MissNext
<1>3. PodsInv /\ MissInv(Level) => MissedOnlyIfOvertaken
  <2> SUFFICES ASSUME PodsInv, MissInv(Level), Quiescent, NEW o \in alive, NEW n \in alive,
                      <<n, o>> \in Propagate, <<o, n>> \in Rely, n \in (failing \cup infected) \ unasked,
                      o \notin infected \cup blind, stamp[n] > lost[o], stamp[n] >= lost[n]
               PROVE  stamp[n] < stamp[o]
    BY DEF MissedOnlyIfOvertaken
  <2> USE DEF MissInv, PathInv, PropagationInv, TypeOK
  <2>1. /\ n \in Objects /\ o \in Objects
        /\ stamp[n] \in Nat /\ stamp[o] \in Nat /\ lost[o] \in Nat /\ lost[n] \in Nat
        /\ stamp[n] > 0
    OBVIOUS
  <2>2. Level[o] = Level[n] + 1 /\ Level[n] \in Nat /\ Level[n] < NoBlast /\ Level[o] \in Nat
    BY <2>1, LevelIsNat DEF SinglePaths
  <2>3. ~(blast[o] <= blast[n])
    <3>1. blast[n] = Level[n] /\ blast[o] \in {NoBlast, Level[o]}
      BY <2>1 DEF RadiusFits
    <3> QED
      BY <2>2, <3>1 DEF NoBlast
  <2>4. /\ waves = {} /\ task[n].phase = "idle" /\ task[o].phase = "idle"
        /\ n \notin unasked /\ \A p \in Pods : asked[p] = 0
    BY <2>1 DEF Quiescent
  <2>5. stamp[n] <= stamp[o]
    <3>1. OnItsWay(n, o)
      BY <2>1, <2>2 DEF WavesTracked
    <3> QED
      BY <2>1, <2>3, <2>4, <3>1 DEF OnItsWay, AboutToSignal, Scanning
  <2>6. stamp[o] # stamp[n]
    <3>1. Seen(n, o)
      BY <2>1 DEF NoneMissed
    <3> QED
      BY <2>1, <2>4, <3>1 DEF Seen, Excused, Scanning
  <2> QED
    BY <2>1, <2>5, <2>6
<1>4. Spec => [](PodsInv /\ MissInv(Level))
  BY <1>1, <1>2, PodsInvariant, PTL DEF Spec
<1> QED
  BY <1>3, <1>4, PTL

-----------------------------------------------------------------------------
(* Graphs where every pod has a tree of its own, but for links that lead    *)
(* back, and so for their cycles.                                           *)

\* The links of a tree, and who is above whom in it.
TreeLinks(Parent) == {<<Parent[x], x>> : x \in DOMAIN Parent}
Above(Parent) == TransitiveClosureOn(TreeLinks(Parent), Objects)

\* The objects of the trees.
InTrees(Parent) == Pods \cup DOMAIN Parent

\* Every pod is the root of a tree.  An object of a tree propagates to its
\* children, each of which relies on it, and otherwise only to objects above it
\* or to itself; it relies on its parent, and otherwise only on itself, on
\* objects below it or outside the trees.  Nothing but pods is ever removed.
LinkedAsTrees(Root, Parent, Level) ==
  /\ Removable = {}
  /\ DOMAIN Parent \subseteq Objects \ Pods
  /\ Level \in [Objects -> Nat]
  /\ \A x \in Objects : Level[x] < NoBlast
  /\ \A q \in Pods : Root[q] = q /\ Level[q] = 0
  /\ \A x \in DOMAIN Parent :
       /\ Parent[x] \in InTrees(Parent)
       /\ Root[x] \in Pods /\ Root[x] = Root[Parent[x]]
       /\ <<Root[x], x>> \in Above(Parent)
       /\ Level[x] = Level[Parent[x]] + 1
       /\ <<Parent[x], x>> \in Propagate
       /\ <<x, Parent[x]>> \in Rely
  /\ \A y \in InTrees(Parent) : \A x \in Objects : <<y, x>> \in Propagate =>
       x = y \/ (x \in DOMAIN Parent /\ y = Parent[x]) \/ <<x, y>> \in Above(Parent)
  /\ \A x, y \in InTrees(Parent) : <<x, y>> \in Rely =>
       x = y \/ (x \in DOMAIN Parent /\ y = Parent[x]) \/ <<x, y>> \in Above(Parent)

\* What holds of every link of the tree holds from an object to any below it.
LEMMA AlongTheTree ==
  ASSUME NEW Root, NEW Parent, NEW Level, LinkedAsTrees(Root, Parent, Level),
         NEW U \in SUBSET (Objects \X Objects), IsTransitivelyClosedOn(U, Objects),
         \A x \in DOMAIN Parent : <<Parent[x], x>> \in U
  PROVE  Above(Parent) \subseteq U
<1>1. TreeLinks(Parent) \cap Objects \X Objects \subseteq U
  BY DEF TreeLinks
<1> QED
  BY <1>1, TransitiveClosureMinimal DEF Above

LEMMA TreeFacts ==
  ASSUME NEW Root, NEW Parent, NEW Level, LinkedAsTrees(Root, Parent, Level)
  PROVE  /\ \A q \in Pods : q \in Objects /\ Level[q] = 0
         /\ \A x \in Objects : Level[x] \in Nat /\ Level[x] < NoBlast
         /\ InTrees(Parent) \subseteq Objects
         /\ \A x \in DOMAIN Parent : x \in Objects \ Pods /\ Parent[x] \in Objects \ {x}
         /\ \A x, y \in Objects : <<x, y>> \in Above(Parent) =>
              /\ x \in InTrees(Parent) /\ y \in DOMAIN Parent
              /\ Level[x] < Level[y]
              /\ Root[x] = Root[y]
<1>1. \A q \in Pods : q \in Objects /\ Level[q] = 0
  BY GraphAssumption DEF LinkedAsTrees
<1>2. \A x \in Objects : Level[x] \in Nat /\ Level[x] < NoBlast
  BY DEF LinkedAsTrees
<1>3. InTrees(Parent) \subseteq Objects
  BY <1>1 DEF LinkedAsTrees, InTrees
<1>4. ASSUME NEW x \in DOMAIN Parent PROVE x \in Objects \ Pods /\ Parent[x] \in Objects \ {x}
  <2>1. x \in Objects \ Pods /\ Parent[x] \in Objects /\ Level[x] = Level[Parent[x]] + 1
    BY <1>3 DEF LinkedAsTrees
  <2>2. Parent[x] # x
    BY <1>2, <2>1
  <2> QED
    BY <2>1, <2>2
<1>5. ASSUME NEW a \in Objects, NEW b \in Objects, <<a, b>> \in Above(Parent)
      PROVE  /\ a \in InTrees(Parent) /\ b \in DOMAIN Parent
             /\ Level[a] < Level[b] /\ Root[a] = Root[b]
  <2> DEFINE U == {e \in Objects \X Objects :
                     /\ e[1] \in InTrees(Parent) /\ e[2] \in DOMAIN Parent
                     /\ Level[e[1]] < Level[e[2]] /\ Root[e[1]] = Root[e[2]]}
  <2>1. IsTransitivelyClosedOn(U, Objects)
    BY <1>2 DEF IsTransitivelyClosedOn
  <2>2. ASSUME NEW x \in DOMAIN Parent PROVE <<Parent[x], x>> \in U
    <3>1. /\ Level[x] = Level[Parent[x]] + 1 /\ Parent[x] \in InTrees(Parent)
          /\ Root[x] = Root[Parent[x]]
      BY DEF LinkedAsTrees
    <3> QED
      BY <1>2, <1>4, <3>1
  <2>3. U \in SUBSET (Objects \X Objects)
    OBVIOUS
  <2>4. <<a, b>> \in U
    <3> HIDE DEF U
    <3> QED
      BY <1>5, <2>1, <2>2, <2>3, AlongTheTree
  <2> QED
    BY <2>4
<1> QED
  BY <1>1, <1>2, <1>3, <1>4, <1>5

-----------------------------------------------------------------------------
\* n shows an error to those that rely on it.
Bad(n) == n \in alive \cap (failing \cup infected)

\* Pod n has changed since it last started a wave, and no build has asked it, or
\* it will start another.
Renewing(n) == n \in Pods \cap alive /\ (n \in unasked \/ asked[n] > 0 \/ Scanning(n))

\* The record and the handler of x carry its distance, and the handler has read
\* its links.  Only a pod fails, finds nobody, and is ever deleted.
NodeFits(x, Here, Level) ==
  /\ blast[x] = IF stamp[x] = 0 THEN NoBlast ELSE Level[x]
  /\ stamp[x] > 0 => x \in Here
  /\ task[x].phase = "idle" => task[x].ts = 0
  /\ task[x].phase # "idle" =>
       x \in Here \cap alive /\ task[x].ts > 0 /\ task[x].blast = Level[x]
  /\ task[x].phase = "finish" => stamp[x] = task[x].ts
  /\ \A y \in task[x].targets : <<x, y>> \in Propagate
  /\ \A y \in task[x].unread : <<x, y>> \in Rely
  /\ x \in infected => stamp[x] > 0 /\ x \notin Pods
  /\ x \in failing => x \in Pods
  /\ x \in Pods => task[x].found = {}
  /\ x \notin Pods => x \in alive /\ task[x].op = "update"

\* A wave carries a distance and what its sender knows.
WaveFits(w, Here, Level) ==
  /\ <<w.from, w.to>> \in Propagate /\ w.from # w.to
  /\ w.from \in Here
  /\ w.blast = Level[w.from] + 1
  /\ w.ts <= stamp[w.from]

\* What holds between x and its parent n.  x is not ahead of n, ...
Behind(n, x) == stamp[x] <= stamp[n] /\ task[x].ts <= stamp[n]

\* ... and has nothing of a wave that n has still to send.
NotSent(n, x) ==
  task[n].phase = "finish" =>
    /\ stamp[x] < task[n].ts
    /\ task[x].ts < task[n].ts
    /\ \A w \in waves : w.from = n /\ w.to = x => w.ts < task[n].ts

\* The last wave of n is known to x or on its way.
Coming(n, x) ==
  \/ stamp[n] <= stamp[x]
  \/ \E w \in waves : w.from = n /\ w.to = x /\ w.ts = stamp[n]
  \/ task[n].phase = "finish" /\ x \in task[n].targets
  \/ Scanning(x) /\ task[x].ts = stamp[n]

\* When x has written the last wave of n, or is about to, it says what n says,
\* unless n is a pod that has changed since.
Agreeing(n, x) ==
  \/ Renewing(n)
  \/ /\ stamp[x] = stamp[n] => (x \in infected <=> Bad(n))
     /\ Scanning(x) /\ task[x].ts = stamp[n] =>
          /\ task[x].found # {} => Bad(n)
          /\ Bad(n) => task[x].found # {} \/ n \in task[x].unread

EdgeFits(n, x) == Behind(n, x) /\ NotSent(n, x) /\ Coming(n, x) /\ Agreeing(n, x)

\* As long as no call has failed:
TreeFits(Parent, Level) ==
  /\ \A x \in Objects : NodeFits(x, InTrees(Parent), Level)
  /\ \A w \in waves : WaveFits(w, InTrees(Parent), Level)
  /\ \A x \in DOMAIN Parent : EdgeFits(Parent[x], x)

\* Nobody below an object is ahead of it.
LEMMA BelowIsBehind ==
  ASSUME NEW Root, NEW Parent, NEW Level, LinkedAsTrees(Root, Parent, Level),
         TypeOK, TreeFits(Parent, Level),
         NEW a \in Objects, NEW b \in Objects, <<a, b>> \in Above(Parent)
  PROVE  stamp[b] <= stamp[a]
<1> DEFINE U == {e \in Objects \X Objects : stamp[e[2]] <= stamp[e[1]]}
<1>1. IsTransitivelyClosedOn(U, Objects)
  BY DEF IsTransitivelyClosedOn, TypeOK
<1>2. \A x \in DOMAIN Parent : <<Parent[x], x>> \in U
  BY TreeFacts DEF TreeFits, EdgeFits, Behind
<1>3. U \in SUBSET (Objects \X Objects)
  OBVIOUS
<1>4. <<a, b>> \in U
  <2> HIDE DEF U
  <2> QED
    BY <1>1, <1>2, <1>3, AlongTheTree
<1> QED
  BY <1>4

\* A wave that is accepted comes from the parent: others come from below, and
\* what they carry is known.
LEMMA AcceptedFromParent ==
  ASSUME NEW Root, NEW Parent, NEW Level, LinkedAsTrees(Root, Parent, Level),
         TypeOK, TreeFits(Parent, Level), NEW w \in waves
  PROVE  /\ w.to \in InTrees(Parent)
         /\ stamp[w.to] < w.ts =>
              /\ w.to \in DOMAIN Parent /\ w.from = Parent[w.to] /\ w.blast = Level[w.to]
<1>1. w.to \in Objects /\ w.from \in Objects /\ w.ts \in Nat
  BY DEF TypeOK
<1>2. /\ <<w.from, w.to>> \in Propagate /\ w.from # w.to /\ w.from \in InTrees(Parent)
      /\ w.blast = Level[w.from] + 1 /\ w.ts <= stamp[w.from]
  BY DEF TreeFits, WaveFits
<1>3. \/ w.to \in DOMAIN Parent /\ w.from = Parent[w.to]
      \/ <<w.to, w.from>> \in Above(Parent)
  BY <1>1, <1>2 DEF LinkedAsTrees
<1>4. CASE w.to \in DOMAIN Parent /\ w.from = Parent[w.to]
  BY <1>2, <1>4 DEF LinkedAsTrees, InTrees
<1>5. CASE <<w.to, w.from>> \in Above(Parent)
  <2>1. w.to \in InTrees(Parent)
    BY <1>1, <1>5, TreeFacts
  <2>2. stamp[w.from] <= stamp[w.to]
    BY <1>1, <1>5, BelowIsBehind
  <2>3. stamp[w.from] \in Nat /\ stamp[w.to] \in Nat
    BY <1>1 DEF TypeOK
  <2> QED
    BY <1>1, <1>2, <2>1, <2>2, <2>3
<1> QED
  BY <1>3, <1>4, <1>5

\* An edge is as it was when its two ends are.
LEMMA EdgeKept ==
  ASSUME NEW n, NEW x, EdgeFits(n, x),
         stamp'[n] = stamp[n], stamp'[x] = stamp[x], x \in infected' <=> x \in infected,
         task'[n].phase = task[n].phase, task'[n].ts = task[n].ts,
         task'[n].targets = task[n].targets,
         task'[x].phase = task[x].phase, task'[x].ts = task[x].ts,
         task'[x].found = task[x].found, task'[x].unread = task[x].unread,
         \A w : w.from = n /\ w.to = x => (w \in waves' <=> w \in waves),
         Renewing(n) => Renewing(n)',
         Renewing(n)' \/ (Bad(n)' <=> Bad(n))
  PROVE  EdgeFits(n, x)'
<1>1. Behind(n, x)' /\ NotSent(n, x)' /\ Coming(n, x)'
  BY DEF EdgeFits, Behind, NotSent, Coming, Scanning
<1>2. Agreeing(n, x)'
  BY DEF EdgeFits, Agreeing, Scanning
<1> QED
  BY <1>1, <1>2 DEF EdgeFits

-----------------------------------------------------------------------------
\* A change of the cluster, or a build.
LEMMA TreeQuiet ==
  ASSUME NEW Root, NEW Parent, NEW Level, LinkedAsTrees(Root, Parent, Level),
         TypeOK, TreeFits(Parent, Level),
         \/ UNCHANGED vars
         \/ \E q \in Pods : PodRestarts(q) \/ PodDeleted(q)
         \/ BuildRequested \/ Build
         \/ \E e \in Late : LinkMade(e)
  PROVE  TreeFits(Parent, Level)'
<1>1. UNCHANGED <<task, stamp, blast, infected, waves, alive>>
  BY DEF vars, graph, signals, PodRestarts, PodDeleted, BuildRequested, Build, LinkMade
<1>2. failing' \subseteq failing \cup Pods /\ failing \subseteq failing'
  BY DEF vars, PodRestarts, PodDeleted, BuildRequested, Build, LinkMade
<1>3. ASSUME NEW n PROVE Renewing(n) => Renewing(n)'
  <2>1. CASE asked' = asked /\ unasked \subseteq unasked'
    BY <1>1, <2>1 DEF Renewing, Scanning
  <2>2. CASE Build
    <3>1. n \in Pods => (n \in unasked \/ asked[n] > 0 => n \in unasked' \/ asked'[n] > 0)
      BY <2>2, BuildAsks
    <3> QED
      BY <1>1, <3>1 DEF Renewing, Scanning
  <2> QED
    BY <2>1, <2>2
       DEF vars, pods, signals, PodRestarts, PodDeleted, BuildRequested, LinkMade
<1>4. ASSUME NEW n PROVE Renewing(n)' \/ (Bad(n)' <=> Bad(n))
  <2>1. CASE failing' = failing
    BY <1>1, <2>1 DEF Bad
  <2>2. CASE \E q \in Pods : PodRestarts(q)
    <3>1. PICK q \in Pods : PodRestarts(q)
      BY <2>2
    <3>2. n = q => Renewing(n)'
      BY <1>1, <3>1 DEF PodRestarts, Renewing
    <3>3. n # q => (Bad(n)' <=> Bad(n))
      BY <1>1, <3>1 DEF PodRestarts, Bad
    <3> QED
      BY <3>2, <3>3
  <2> QED
    BY <2>1, <2>2 DEF vars, PodDeleted, BuildRequested, Build, LinkMade
<1>5. \A x \in Objects : NodeFits(x, InTrees(Parent), Level)'
  BY <1>1, <1>2 DEF TreeFits, NodeFits
<1>6. \A w \in waves' : WaveFits(w, InTrees(Parent), Level)'
  BY <1>1 DEF TreeFits, WaveFits
<1>7. \A x \in DOMAIN Parent : EdgeFits(Parent[x], x)'
  BY <1>1, <1>3, <1>4, EdgeKept DEF TreeFits
<1> QED
  BY <1>5, <1>6, <1>7 DEF TreeFits

\* What becomes of a handler that starts while no call fails: its links are made.
LEMMA CleanStart ==
  ASSUME TypeOK, Undisturbed', NEW o \in Objects, NEW ts \in Nat, NEW radius \in Nat,
         NEW op \in {"update", "delete"}, Start(o, ts, radius, op)
  PROVE  /\ \A y \in Objects \ {o} : task'[y] = task[y]
         /\ \/ /\ o \in alive /\ Accepts(o, ts, radius)
               /\ \E R : task'[o] = Scan(o, ts, radius, op, R)
               /\ Linked(o, Rely) = Neighbours(o, Rely)
            \/ /\ ~(o \in alive /\ Accepts(o, ts, radius))
               /\ \/ task'[o] = task[o]
                  \/ task'[o] = Idle
                  \/ op = "delete" /\ o \in alive
<1>1. ~CallFails
  BY DEF Undisturbed, CallFails, TypeOK
<1>2. CASE o \notin alive /\ UNCHANGED <<task, faults>>
  BY <1>2
<1>3. CASE o \in alive /\ Accepts(o, ts, radius) /\ Begin(o, ts, radius, op)
  <2>1. task' = [task EXCEPT ![o] = Scan(o, ts, radius, op, restarted \cap {o})]
    BY <1>1, <1>3 DEF Begin
  <2>2. task'[o] = Scan(o, ts, radius, op, restarted \cap {o})
    BY <2>1 DEF TypeOK
  <2>3. \A y \in Objects \ {o} : task'[y] = task[y]
    BY <2>1 DEF TypeOK
  <2>4. Linked(o, Rely) = Neighbours(o, Rely)
    <3>1. Overlooked(o, Propagate \cup Rely) = {}
      BY <1>3 DEF Begin, Undisturbed
    <3> QED
      BY <3>1 DEF Overlooked, Linked, Neighbours
  <2> QED
    BY <1>3, <2>2, <2>3, <2>4
<1>4. CASE /\ o \in alive
           /\ ~Accepts(o, ts, radius)
           /\ task' = [task EXCEPT ![o] = IF op = "delete" THEN Deleting ELSE Idle]
  BY <1>4 DEF TypeOK
<1> QED
  BY <1>1, <1>2, <1>3, <1>4 DEF Start

\* A handler that starts to scan has read its links and has found nobody.
LEMMA ScanFacts ==
  ASSUME NEW o, NEW ts, NEW radius, NEW op, NEW R
  PROVE  LET t == Scan(o, ts, radius, op, R) IN
         /\ t.phase = "scan" /\ t.ts = ts /\ t.blast = radius /\ t.op = op /\ t.found = {}
         /\ t.unread = Linked(o, Rely) /\ t.targets = Linked(o, Propagate)
  BY DEF Scan

LEMMA IdleFacts ==
  /\ Idle.phase = "idle" /\ Idle.ts = 0 /\ Idle.op = "update" /\ Idle.found = {}
  /\ Idle.unread = {} /\ Idle.targets = {}
  BY DEF Idle

\* The record of an object whose handler starts, or has nothing to do.
LEMMA NodeStarts ==
  ASSUME TypeOK, NEW Here, NEW Level, NEW o \in Objects, NodeFits(o, Here, Level),
         UNCHANGED <<alive, stamp, blast, infected, failing>>,
         NEW ts \in Nat, NEW radius, NEW op, o \notin Pods => op = "update",
         task[o].phase = "idle",
         \/ /\ o \in Here \cap alive /\ stamp[o] < ts /\ radius = Level[o]
            /\ \E R : task'[o] = Scan(o, ts, radius, op, R)
         \/ task'[o] = task[o]
         \/ task'[o] = Idle
  PROVE  NodeFits(o, Here, Level)'
<1>1. CASE task'[o] = task[o]
  BY <1>1 DEF NodeFits
<1>2. CASE task'[o] = Idle
  BY <1>2, IdleFacts DEF NodeFits
<1>3. CASE /\ o \in Here \cap alive /\ stamp[o] < ts /\ radius = Level[o]
           /\ \E R : task'[o] = Scan(o, ts, radius, op, R)
  <2>1. /\ task'[o].phase = "scan" /\ task'[o].ts = ts /\ task'[o].blast = radius
        /\ task'[o].op = op /\ task'[o].found = {}
        /\ task'[o].unread = Linked(o, Rely) /\ task'[o].targets = Linked(o, Propagate)
    BY <1>3, ScanFacts
  <2>2. ts > 0
    BY <1>3 DEF TypeOK
  <2> QED
    BY <1>3, <2>1, <2>2 DEF NodeFits, Linked, Neighbours
<1> QED
  BY <1>1, <1>2, <1>3

\* The edges below an object that starts to handle something: it has nothing to
\* send yet, and a pod that was about to renew its wave still is.
LEMMA EdgeBelowStart ==
  ASSUME TypeOK, NEW n \in Objects, NEW x \in Objects \ {n}, EdgeFits(n, x),
         UNCHANGED <<alive, stamp, infected, failing, unasked>>,
         \A w : w.from = n /\ w.to = x => (w \in waves' <=> w \in waves),
         task'[x] = task[x], task[n].phase = "idle", task'[n].phase # "finish",
         Renewing(n) => Scanning(n)' \/ asked' = asked
  PROVE  EdgeFits(n, x)'
<1>1. Behind(n, x)' /\ NotSent(n, x)' /\ Coming(n, x)'
  BY DEF EdgeFits, Behind, NotSent, Coming, Scanning
<1>2. Bad(n)' <=> Bad(n)
  BY DEF Bad
<1>3. Renewing(n) => Renewing(n)'
  BY DEF Renewing, Scanning
<1>4. Agreeing(n, x)'
  BY <1>2, <1>3 DEF EdgeFits, Agreeing, Scanning
<1> QED
  BY <1>1, <1>4 DEF EdgeFits

\* A pod is asked, or is to be deleted.
LEMMA TreeAsked ==
  ASSUME NEW Root, NEW Parent, NEW Level, LinkedAsTrees(Root, Parent, Level),
         TypeOK, TreeFits(Parent, Level), Undisturbed',
         NEW q \in Pods, HandlePod(q)
  PROVE  TreeFits(Parent, Level)'
<1>1. q \in Objects /\ Level[q] = 0 /\ q \in InTrees(Parent)
  BY TreeFacts DEF InTrees
<1>2. PICK t \in Now(q), op \in {"update", "delete"} : Start(q, t, 0, op)
  BY <1>1 DEF HandlePod, StartAsked, StartDelete
<1>3. t \in Nat /\ t > stamp[q]
  BY <1>1, <1>2, NowIsNat DEF Now
<1>4. /\ UNCHANGED <<alive, stamp, blast, infected, failing, unasked, waves>>
      /\ task[q].phase = "idle"
  BY <1>1 DEF HandlePod, StartAsked, StartDelete, graph, pods
<1>5. Accepts(q, t, 0)
  BY <1>1, <1>3 DEF Accepts, TypeOK
<1>6. /\ \A y \in Objects \ {q} : task'[y] = task[y]
      /\ \/ q \in alive /\ \E R : task'[q] = Scan(q, t, 0, op, R)
         \/ q \notin alive /\ (task'[q] = task[q] \/ task'[q] = Idle)
  BY <1>1, <1>2, <1>3, <1>5, CleanStart
<1>7. NodeFits(q, InTrees(Parent), Level)
  BY <1>1 DEF TreeFits
<1>8. NodeFits(q, InTrees(Parent), Level)'
  <2> HIDE DEF InTrees
  <2> QED
    BY <1>1, <1>3, <1>4, <1>6, <1>7, NodeStarts
<1>9. \A x \in Objects : NodeFits(x, InTrees(Parent), Level)'
  <2> SUFFICES ASSUME NEW x \in Objects, x # q PROVE NodeFits(x, InTrees(Parent), Level)'
    BY <1>8
  <2>1. NodeFits(x, InTrees(Parent), Level) /\ task'[x] = task[x]
    BY <1>6 DEF TreeFits
  <2> QED
    BY <1>4, <2>1 DEF NodeFits
<1>10. \A w \in waves' : WaveFits(w, InTrees(Parent), Level)'
  BY <1>4 DEF TreeFits, WaveFits
<1>11. ASSUME NEW x \in DOMAIN Parent PROVE EdgeFits(Parent[x], x)'
  <2>1. /\ x \in Objects \ Pods /\ Parent[x] \in Objects \ {x} /\ EdgeFits(Parent[x], x)
        /\ x # q /\ task'[x] = task[x]
    BY <1>1, <1>6, TreeFacts DEF TreeFits
  <2>2. CASE Parent[x] = q
    <3>1. task'[q].phase # "finish" /\ (q \in alive => task'[q].phase = "scan")
      BY <1>4, <1>6, ScanFacts, IdleFacts
    <3>2. Renewing(q) => Scanning(q)'
      BY <3>1 DEF Renewing, Scanning
    <3> QED
      BY <1>1, <1>4, <2>1, <2>2, <3>1, <3>2, EdgeBelowStart
  <2>3. CASE Parent[x] # q
    <3>1. task'[Parent[x]] = task[Parent[x]]
      BY <1>1, <1>6, <2>1, <2>3
    <3>2. \A y \in Pods \ {q} : asked'[y] = asked[y]
      BY DEF HandlePod, StartAsked, StartDelete, TypeOK
    <3>3. (Bad(Parent[x])' <=> Bad(Parent[x])) /\ (Renewing(Parent[x])' <=> Renewing(Parent[x]))
      BY <1>4, <2>1, <2>3, <3>1, <3>2 DEF Bad, Renewing, Scanning
    <3> QED
      BY <1>4, <2>1, <3>1, <3>3, EdgeKept
  <2> QED
    BY <2>2, <2>3
<1> QED
  BY <1>9, <1>10, <1>11 DEF TreeFits

\* A wave is handled, or dropped because it is known.
LEMMA TreeWave ==
  ASSUME NEW Root, NEW Parent, NEW Level, LinkedAsTrees(Root, Parent, Level),
         TypeOK, TreeFits(Parent, Level), Undisturbed',
         NEW v \in waves, StartWave(v)
  PROVE  TreeFits(Parent, Level)'
<1> DEFINE o == v.to
<1>1. o \in Objects /\ v.ts \in Nat /\ v.blast \in Nat /\ v.from \in Objects
  BY DEF TypeOK
<1>2. /\ UNCHANGED <<alive, stamp, blast, infected, failing, unasked, asked>>
      /\ waves' = waves \ {v}
      /\ task[o].phase = "idle" /\ Start(o, v.ts, v.blast, "update")
  BY DEF StartWave, graph, pods
<1>3. /\ o \in InTrees(Parent)
      /\ stamp[o] < v.ts => o \in DOMAIN Parent /\ v.from = Parent[o] /\ v.blast = Level[o]
  BY AcceptedFromParent
<1>4. v.ts <= stamp[v.from] /\ v.from # o /\ v.blast = Level[v.from] + 1
  BY DEF TreeFits, WaveFits
<1> HIDE DEF o
<1>5. /\ \A y \in Objects \ {o} : task'[y] = task[y]
      /\ \/ /\ o \in alive /\ Accepts(o, v.ts, v.blast)
            /\ \E R : task'[o] = Scan(o, v.ts, v.blast, "update", R)
            /\ Linked(o, Rely) = Neighbours(o, Rely)
         \/ /\ ~(o \in alive /\ Accepts(o, v.ts, v.blast))
            /\ task'[o] = task[o] \/ task'[o] = Idle
  BY <1>1, <1>2, CleanStart
<1>6. \A x \in Objects : NodeFits(x, InTrees(Parent), Level)'
  <2> SUFFICES ASSUME NEW x \in Objects PROVE NodeFits(x, InTrees(Parent), Level)'
    OBVIOUS
  <2>1. NodeFits(x, InTrees(Parent), Level)
    BY DEF TreeFits
  <2>2. CASE x = o
    <3>1. \/ /\ o \in InTrees(Parent) \cap alive /\ stamp[o] < v.ts /\ v.blast = Level[o]
             /\ \E R : task'[o] = Scan(o, v.ts, v.blast, "update", R)
          \/ task'[o] = task[o]
          \/ task'[o] = Idle
      BY <1>3, <1>5 DEF Accepts
    <3> QED
      BY <1>1, <1>2, <2>1, <2>2, <3>1, NodeStarts
  <2>3. CASE x # o
    BY <1>2, <1>5, <2>1, <2>3 DEF NodeFits
  <2> QED
    BY <2>2, <2>3
<1>7. \A w \in waves' : WaveFits(w, InTrees(Parent), Level)'
  BY <1>2 DEF TreeFits, WaveFits
<1>8. \A n : (Bad(n)' <=> Bad(n)) /\ (n # o => (Renewing(n)' <=> Renewing(n)))
  <2> TAKE n
  <2>1. n \in Pods => n \in Objects
    BY GraphAssumption
  <2> QED
    BY <1>2, <1>5, <2>1 DEF Bad, Renewing, Scanning
<1>9. ASSUME NEW x \in DOMAIN Parent PROVE EdgeFits(Parent[x], x)'
  <2> DEFINE n == Parent[x]
  <2>1. /\ x \in Objects /\ x \notin Pods /\ n \in Objects /\ n # x /\ EdgeFits(n, x)
        /\ Level[x] = Level[n] + 1 /\ <<x, n>> \in Rely /\ Level[x] \in Nat /\ Level[x] < NoBlast
        /\ NodeFits(x, InTrees(Parent), Level) /\ NodeFits(n, InTrees(Parent), Level)
    <3>1. x \in Objects /\ x \notin Pods /\ n \in Objects /\ n # x
      BY TreeFacts
    <3>2. EdgeFits(n, x)
      BY DEF TreeFits
    <3>3. Level[x] = Level[n] + 1 /\ <<x, n>> \in Rely
      BY DEF LinkedAsTrees
    <3>4. Level[x] \in Nat /\ Level[x] < NoBlast
      BY <3>1, TreeFacts
    <3>5. NodeFits(x, InTrees(Parent), Level) /\ NodeFits(n, InTrees(Parent), Level)
      BY <3>1 DEF TreeFits
    <3> QED
      BY <3>1, <3>2, <3>3, <3>4, <3>5
  <2>2. stamp[x] \in Nat /\ stamp[n] \in Nat /\ task[x].ts \in Nat /\ task[n].ts \in Nat
    BY <2>1 DEF TypeOK, Task
  <2> HIDE DEF n
  <2>3. CASE n = o
    <3>1. \A w : w.from = n /\ w.to = x => (w \in waves' <=> w \in waves)
      BY <1>2, <2>1, <2>3 DEF o
    <3>2. task'[x] = task[x] /\ task'[n].phase # "finish"
      BY <1>2, <1>5, <2>1, <2>3, ScanFacts, IdleFacts
    <3> QED
      BY <1>2, <2>1, <2>3, <3>1, <3>2, EdgeBelowStart DEF n
  <2>4. CASE n # o /\ x # o
    <3>1. \A w : w.from = n /\ w.to = x => (w \in waves' <=> w \in waves)
      BY <1>2, <2>4 DEF o
    <3> QED
      BY <1>2, <1>5, <1>8, <2>1, <2>4, <3>1, EdgeKept DEF n
  <2>5. CASE x = o /\ v.from # n
    <3>1. task'[o] = task[o] \/ task'[o] = Idle
      BY <1>3, <1>5, <2>5 DEF Accepts, n
    <3>2. task'[o].phase = "idle" /\ task'[o].ts = 0 /\ task[o].ts = 0
      BY <1>2, <2>1, <2>5, <3>1, IdleFacts DEF NodeFits
    <3>3. task'[n] = task[n] /\ \A w : w.from = n => (w \in waves' <=> w \in waves)
      BY <1>2, <1>5, <2>1, <2>5
    <3>4. Behind(n, x)' /\ NotSent(n, x)' /\ Coming(n, x)'
      BY <1>2, <2>1, <2>5, <3>2, <3>3 DEF EdgeFits, Behind, NotSent, Coming, Scanning
    <3>5. Agreeing(n, x)'
      BY <1>2, <1>8, <2>1, <2>5, <3>2, <3>3 DEF EdgeFits, Agreeing, Scanning
    <3> QED
      BY <3>4, <3>5 DEF EdgeFits, n
  <2>6. CASE x = o /\ v.from = n /\ o \in alive /\ Accepts(o, v.ts, v.blast)
    <3>1. /\ task'[o].phase = "scan" /\ task'[o].ts = v.ts /\ task'[o].found = {}
          /\ task'[o].unread = Neighbours(o, Rely)
      BY <1>5, <2>6, ScanFacts
    <3>2. task'[n] = task[n]
      BY <1>5, <2>1, <2>6
    <3>3. v.ts <= stamp[n] /\ waves' \subseteq waves
          /\ \A w \in waves : w \notin waves' => w = v
      BY <1>2, <1>4, <2>6
    <3>4. Behind(n, x)'
      BY <1>2, <2>1, <2>6, <3>1, <3>3 DEF EdgeFits, Behind
    <3>5. NotSent(n, x)'
      BY <1>2, <2>1, <2>6, <3>1, <3>2, <3>3 DEF EdgeFits, NotSent, o
    <3>6. Coming(n, x)'
      BY <1>2, <2>1, <2>6, <3>1, <3>2, <3>3 DEF EdgeFits, Coming, Scanning
    <3>7. Bad(n) => n \in task'[o].unread
      BY <2>1, <2>6, <3>1 DEF Bad, Neighbours
    <3>8. Agreeing(n, x)'
      BY <1>2, <1>8, <2>1, <2>6, <3>1, <3>7 DEF EdgeFits, Agreeing
    <3> QED
      BY <3>4, <3>5, <3>6, <3>8 DEF EdgeFits, n
  <2>7. CASE x = o /\ v.from = n /\ ~(o \in alive /\ Accepts(o, v.ts, v.blast))
    <3>1. /\ task'[o].phase = "idle" /\ task'[o].ts = 0
      BY <1>2, <1>5, <2>1, <2>7, IdleFacts DEF NodeFits
    <3>2. task'[n] = task[n] /\ waves' \subseteq waves
          /\ \A w \in waves : w \notin waves' => w = v
      BY <1>2, <1>5, <2>1, <2>7
    <3>3. v.ts <= stamp[x]
      <4>1. x \in alive /\ v.blast = Level[x] /\ blast[x] \in {NoBlast, Level[x]}
        BY <1>4, <2>1, <2>7 DEF NodeFits
      <4>2. v.blast <= blast[x]
        BY <2>1, <4>1 DEF NoBlast
      <4> QED
        BY <1>1, <2>2, <2>7, <4>1, <4>2 DEF Accepts
    <3>4. Behind(n, x)' /\ NotSent(n, x)'
      BY <1>2, <2>1, <2>2, <2>7, <3>1, <3>2, <1>3 DEF EdgeFits, Behind, NotSent
    <3>5. Coming(n, x)'
      BY <1>2, <2>1, <2>7, <3>1, <3>2, <3>3 DEF EdgeFits, Coming, Scanning
    <3>6. Agreeing(n, x)'
      BY <1>2, <1>8, <2>1, <2>7, <3>1 DEF EdgeFits, Agreeing, Scanning
    <3> QED
      BY <3>4, <3>5, <3>6 DEF EdgeFits, n
  <2> QED
    BY <2>3, <2>4, <2>5, <2>6, <2>7
<1> QED
  BY <1>6, <1>7, <1>9 DEF TreeFits

\* An object reads a neighbour: it finds nobody but its parent, since those below
\* it carry a greater distance.
LEMMA TreeReads ==
  ASSUME NEW Root, NEW Parent, NEW Level, LinkedAsTrees(Root, Parent, Level),
         TypeOK, TreeFits(Parent, Level),
         NEW o \in Objects, NEW m \in Objects, ReadNeighbour(o, m)
  PROVE  TreeFits(Parent, Level)'
<1>1. /\ UNCHANGED <<alive, stamp, blast, infected, failing, unasked, asked, waves>>
      /\ m \in task[o].unread /\ task[o] \in Task /\ task[o].phase = "scan"
  BY DEF ReadNeighbour, graph, signals, pods, TypeOK
<1>2. NodeFits(o, InTrees(Parent), Level) /\ NodeFits(m, InTrees(Parent), Level)
  BY DEF TreeFits
<1>3. /\ o \in InTrees(Parent) /\ <<o, m>> \in Rely /\ task[o].blast = Level[o]
      /\ Level[o] \in Nat /\ Level[m] \in Nat
  BY <1>1, <1>2, TreeFacts DEF NodeFits
<1>4. Infects(m, task[o].blast) => o \in DOMAIN Parent /\ m = Parent[o]
  <2> SUFFICES ASSUME Infects(m, task[o].blast) PROVE o \in DOMAIN Parent /\ m = Parent[o]
    OBVIOUS
  <2>1. m \in failing \cup infected /\ (IF blast[m] = NoBlast THEN 0 ELSE blast[m]) < Level[o]
    BY <1>3 DEF Infects
  <2>2. m \in InTrees(Parent)
    BY <1>2, <2>1 DEF NodeFits, LinkedAsTrees, InTrees
  <2>3. CASE m \in Pods
    <3>1. ~(Level[o] < Level[m]) /\ o # m
      <4>1. Level[m] = 0 /\ blast[m] \in Nat
        BY <2>3, TreeFacts DEF TypeOK
      <4>2. Level[o] > 0
        BY <1>3, <2>1, <4>1
      <4> QED
        BY <1>3, <4>1, <4>2
    <3>2. <<o, m>> \notin Above(Parent)
      BY <2>3, <3>1, TreeFacts
    <3> QED
      BY <1>3, <2>2, <2>3, <3>1, <3>2 DEF LinkedAsTrees
  <2>4. CASE m \notin Pods
    <3>1. blast[m] = Level[m] /\ Level[m] < NoBlast
      BY <1>2, <2>1, <2>4, TreeFacts DEF NodeFits, LinkedAsTrees
    <3>2. Level[m] < Level[o]
      BY <1>3, <2>1, <3>1
    <3>3. o # m /\ <<o, m>> \notin Above(Parent)
      BY <1>3, <3>2, TreeFacts
    <3> QED
      BY <1>3, <2>2, <3>3 DEF LinkedAsTrees
  <2> QED
    BY <2>3, <2>4
<1>5. /\ \A y \in Objects \ {o} : task'[y] = task[y]
      /\ task'[o].phase = "scan" /\ task'[o].ts = task[o].ts /\ task'[o].blast = task[o].blast
      /\ task'[o].targets = task[o].targets /\ task'[o].op = task[o].op
      /\ task'[o].unread \subseteq task[o].unread
      /\ \/ Infects(m, task[o].blast) /\ task'[o].found = {m}
         \/ /\ ~Infects(m, task[o].blast) /\ task'[o].found = task[o].found
            /\ task'[o].unread = task[o].unread \ {m}
  <2>1. CASE Infects(m, task[o].blast)
    <3>1. task' = [task EXCEPT ![o] = [task[o] EXCEPT !.found = {m}, !.unread = {}]]
      BY <2>1 DEF ReadNeighbour
    <3>2. task'[o] = [task[o] EXCEPT !.found = {m}, !.unread = {}]
          /\ \A y \in Objects \ {o} : task'[y] = task[y]
      BY <3>1 DEF TypeOK
    <3> QED
      BY <1>1, <2>1, <3>2 DEF Task
  <2>2. CASE ~Infects(m, task[o].blast)
    <3>1. task' = [task EXCEPT ![o] = [task[o] EXCEPT !.unread = task[o].unread \ {m}]]
      BY <2>2 DEF ReadNeighbour
    <3>2. task'[o] = [task[o] EXCEPT !.unread = task[o].unread \ {m}]
          /\ \A y \in Objects \ {o} : task'[y] = task[y]
      BY <3>1 DEF TypeOK
    <3> QED
      BY <1>1, <2>2, <3>2 DEF Task
  <2> QED
    BY <2>1, <2>2
<1>6. \A n : (Bad(n)' <=> Bad(n)) /\ (Renewing(n)' <=> Renewing(n))
  <2> TAKE n
  <2>1. n \in Pods => n \in Objects
    BY GraphAssumption
  <2> QED
    BY <1>1, <1>5, <2>1 DEF Bad, Renewing, Scanning
<1>7. \A x \in Objects : NodeFits(x, InTrees(Parent), Level)'
  <2> SUFFICES ASSUME NEW x \in Objects PROVE NodeFits(x, InTrees(Parent), Level)'
    OBVIOUS
  <2>1. NodeFits(x, InTrees(Parent), Level)
    BY DEF TreeFits
  <2>2. CASE x = o
    <3>1. o \in Pods => ~Infects(m, task[o].blast)
      BY <1>4, TreeFacts
    <3> QED
      BY <1>1, <1>5, <2>1, <2>2, <3>1 DEF NodeFits
  <2>3. CASE x # o
    BY <1>1, <1>5, <2>1, <2>3 DEF NodeFits
  <2> QED
    BY <2>2, <2>3
<1>8. \A w \in waves' : WaveFits(w, InTrees(Parent), Level)'
  BY <1>1 DEF TreeFits, WaveFits
<1>9. ASSUME NEW x \in DOMAIN Parent PROVE EdgeFits(Parent[x], x)'
  <2> DEFINE n == Parent[x]
  <2>1. x \in Objects /\ n \in Objects /\ n # x /\ EdgeFits(n, x)
    <3>1. x \in Objects /\ n \in Objects /\ n # x
      BY TreeFacts
    <3> QED
      BY <3>1 DEF TreeFits
  <2>2. x = o => Level[x] = Level[n] + 1 /\ Level[n] \in Nat
    BY <2>1, TreeFacts DEF LinkedAsTrees
  <2> HIDE DEF n
  <2>3. CASE x # o
    <3>1. task'[n].phase = task[n].phase /\ task'[n].ts = task[n].ts
          /\ task'[n].targets = task[n].targets /\ task'[x] = task[x]
      BY <1>1, <1>5, <2>1, <2>3
    <3> QED
      BY <1>1, <1>6, <2>1, <3>1, EdgeKept DEF n
  <2>4. CASE x = o
    <3>1. task'[n] = task[n]
      BY <1>5, <2>1, <2>4
    <3>2. Behind(n, x)' /\ NotSent(n, x)' /\ Coming(n, x)'
      BY <1>1, <1>5, <2>1, <2>4, <3>1 DEF EdgeFits, Behind, NotSent, Coming, Scanning
    <3>3. Infects(m, task[o].blast) => m = n /\ Bad(n)
      BY <1>4, <2>4 DEF n, Infects, Bad
    <3>4. ~Infects(m, task[o].blast) /\ m = n => ~Bad(n)
      <4>1. m = n => blast[m] \in {NoBlast, Level[m]} /\ Level[m] < Level[o] /\ 0 < Level[o]
        BY <1>2, <2>2, <2>4 DEF NodeFits
      <4> QED
        BY <1>3, <4>1 DEF Infects, Bad
    <3>5. Agreeing(n, x)'
      <4>1. CASE Renewing(n)
        BY <1>6, <4>1 DEF Agreeing
      <4>2. CASE ~Renewing(n)
        <5>1. /\ stamp[x] = stamp[n] => (x \in infected <=> Bad(n))
              /\ task[x].ts = stamp[n] =>
                   /\ task[x].found # {} => Bad(n)
                   /\ Bad(n) => task[x].found # {} \/ n \in task[x].unread
          BY <1>1, <2>1, <2>4, <4>2 DEF EdgeFits, Agreeing, Scanning
        <5>2. /\ task'[x].ts = stamp[n] /\ task'[x].found # {} => Bad(n)
              /\ task'[x].ts = stamp[n] /\ Bad(n) => task'[x].found # {} \/ n \in task'[x].unread
          BY <1>5, <2>4, <3>3, <3>4, <5>1
        <5> QED
          BY <1>1, <1>6, <5>1, <5>2 DEF Agreeing
      <4> QED
        BY <4>1, <4>2
    <3> QED
      BY <3>2, <3>5 DEF EdgeFits, n
  <2> QED
    BY <2>3, <2>4
<1> QED
  BY <1>7, <1>8, <1>9 DEF TreeFits

\* An object writes its result: it says what its parent says, if it has written
\* its parent's last wave, and has yet to tell those below it.
LEMMA TreeWrite ==
  ASSUME NEW Root, NEW Parent, NEW Level, LinkedAsTrees(Root, Parent, Level),
         TypeOK, ChecksHold, OwnRestarts, TreeFits(Parent, Level), Undisturbed',
         \A x \in Objects : lost[x] = 0,
         NEW o \in Objects, WriteError(o)
  PROVE  TreeFits(Parent, Level)'
<1>1. /\ UNCHANGED <<alive, unasked, asked, waves>>
      /\ task[o].phase = "scan" /\ task[o].unread = {}
  BY DEF WriteError, signals, pods
<1>2. NodeFits(o, InTrees(Parent), Level)
  BY DEF TreeFits
<1>3. /\ o \in InTrees(Parent) \cap alive /\ task[o].ts > 0 /\ task[o].blast = Level[o]
      /\ Level[o] \in Nat /\ Level[o] < NoBlast /\ task[o].ts \in Nat
  BY <1>1, <1>2, TreeFacts DEF NodeFits, TypeOK, Task
<1>4. /\ stamp[o] < task[o].ts
      /\ \A x \in alive : <<o, x>> \in Propagate => x \in task[o].targets
  <2>1. Neighbours(o, Propagate) \subseteq Objects
    BY DEF Neighbours, TypeOK
  <2> QED
    BY <1>1, <1>3, <2>1 DEF ChecksHold, Scanning, Neighbours
<1>5. ~CallFails
  BY DEF Undisturbed, CallFails, TypeOK
<1>6. /\ task' = [task EXCEPT ![o] = [task[o] EXCEPT !.phase = "finish"]]
      /\ stamp' = [stamp EXCEPT ![o] = task[o].ts]
      /\ blast' = [blast EXCEPT ![o] = task[o].blast]
      /\ failing' = (failing \ {o}) \cup task[o].restarts
      /\ infected' = IF task[o].found = {} THEN infected \ {o} ELSE infected \cup {o}
  BY <1>1, <1>3, <1>5 DEF WriteError
<1>7. /\ \A x \in Objects \ {o} : /\ task'[x] = task[x] /\ stamp'[x] = stamp[x]
                                   /\ blast'[x] = blast[x]
      /\ stamp'[o] = task[o].ts /\ blast'[o] = task[o].blast
      /\ task'[o] = [task[o] EXCEPT !.phase = "finish"]
  BY <1>6 DEF TypeOK
<1>8. /\ task'[o].phase = "finish" /\ task'[o].ts = task[o].ts
      /\ task'[o].blast = task[o].blast /\ task'[o].targets = task[o].targets
      /\ task'[o].op = task[o].op /\ task'[o].found = task[o].found
      /\ task'[o].unread = {}
  BY <1>1, <1>7 DEF TypeOK, Task
<1>9. task[o].restarts \subseteq {o} \cap Pods
  BY DEF OwnRestarts, TypeOK, Task
<1>10. \A x \in Objects : NodeFits(x, InTrees(Parent), Level)'
  <2> SUFFICES ASSUME NEW x \in Objects PROVE NodeFits(x, InTrees(Parent), Level)'
    OBVIOUS
  <2>1. NodeFits(x, InTrees(Parent), Level)
    BY DEF TreeFits
  <2>2. CASE x = o
    <3>1. blast'[x] = IF stamp'[x] = 0 THEN NoBlast ELSE Level[x]
      BY <1>3, <1>7, <2>2
    <3>2. /\ x \in infected' => stamp'[x] > 0 /\ x \notin Pods
          /\ x \in failing' => x \in Pods
      BY <1>3, <1>6, <1>7, <1>9, <2>1, <2>2 DEF NodeFits
    <3> QED
      BY <1>1, <1>3, <1>7, <1>8, <2>1, <2>2, <3>1, <3>2 DEF NodeFits
  <2>3. CASE x # o
    BY <1>1, <1>6, <1>7, <1>9, <2>1, <2>3 DEF NodeFits
  <2> QED
    BY <2>2, <2>3
<1>11. \A w \in waves' : WaveFits(w, InTrees(Parent), Level)'
  <2> SUFFICES ASSUME NEW w \in waves PROVE WaveFits(w, InTrees(Parent), Level)'
    BY <1>1
  <2>1. WaveFits(w, InTrees(Parent), Level) /\ w.from \in Objects /\ w.ts \in Nat
    BY DEF TreeFits, TypeOK
  <2>2. stamp[w.from] <= stamp'[w.from] /\ stamp[w.from] \in Nat /\ stamp'[w.from] \in Nat
    BY <1>3, <1>4, <1>7, <2>1 DEF TypeOK
  <2> QED
    BY <2>1, <2>2 DEF WaveFits
<1>12. ASSUME NEW x \in DOMAIN Parent PROVE EdgeFits(Parent[x], x)'
  <2> DEFINE n == Parent[x]
  <2>1. /\ x \in Objects \ Pods /\ n \in Objects /\ n # x /\ EdgeFits(n, x)
        /\ x \in alive /\ <<n, x>> \in Propagate
    <3>1. x \in Objects \ Pods /\ n \in Objects /\ n # x
      BY TreeFacts
    <3>2. EdgeFits(n, x) /\ NodeFits(x, InTrees(Parent), Level)
      BY <3>1 DEF TreeFits
    <3>3. <<n, x>> \in Propagate
      BY DEF LinkedAsTrees
    <3> QED
      BY <3>1, <3>2, <3>3 DEF NodeFits
  <2>2. stamp[x] \in Nat /\ stamp[n] \in Nat /\ task[x].ts \in Nat /\ task[n].ts \in Nat
    BY <2>1 DEF TypeOK, Task
  <2> HIDE DEF n
  <2>3. CASE n # o /\ x # o
    <3>1. task'[n] = task[n] /\ task'[x] = task[x] /\ stamp'[n] = stamp[n] /\ stamp'[x] = stamp[x]
      BY <1>7, <2>1, <2>3
    <3>2. (x \in infected' <=> x \in infected) /\ (Bad(n)' <=> Bad(n))
      BY <1>1, <1>6, <1>9, <2>3 DEF Bad
    <3>3. Renewing(n)' <=> Renewing(n)
      BY <1>1, <3>1 DEF Renewing, Scanning
    <3> QED
      BY <1>1, <2>1, <3>1, <3>2, <3>3, EdgeKept DEF n
  <2>4. CASE x = o
    <3>1. task'[n] = task[n] /\ stamp'[n] = stamp[n]
      BY <1>7, <2>1, <2>4
    <3>2. task[x].ts <= stamp[n]
      BY <2>1 DEF EdgeFits, Behind
    <3>3. Behind(n, x)'
      BY <1>7, <1>8, <2>4, <3>1, <3>2 DEF Behind
    <3>4. NotSent(n, x)'
      BY <1>1, <1>7, <1>8, <2>1, <2>4, <3>1 DEF EdgeFits, NotSent
    <3>5. Coming(n, x)'
      BY <1>1, <1>4, <1>7, <2>1, <2>2, <2>4, <3>1 DEF EdgeFits, Coming
    <3>6. (Bad(n)' <=> Bad(n)) /\ (Renewing(n)' <=> Renewing(n))
      BY <1>1, <1>6, <1>9, <2>1, <2>4, <3>1 DEF Bad, Renewing, Scanning
    <3>7. Agreeing(n, x)'
      <4>1. CASE Renewing(n)
        BY <3>6, <4>1 DEF Agreeing
      <4>2. CASE ~Renewing(n)
        <5>1. task[x].ts = stamp[n] => (task[x].found # {} <=> Bad(n))
          BY <1>1, <2>1, <2>4, <4>2 DEF EdgeFits, Agreeing, Scanning
        <5>2. x \in infected' <=> task[x].found # {}
          BY <1>6, <2>4
        <5>3. stamp'[x] = task[x].ts /\ ~Scanning(x)'
          BY <1>7, <1>8, <2>4 DEF Scanning
        <5> QED
          BY <3>1, <3>6, <5>1, <5>2, <5>3 DEF Agreeing
      <4> QED
        BY <4>1, <4>2
    <3> QED
      BY <3>3, <3>4, <3>5, <3>7 DEF EdgeFits, n
  <2>5. CASE n = o
    <3>1. /\ task'[x] = task[x] /\ stamp'[x] = stamp[x] /\ stamp'[n] = task[n].ts
          /\ task'[n].phase = "finish" /\ task'[n].ts = task[n].ts
          /\ task'[n].targets = task[n].targets
      BY <1>7, <1>8, <2>1, <2>5
    <3>2. stamp[x] <= stamp[n] /\ task[x].ts <= stamp[n] /\ stamp[n] < task[n].ts
      BY <1>4, <2>1, <2>5 DEF EdgeFits, Behind
    <3>3. Behind(n, x)'
      BY <2>2, <3>1, <3>2 DEF Behind
    <3>4. ASSUME NEW w \in waves, w.from = n PROVE w.ts < task[n].ts
      <4>1. w.ts <= stamp[n] /\ w.ts \in Nat
        BY <3>4 DEF TreeFits, WaveFits, TypeOK
      <4> QED
        BY <2>2, <3>2, <4>1
    <3>5. NotSent(n, x)'
      BY <1>1, <2>2, <3>1, <3>2, <3>4 DEF NotSent
    <3>6. Coming(n, x)'
      BY <1>4, <2>1, <2>5, <3>1 DEF Coming
    <3>7. stamp'[x] # stamp'[n] /\ task'[x].ts # stamp'[n]
      BY <2>2, <3>1, <3>2
    <3>8. Agreeing(n, x)'
      BY <3>7 DEF Agreeing
    <3> QED
      BY <3>3, <3>5, <3>6, <3>8 DEF EdgeFits, n
  <2> QED
    BY <2>3, <2>4, <2>5
<1> QED
  BY <1>10, <1>11, <1>12 DEF TreeFits

\* An object signals those it propagates to; it knows everything that others
\* may tell it of this wave.  A pod that is deleted has told nobody yet.
LEMMA TreeFinish ==
  ASSUME NEW Root, NEW Parent, NEW Level, LinkedAsTrees(Root, Parent, Level),
         TypeOK, TreeFits(Parent, Level), Undisturbed',
         NEW o \in Objects, Finish(o)
  PROVE  TreeFits(Parent, Level)'
<1>1. ~CallFails
  BY DEF Undisturbed, CallFails, TypeOK
<1>2. /\ UNCHANGED <<stamp, blast, infected, failing, unasked, asked>>
      /\ alive' = alive \ Condemned(o) /\ waves' = waves \cup Sent(o)
      /\ task[o].phase = "finish" /\ task' = [task EXCEPT ![o] = Idle]
  BY <1>1 DEF Finish, graph, pods
<1>3. /\ \A y \in Objects \ {o} : task'[y] = task[y]
      /\ task'[o] = Idle
  BY <1>2 DEF TypeOK
<1>4. NodeFits(o, InTrees(Parent), Level)
  BY DEF TreeFits
<1>5. /\ o \in InTrees(Parent) /\ task[o].blast = Level[o] /\ task[o].ts = stamp[o]
      /\ \A y \in task[o].targets : <<o, y>> \in Propagate
      /\ o \notin Pods => alive' = alive
      /\ Condemned(o) \subseteq {o}
  BY <1>2, <1>4 DEF NodeFits, Condemned
<1>6. \A w : w \in Sent(o) <=> \E y \in task[o].targets \ {o} :
                 w = [from |-> o, to |-> y, ts |-> stamp[o], blast |-> Level[o] + 1]
  BY <1>5 DEF Sent
<1>7. \A x \in Objects : NodeFits(x, InTrees(Parent), Level)'
  <2> SUFFICES ASSUME NEW x \in Objects PROVE NodeFits(x, InTrees(Parent), Level)'
    OBVIOUS
  <2>1. NodeFits(x, InTrees(Parent), Level)
    BY DEF TreeFits
  <2>2. CASE x = o
    BY <1>2, <1>3, <1>5, <2>1, <2>2, IdleFacts DEF NodeFits
  <2>3. CASE x # o
    <3>1. task'[x] = task[x] /\ (x \in alive' <=> x \in alive)
      BY <1>2, <1>3, <1>5, <2>3
    <3> QED
      BY <1>2, <2>1, <3>1 DEF NodeFits
  <2> QED
    BY <2>2, <2>3
<1>8. \A w \in waves' : WaveFits(w, InTrees(Parent), Level)'
  <2> SUFFICES ASSUME NEW w \in waves' PROVE WaveFits(w, InTrees(Parent), Level)
    BY <1>2 DEF WaveFits
  <2>1. CASE w \in waves
    BY <2>1 DEF TreeFits
  <2>2. CASE w \in Sent(o)
    <3>1. PICK y \in task[o].targets \ {o} :
            w = [from |-> o, to |-> y, ts |-> stamp[o], blast |-> Level[o] + 1]
      BY <1>6, <2>2
    <3>2. stamp[o] \in Nat
      BY DEF TypeOK
    <3> QED
      BY <1>5, <3>1, <3>2 DEF WaveFits
  <2> QED
    BY <1>2, <2>1, <2>2
<1>9. ASSUME NEW x \in DOMAIN Parent PROVE EdgeFits(Parent[x], x)'
  <2> DEFINE n == Parent[x]
  <2>1. x \in Objects \ Pods /\ n \in Objects /\ n # x /\ EdgeFits(n, x)
    <3>1. x \in Objects \ Pods /\ n \in Objects /\ n # x
      BY TreeFacts
    <3> QED
      BY <3>1 DEF TreeFits
  <2>2. stamp[x] \in Nat /\ stamp[n] \in Nat /\ task[x].ts \in Nat /\ task[n].ts \in Nat
    BY <2>1 DEF TypeOK, Task
  <2> HIDE DEF n
  <2>3. n # o => \A w : w.from = n /\ w.to = x => (w \in waves' <=> w \in waves)
    BY <1>2, <1>6
  <2>4. n # o => task'[n] = task[n] /\ (n \in alive' <=> n \in alive)
    BY <1>2, <1>3, <1>5, <2>1
  <2>5. n # o => (Bad(n)' <=> Bad(n)) /\ (Renewing(n)' <=> Renewing(n))
    BY <1>2, <2>4 DEF Bad, Renewing, Scanning
  <2>6. CASE n # o /\ x # o
    <3>1. task'[x] = task[x]
      BY <1>3, <2>1, <2>6
    <3> QED
      BY <1>2, <2>1, <2>3, <2>4, <2>5, <2>6, <3>1, EdgeKept DEF n
  <2>7. CASE x = o
    <3>1. n # o /\ task'[x].ts = 0 /\ ~Scanning(x)' /\ ~Scanning(x)
      BY <1>2, <1>3, <2>1, <2>7, IdleFacts DEF Scanning
    <3>2. Behind(n, x)'
      BY <1>2, <2>1, <2>2, <2>7, <3>1 DEF EdgeFits, Behind
    <3>3. NotSent(n, x)'
      BY <1>2, <2>1, <2>2, <2>3, <2>4, <3>1 DEF EdgeFits, NotSent
    <3>4. Coming(n, x)'
      BY <1>2, <2>1, <2>4, <3>1 DEF EdgeFits, Coming
    <3>5. Agreeing(n, x)'
      BY <1>2, <2>1, <2>5, <3>1 DEF EdgeFits, Agreeing
    <3> QED
      BY <3>2, <3>3, <3>4, <3>5 DEF EdgeFits, n
  <2>8. CASE n = o
    <3>1. /\ task'[x] = task[x] /\ task'[n].phase = "idle" /\ ~Scanning(n) /\ ~Scanning(n)'
          /\ Scanning(x)' <=> Scanning(x)
      BY <1>2, <1>3, <2>1, <2>8, IdleFacts DEF Scanning
    <3>2. Behind(n, x)'
      BY <1>2, <2>1, <3>1 DEF EdgeFits, Behind
    <3>3. NotSent(n, x)'
      BY <3>1 DEF NotSent
    <3>4. Coming(n, x)'
      <4>1. CASE x \in task[n].targets
        <5> DEFINE w == [from |-> n, to |-> x, ts |-> stamp[n], blast |-> Level[n] + 1]
        <5>1. w \in waves' /\ w.from = n /\ w.to = x /\ w.ts = stamp[n]
          BY <1>2, <1>6, <2>1, <2>8, <4>1
        <5> HIDE DEF w
        <5> QED
          BY <1>2, <5>1 DEF Coming
      <4>2. CASE x \notin task[n].targets
        BY <1>2, <2>1, <3>1, <4>2 DEF EdgeFits, Coming
      <4> QED
        BY <4>1, <4>2
    <3>5. stamp'[x] # stamp'[n] /\ task'[x].ts # stamp'[n]
      BY <1>2, <1>5, <2>1, <2>2, <2>8, <3>1 DEF EdgeFits, NotSent
    <3>6. Agreeing(n, x)'
      BY <3>5 DEF Agreeing
    <3> QED
      BY <3>2, <3>3, <3>4, <3>6 DEF EdgeFits, n
  <2> QED
    BY <2>6, <2>7, <2>8
<1> QED
  BY <1>7, <1>8, <1>9 DEF TreeFits

\* As long as the handlers are undisturbed, nothing was kept from an object and
\* no result lacks anything.
NoFaults == Undisturbed => blind = {} /\ \A o \in Objects : lost[o] = 0

\* What has disturbed the handlers is not forgotten.
LEMMA StillUndisturbed == TypeOK /\ [Next]_vars /\ Undisturbed' => Undisturbed
<1> SUFFICES ASSUME TypeOK, [Next]_vars, Undisturbed' PROVE Undisturbed
  OBVIOUS
<1>1. failures' = failures \/ CallFails
  <2>1. \A o \in Objects : \A ts, radius, op :
          Start(o, ts, radius, op) => failures' = failures \/ CallFails
    BY DEF Start, Begin, faults
  <2>2. \A q \in Pods : HandlePod(q) => failures' = failures \/ CallFails
    BY <2>1, GraphAssumption DEF HandlePod, StartAsked, StartDelete
  <2>3. \A w \in waves : StartWave(w) => failures' = failures \/ CallFails
    BY <2>1 DEF StartWave, TypeOK
  <2>4. \A o \in Objects : Handle(o) => failures' = failures \/ CallFails
    BY <2>3 DEF Handle, ReadNeighbour, ReadFails, WriteError, Finish, faults
  <2> QED
    BY <2>2, <2>4 DEF Next, vars, faults, PodRestarts, PodDeleted, ObjectRemoved,
       BuildRequested, Build, LinkMade
<1>2. early => early'
  <2>1. \A o \in Objects : \A ts, radius, op : Start(o, ts, radius, op) => (early => early')
    <3> SUFFICES ASSUME NEW o \in Objects, NEW ts, NEW radius, NEW op, Start(o, ts, radius, op)
                 PROVE  early => early'
      OBVIOUS
    <3>1. \/ UNCHANGED early
          \/ early' = (early \/ Overlooked(o, Propagate \cup Rely) # {})
      BY DEF Start, Begin, faults
    <3> QED
      BY <3>1
  <2>2. \A q \in Pods : HandlePod(q) => (early => early')
    BY <2>1, GraphAssumption DEF HandlePod, StartAsked, StartDelete
  <2>3. \A w \in waves : StartWave(w) => (early => early')
    BY <2>1 DEF StartWave, TypeOK
  <2>4. ASSUME NEW o \in Objects, Handle(o) PROVE early => early'
    <3>1. (\E w \in waves : StartWave(w)) \/ UNCHANGED early
      BY <2>4 DEF Handle, ReadNeighbour, ReadFails, WriteError, Finish, faults
    <3> QED
      BY <2>3, <3>1
  <2>5. \/ \E q \in Pods : HandlePod(q)
        \/ \E o \in Objects : Handle(o)
        \/ UNCHANGED early
    BY DEF Next, vars, faults, PodRestarts, PodDeleted, ObjectRemoved,
       BuildRequested, Build, LinkMade
  <2> QED
    BY <2>2, <2>4, <2>5
<1> QED
  BY <1>1, <1>2 DEF Undisturbed, CallFails, TypeOK

\* A pod that no controller owns starts no wave before it is deleted.
BareSilent ==
  \A p \in bare \cap alive :
    /\ asked[p] = 0
    /\ task[p].phase # "idle" => task[p].op = "delete"
    /\ stamp[p] > 0 => task[p].phase = "finish"

\* A pod whose handler and stamp are as they were, and that is not asked, stays so.
LEMMA BareStays ==
  ASSUME BareSilent, bare' = bare, alive' \subseteq alive,
         \A p \in bare \cap alive' :
           /\ asked'[p] = asked[p] /\ stamp'[p] = stamp[p]
           /\ task'[p].phase = task[p].phase /\ task'[p].op = task[p].op
  PROVE  BareSilent'
  BY DEF BareSilent

LEMMA BareNext ==
  ASSUME NEW Root, NEW Parent, NEW Level, LinkedAsTrees(Root, Parent, Level),
         TypeOK, TreeFits(Parent, Level), BareSilent, [Next]_vars, Undisturbed'
  PROVE  BareSilent'
<1>1. ~CallFails /\ Pods \subseteq Objects
  BY GraphAssumption DEF Undisturbed, CallFails, TypeOK
<1>2. CASE UNCHANGED vars \/ \E e \in Late : LinkMade(e)
  BY <1>2, BareStays DEF vars, graph, signals, pods, LinkMade
<1>3. ASSUME NEW p \in Pods, PodRestarts(p) \/ PodDeleted(p) PROVE BareSilent'
  BY <1>3, BareStays DEF PodRestarts, PodDeleted, graph, signals
<1>4. CASE (\E o \in Removable : ObjectRemoved(o)) \/ BuildRequested
  BY <1>4, BareStays DEF ObjectRemoved, BuildRequested, graph, signals
<1>5. CASE Build
  <2>1. Ask(alive \cap (Pods \ bare))
    BY <1>1, <1>5 DEF Build
  <2>2. \A p \in bare \cap alive : asked'[p] = asked[p]
    BY <2>1 DEF Ask, TypeOK
  <2>3. UNCHANGED <<alive, bare, stamp, task>>
    BY <1>5 DEF Build, graph
  <2> QED
    BY <2>2, <2>3, BareStays
<1>6. ASSUME NEW q \in Pods, StartAsked(q) PROVE BareSilent'
  <2>1. q \notin bare \cap alive
    BY <1>6 DEF StartAsked, BareSilent
  <2>2. PICK t \in Now(q) : Start(q, t, 0, "update")
    BY <1>6 DEF StartAsked
  <2>3. \A y \in Objects \ {q} : task'[y] = task[y]
    BY <1>1, <2>2, NowIsNat, CleanStart
  <2>4. \A y \in Pods \ {q} : asked'[y] = asked[y]
    BY <1>6 DEF StartAsked, TypeOK
  <2>5. UNCHANGED <<alive, bare, stamp>>
    BY <1>6 DEF StartAsked, graph, pods
  <2> QED
    BY <1>1, <2>1, <2>3, <2>4, <2>5 DEF BareSilent, TypeOK
<1>7. ASSUME NEW q \in Pods, StartDelete(q) PROVE BareSilent'
  <2>1. PICK t \in Now(q) : Start(q, t, 0, "delete")
    BY <1>7 DEF StartDelete
  <2>2. Accepts(q, t, 0) /\ t \in Nat /\ q \in Objects
    BY <2>1, OwnWaveAccepted, NowIsNat
  <2>3. /\ \A y \in Objects \ {q} : task'[y] = task[y]
        /\ q \in alive => \E R : task'[q] = Scan(q, t, 0, "delete", R)
    BY <2>1, <2>2, CleanStart
  <2>4. q \in alive => task'[q].op = "delete"
    BY <2>3, ScanFacts
  <2>5. UNCHANGED <<alive, bare, stamp, asked>> /\ task[q].phase = "idle"
    BY <1>7 DEF StartDelete, graph, pods
  <2> QED
    BY <1>1, <2>3, <2>4, <2>5 DEF BareSilent, TypeOK
<1>8. ASSUME NEW w \in waves, StartWave(w) PROVE BareSilent'
  <2>1. w.to \in Objects /\ w.ts \in Nat /\ w.blast \in Nat
    BY DEF TypeOK
  <2>2. Start(w.to, w.ts, w.blast, "update") /\ task[w.to].phase = "idle"
    BY <1>8 DEF StartWave
  <2>3. w.to \in Pods => ~Accepts(w.to, w.ts, w.blast)
    BY AcceptedFromParent, TreeFacts DEF Accepts
  <2>4. /\ \A y \in Objects \ {w.to} : task'[y] = task[y]
        /\ w.to \in Pods => task'[w.to] = task[w.to] \/ task'[w.to] = Idle
    BY <2>1, <2>2, <2>3, CleanStart
  <2>5. UNCHANGED <<alive, bare, stamp, asked>>
    BY <1>8 DEF StartWave, graph, pods
  <2> QED
    BY <1>1, <2>2, <2>4, <2>5, IdleFacts DEF BareSilent, TypeOK
<1>9. ASSUME NEW o \in Objects, NEW n \in Objects, ReadNeighbour(o, n) PROVE BareSilent'
  <2>1. \A x \in Objects : task'[x].phase = task[x].phase /\ task'[x].op = task[x].op
    <3>1. \/ task' = [task EXCEPT ![o] = [task[o] EXCEPT !.found = {n}, !.unread = {}]]
          \/ task' = [task EXCEPT ![o] = [task[o] EXCEPT !.unread = task[o].unread \ {n}]]
      BY <1>9 DEF ReadNeighbour, TypeOK
    <3>2. /\ \A x \in Objects \ {o} : task'[x] = task[x]
          /\ \/ task'[o] = [task[o] EXCEPT !.found = {n}, !.unread = {}]
             \/ task'[o] = [task[o] EXCEPT !.unread = task[o].unread \ {n}]
      BY <3>1 DEF TypeOK
    <3>3. task[o] \in Task
      BY DEF TypeOK
    <3>4. task'[o].phase = task[o].phase /\ task'[o].op = task[o].op
      BY <3>2, <3>3 DEF Task
    <3> QED
      BY <3>2, <3>4
  <2>2. UNCHANGED <<alive, bare, stamp, asked>> /\ bare \subseteq Objects
    BY <1>1, <1>9 DEF ReadNeighbour, graph, signals, pods, TypeOK
  <2> QED
    BY <2>1, <2>2, BareStays
<1>10. ASSUME NEW o \in Objects, WriteError(o) PROVE BareSilent'
  <2>1. /\ \A x \in Objects \ {o} : task'[x] = task[x] /\ stamp'[x] = stamp[x]
        /\ task[o].phase = "scan" /\ task'[o].phase = "finish" /\ task'[o].op = task[o].op
    <3>1. task' = [task EXCEPT ![o] = [task[o] EXCEPT !.phase = "finish"]] /\ task[o] \in Task
      BY <1>10 DEF WriteError, TypeOK
    <3>2. task'[o].phase = "finish" /\ task'[o].op = task[o].op
      BY <3>1 DEF TypeOK, Task
    <3>3. \A x \in Objects \ {o} : task'[x] = task[x] /\ stamp'[x] = stamp[x]
      BY <1>10 DEF WriteError, TypeOK, graph
    <3> QED
      BY <1>10, <3>2, <3>3 DEF WriteError
  <2>2. UNCHANGED <<alive, bare, asked>>
    BY <1>10 DEF WriteError, signals, pods
  <2> QED
    BY <1>1, <2>1, <2>2 DEF BareSilent, TypeOK
<1>11. ASSUME NEW o \in Objects, Finish(o) PROVE BareSilent'
  <2>1. /\ alive' = alive \ Condemned(o) /\ task[o].phase = "finish"
        /\ task' = [task EXCEPT ![o] = Idle]
        /\ UNCHANGED <<bare, asked, stamp>>
    BY <1>1, <1>11 DEF Finish, graph, pods
  <2>2. o \notin bare \cap alive'
    BY <2>1 DEF BareSilent, Condemned
  <2>3. \A x \in Objects \ {o} : task'[x] = task[x]
    BY <2>1 DEF TypeOK
  <2> QED
    BY <1>1, <2>1, <2>2, <2>3 DEF BareSilent, TypeOK
<1> QED
  <2>1. ASSUME NEW o \in Objects, Handle(o) PROVE BareSilent'
    <3>1. ~ReadFails(o)
      BY <1>1 DEF ReadFails
    <3> QED
      BY <1>8, <1>9, <1>10, <1>11, <2>1, <3>1 DEF Handle
  <2> QED
    BY <1>2, <1>3, <1>4, <1>5, <1>6, <1>7, <2>1 DEF Next, HandlePod

\* Every step, until a call fails or a handler starts before its links are made.
LEMMA TreeNext ==
  ASSUME NEW Root, NEW Parent, NEW Level, LinkedAsTrees(Root, Parent, Level),
         PodsInv, NoFaults, Undisturbed => TreeFits(Parent, Level), [Next]_vars, Undisturbed'
  PROVE  TreeFits(Parent, Level)'
<1>1. TypeOK /\ ChecksHold /\ OwnRestarts
  BY DEF PodsInv, PropagationInv
<1>2. Undisturbed /\ \A o \in Objects : lost[o] = 0
  BY <1>1, StillUndisturbed DEF NoFaults
<1>3. TreeFits(Parent, Level) /\ Removable = {}
  BY <1>2 DEF LinkedAsTrees
<1>4. ASSUME NEW o \in Objects, Handle(o) PROVE TreeFits(Parent, Level)'
  <2>1. CASE \E w \in waves : StartWave(w)
    BY <1>1, <1>3, <2>1, TreeWave
  <2>2. CASE \E n \in Objects : ReadNeighbour(o, n)
    BY <1>1, <1>3, <2>2, TreeReads
  <2>3. ~ReadFails(o)
    BY <1>1 DEF Undisturbed, ReadFails, CallFails, TypeOK
  <2>4. CASE WriteError(o)
    BY <1>1, <1>2, <1>3, <2>4, TreeWrite
  <2>5. CASE Finish(o)
    BY <1>1, <1>3, <2>5, TreeFinish
  <2> QED
    BY <1>4, <2>1, <2>2, <2>3, <2>4, <2>5 DEF Handle
<1>5. ASSUME NEW q \in Pods, HandlePod(q) PROVE TreeFits(Parent, Level)'
  BY <1>1, <1>3, <1>5, TreeAsked
<1> QED
  BY <1>1, <1>3, <1>4, <1>5, TreeQuiet DEF Next

LEMMA TreeInit ==
  ASSUME NEW Root, NEW Parent, NEW Level, LinkedAsTrees(Root, Parent, Level), Init
  PROVE  TreeFits(Parent, Level)
<1>1. \A x \in Objects : task[x] = Idle /\ stamp[x] = 0 /\ blast[x] = NoBlast
  BY DEF Init
<1>2. \A x \in Objects : NodeFits(x, InTrees(Parent), Level)
  <2> SUFFICES ASSUME NEW x \in Objects PROVE NodeFits(x, InTrees(Parent), Level)
    OBVIOUS
  <2>1. infected = {} /\ failing \subseteq Pods /\ alive = Objects
    BY DEF Init
  <2> QED
    BY <1>1, <2>1, IdleFacts DEF NodeFits
<1>3. \A x \in DOMAIN Parent : EdgeFits(Parent[x], x)
  <2> SUFFICES ASSUME NEW x \in DOMAIN Parent PROVE EdgeFits(Parent[x], x)
    OBVIOUS
  <2>1. x \in Objects /\ Parent[x] \in Objects
    BY TreeFacts
  <2>2. Parent[x] \notin Pods => ~Bad(Parent[x])
    BY DEF Init, Bad
  <2>3. Parent[x] \in Pods => Renewing(Parent[x]) \/ ~Bad(Parent[x])
    BY <2>1 DEF Init, Renewing, Bad
  <2>4. x \notin infected
    BY DEF Init
  <2>5. Agreeing(Parent[x], x)
    BY <1>1, <2>1, <2>2, <2>3, <2>4, IdleFacts DEF Agreeing, Scanning
  <2> QED
    BY <1>1, <2>1, <2>5, IdleFacts DEF EdgeFits, Behind, NotSent, Coming
<1> QED
  BY <1>2, <1>3 DEF Init, TreeFits

LEMMA NoFaultsNext == TypeOK /\ NoFaults /\ [Next]_vars => NoFaults'
<1> SUFFICES ASSUME TypeOK, NoFaults, [Next]_vars, Undisturbed'
             PROVE  blind' = {} /\ \A o \in Objects : lost'[o] = 0
  BY DEF NoFaults
<1>1. ~CallFails
  BY DEF Undisturbed, CallFails, TypeOK
<1>2. blind' \subseteq blind /\ lost' = lost
  <2> DEFINE Clean == blind' \subseteq blind /\ lost' = lost
  <2>1. \A o \in Objects : \A ts, radius, op : Start(o, ts, radius, op) => Clean
    <3> SUFFICES ASSUME NEW o \in Objects, NEW ts, NEW radius, NEW op, Start(o, ts, radius, op)
                 PROVE  Clean
      OBVIOUS
    <3>1. CASE Begin(o, ts, radius, op)
      <4>1. Overlooked(o, Propagate) = {} /\ Overlooked(o, Rely) = {}
        BY <3>1 DEF Begin, Undisturbed, Overlooked, Neighbours
      <4>2. lost' = lost
        BY <3>1, <4>1 DEF Begin, Misses, TypeOK
      <4> QED
        BY <1>1, <3>1, <4>1, <4>2 DEF Begin
    <3>2. CASE UNCHANGED faults
      BY <3>2 DEF faults
    <3> QED
      BY <1>1, <3>1, <3>2 DEF Start, faults
  <2>2. \A q \in Pods : HandlePod(q) => Clean
    BY <2>1, GraphAssumption DEF HandlePod, StartAsked, StartDelete
  <2>3. \A w \in waves : StartWave(w) => Clean
    BY <2>1 DEF StartWave, TypeOK
  <2>4. \A o \in Objects : Handle(o) => Clean
    <3> SUFFICES ASSUME NEW o \in Objects, Handle(o) PROVE Clean
      OBVIOUS
    <3>1. CASE \E w \in waves : StartWave(w)
      BY <2>3, <3>1
    <3>2. CASE \E n \in Objects : ReadNeighbour(o, n)
      BY <3>2 DEF ReadNeighbour, faults
    <3>3. CASE WriteError(o)
      BY <1>1, <3>3 DEF WriteError, faults
    <3>4. CASE Finish(o)
      BY <1>1, <3>4 DEF Finish, faults
    <3> QED
      BY <1>1, <3>1, <3>2, <3>3, <3>4 DEF Handle, ReadFails
  <2> QED
    BY <2>2, <2>4 DEF Next, vars, faults, PodRestarts, PodDeleted, ObjectRemoved,
       BuildRequested, Build, LinkMade
<1>3. Undisturbed
  BY StillUndisturbed
<1> QED
  BY <1>2, <1>3 DEF NoFaults

\* Whom the waves of a pod reach: the objects of its tree.
LEMMA TreeReached ==
  ASSUME NEW Root, NEW Parent, NEW Level, LinkedAsTrees(Root, Parent, Level),
         NEW p \in Pods \cap alive, TypeOK, DOMAIN Parent \subseteq alive, NEW o \in alive \ Pods
  PROVE  o \in Reached(p) <=> o \in DOMAIN Parent /\ p = Root[o]
<1>1. ASSUME o \in DOMAIN Parent, p = Root[o], NEW S \in SUBSET alive, p \in S, Closed(S)
      PROVE  o \in S
  <2> DEFINE U == {e \in Objects \X Objects : e[1] \in S => e[2] \in S}
  <2>1. IsTransitivelyClosedOn(U, Objects)
    BY DEF IsTransitivelyClosedOn
  <2>2. ASSUME NEW x \in DOMAIN Parent PROVE <<Parent[x], x>> \in U
    <3>1. x \in Objects /\ Parent[x] \in Objects /\ x \in alive
      BY TreeFacts
    <3>2. <<Parent[x], x>> \in Propagate
      BY DEF LinkedAsTrees
    <3>3. Parent[x] \in S => x \in S
      BY <1>1, <3>1, <3>2 DEF Closed
    <3> QED
      BY <3>1, <3>3
  <2>3. U \in SUBSET (Objects \X Objects)
    OBVIOUS
  <2>4. <<p, o>> \in U
    <3>1. <<p, o>> \in Above(Parent)
      BY <1>1 DEF LinkedAsTrees
    <3> HIDE DEF U
    <3> QED
      BY <2>1, <2>2, <2>3, <3>1, AlongTheTree
  <2> QED
    BY <1>1, <2>4
<1>2. ASSUME o \in Reached(p) PROVE o \in DOMAIN Parent /\ p = Root[o]
  <2> DEFINE S == {x \in InTrees(Parent) \cap alive : Root[x] = p}
  <2>1. Closed(S)
    <3> SUFFICES ASSUME NEW e \in Propagate, e[2] \in alive,
                        e[1] \in InTrees(Parent), Root[e[1]] = p
                 PROVE  e[2] \in InTrees(Parent) /\ Root[e[2]] = p
      BY DEF Closed
    <3>1. e = <<e[1], e[2]>> /\ e[1] \in Objects /\ e[2] \in Objects
      BY GraphAssumption
    <3>2. \/ e[2] = e[1]
          \/ e[2] \in DOMAIN Parent /\ e[1] = Parent[e[2]]
          \/ <<e[2], e[1]>> \in Above(Parent)
      <4> HIDE DEF S
      <4> QED
        BY <3>1 DEF LinkedAsTrees
    <3>3. \A y, x \in Objects :
            <<x, y>> \in Above(Parent) => x \in InTrees(Parent) /\ Root[x] = Root[y]
      BY TreeFacts
    <3>4. \A x \in DOMAIN Parent : x \in InTrees(Parent) /\ Root[x] = Root[Parent[x]]
      BY DEF LinkedAsTrees, InTrees
    <3> QED
      BY <3>1, <3>2, <3>3, <3>4
  <2>2. p \in S /\ S \in SUBSET alive
    BY DEF InTrees, LinkedAsTrees
  <2>3. o \in S
    BY <1>2, <2>1, <2>2 DEF Reached
  <2> QED
    BY <2>3 DEF InTrees
<1> QED
  BY <1>1, <1>2 DEF Reached

\* Once quiet, an object of the tree says what its parent says, and so what the
\* pod of its tree says, if that has been asked.
LEMMA TreeAgrees ==
  ASSUME NEW Root, NEW Parent, NEW Level, LinkedAsTrees(Root, Parent, Level),
         TypeOK, TreeFits(Parent, Level), Quiescent,
         NEW o \in DOMAIN Parent, Root[o] \notin alive \cap unasked
  PROVE  o \in infected <=> Bad(Root[o])
<1>1. \A x \in DOMAIN Parent : Bad(x) <=> x \in infected
  <2> SUFFICES ASSUME NEW x \in DOMAIN Parent PROVE Bad(x) <=> x \in infected
    OBVIOUS
  <2>1. x \in Objects /\ x \notin Pods
    BY TreeFacts
  <2>2. NodeFits(x, InTrees(Parent), Level)
    BY <2>1 DEF TreeFits
  <2> QED
    BY <2>1, <2>2 DEF NodeFits, Bad
<1>2. ASSUME NEW x \in DOMAIN Parent, Root[x] = Root[o] PROVE x \in infected <=> Bad(Parent[x])
  <2> DEFINE n == Parent[x]
  <2>1. x \in Objects /\ n \in Objects
    BY TreeFacts
  <2>2. EdgeFits(n, x)
    BY DEF TreeFits
  <2>7. n \in Pods => n \notin alive \cap unasked
    BY <1>2 DEF LinkedAsTrees
  <2> HIDE DEF n
  <2>3. ~Renewing(n) /\ waves = {} /\ task[n].phase = "idle" /\ ~Scanning(x)
    BY <2>1, <2>7 DEF Quiescent, Renewing, Scanning, TypeOK
  <2>4. stamp[n] <= stamp[x] /\ stamp[x] <= stamp[n]
    BY <2>2, <2>3 DEF EdgeFits, Coming, Behind
  <2>5. stamp[n] = stamp[x]
    BY <2>1, <2>4 DEF TypeOK
  <2>6. x \in infected <=> Bad(n)
    BY <2>2, <2>3, <2>5 DEF EdgeFits, Agreeing
  <2> QED
    BY <2>6 DEF n
<1> DEFINE U == {e \in Objects \X Objects :
                   /\ Root[e[1]] = Root[e[2]]
                   /\ Root[e[1]] = Root[o] => (Bad(e[1]) <=> Bad(e[2]))}
<1>3. IsTransitivelyClosedOn(U, Objects)
  BY DEF IsTransitivelyClosedOn
<1>4. \A x \in DOMAIN Parent : <<Parent[x], x>> \in U
  <2> SUFFICES ASSUME NEW x \in DOMAIN Parent PROVE <<Parent[x], x>> \in U
    OBVIOUS
  <2>1. Root[x] = Root[Parent[x]]
    BY DEF LinkedAsTrees
  <2>2. Root[x] = Root[o] => (Bad(Parent[x]) <=> Bad(x))
    BY <1>1, <1>2
  <2> QED
    BY <2>1, <2>2, TreeFacts
<1>5. U \in SUBSET (Objects \X Objects)
  OBVIOUS
<1>6. <<Root[o], o>> \in U
  <2>1. <<Root[o], o>> \in Above(Parent)
    BY DEF LinkedAsTrees
  <2> HIDE DEF U
  <2> QED
    BY <1>3, <1>4, <1>5, <2>1, AlongTheTree
<1>7. Root[Root[o]] = Root[o]
  BY DEF LinkedAsTrees
<1> QED
  BY <1>1, <1>6, <1>7

\* On a graph where every pod has a tree of its own, but for links that lead back,
\* and whatever the clock does: once quiet, and as long as no call has failed and no
\* handler has run before its links were made, an object shows a distributed error
\* only if a pod that is there and has restarted propagates to it, and does so
\* unless no controller owns such a pod, which build then passes over.  Objects
\* that rely on each other in a circle do not keep an error up when the pod is
\* gone, since each counts only those closer to the source (error_propagate.go 64,
\* 178).
THEOREM NoErrorMissedOrKept ==
  ASSUME NEW Root, NEW Parent, NEW Level, LinkedAsTrees(Root, Parent, Level)
  PROVE  Spec => []InfectionIsExact
<1> DEFINE TreeInv == /\ PodsInv /\ NoFaults
                      /\ Undisturbed => TreeFits(Parent, Level) /\ BareSilent
<1>1. Init /\ PodsInv => TreeInv
  <2>1. Init => BareSilent
    BY GraphAssumption, IdleFacts DEF Init, BareSilent
  <2> QED
    BY <2>1, TreeInit DEF Init, NoFaults
<1>2. TreeInv /\ [Next]_vars => TreeInv'
  <2> SUFFICES ASSUME TreeInv, [Next]_vars PROVE TreeInv'
    OBVIOUS
  <2>1. PodsInv'
    BY PodsNext
  <2>2. NoFaults' /\ (Undisturbed' => Undisturbed)
    BY NoFaultsNext, StillUndisturbed DEF PodsInv, PropagationInv
  <2>3. Undisturbed' => TreeFits(Parent, Level)'
    BY TreeNext
  <2>4. Undisturbed' => BareSilent'
    BY <2>2, BareNext DEF PodsInv, PropagationInv
  <2> QED
    BY <2>1, <2>2, <2>3, <2>4
<1>3. TreeInv /\ NewsIsAsked /\ PodErrorShown => InfectionIsExact
  <2> SUFFICES ASSUME TreeInv, NewsIsAsked, PodErrorShown, Quiescent, Undisturbed,
                      NEW o \in alive \ Pods
               PROVE  IF o \in infected THEN Sources(o) # {} ELSE Sources(o) \subseteq bare
    BY DEF InfectionIsExact
  <2>1. TypeOK /\ TreeFits(Parent, Level) /\ NoFaults /\ BareSilent
    BY DEF PodsInv, PropagationInv
  <2>2. o \in Objects
    BY <2>1 DEF TypeOK
  <2>3. DOMAIN Parent \subseteq alive
    <3> SUFFICES ASSUME NEW x \in DOMAIN Parent PROVE x \in alive
      OBVIOUS
    <3>1. x \in Objects /\ x \notin Pods
      BY TreeFacts
    <3> QED
      BY <2>1, <3>1 DEF TreeFits, NodeFits
  <2>4. Sources(o) = {q \in Pods \cap alive \cap restarted : o \in DOMAIN Parent /\ q = Root[o]}
    <3>1. \A q \in Pods \cap alive : o \in Reached(q) <=> o \in DOMAIN Parent /\ q = Root[o]
      BY <2>1, <2>3, TreeReached
    <3>2. restarted \subseteq Pods
      BY <2>1 DEF TypeOK
    <3> QED
      BY <3>1, <3>2 DEF Sources
  <2>5. NodeFits(o, InTrees(Parent), Level) /\ stamp[o] \in Nat
    BY <2>1, <2>2 DEF TreeFits, TypeOK
  <2>6. CASE o \notin DOMAIN Parent
    BY <2>4, <2>5, <2>6 DEF NodeFits, InTrees
  <2>7. CASE o \in DOMAIN Parent
    <3> DEFINE r == Root[o]
    <3>1. r \in Pods /\ r \in Objects /\ <<r, o>> \in Above(Parent)
      <4>1. r \in Pods /\ <<r, o>> \in Above(Parent)
        BY <2>7 DEF LinkedAsTrees
      <4> QED
        BY <4>1, GraphAssumption
    <3>2. CASE r \in bare \cap alive
      <4>1. stamp[r] = 0
        <5>1. ~(stamp[r] > 0)
          BY <2>1, <3>1, <3>2 DEF BareSilent, Quiescent
        <5>2. stamp[r] \in Nat
          BY <2>1, <3>1 DEF TypeOK
        <5> QED
          BY <5>1, <5>2
      <4>2. stamp[o] <= stamp[r]
        BY <2>1, <2>2, <3>1, BelowIsBehind
      <4>3. o \notin infected
        BY <2>5, <4>1, <4>2 DEF NodeFits
      <4> QED
        BY <2>4, <3>2, <4>3
    <3>3. CASE r \notin bare \cap alive
      <4>1. r \notin alive \cap unasked
        BY <3>3 DEF NewsIsAsked, Quiescent, Undisturbed
      <4>2. o \in infected <=> Bad(r)
        BY <2>1, <2>7, <4>1, TreeAgrees
      <4>3. blind = {} /\ lost[r] = 0 /\ stamp[r] \in Nat
        BY <2>1, <3>1 DEF NoFaults, TypeOK
      <4>4. r \in alive => (r \in failing <=> r \in restarted)
        BY <3>1, <4>1, <4>3 DEF PodErrorShown
      <4>5. r \notin infected
        BY <2>1, <3>1 DEF TreeFits, NodeFits
      <4>6. Bad(r) <=> r \in alive \cap restarted
        BY <4>4, <4>5 DEF Bad
      <4> QED
        BY <2>4, <2>7, <3>1, <4>2, <4>6
    <3> QED
      BY <3>2, <3>3
  <2> QED
    BY <2>6, <2>7
<1> QED
  <2> HIDE DEF TreeInv
  <2>1. Spec => []TreeInv
    BY <1>1, <1>2, PodsInvariant, PTL DEF Spec
  <2> QED
    BY <1>3, <2>1, NewsInvariant, PodErrorsSettle, PTL
=============================================================================
