-------------------------- MODULE ErrorPropagation --------------------------
(***************************************************************************)
(* Graph-based error propagation (common/error_propagate.go): a pod whose  *)
(* containers restarted is in error, and a wave of PropagateError signals  *)
(* recomputes, object after object along the propagation links, whether    *)
(* an object relies on something infected.                                 *)
(*                                                                         *)
(* The runtime handles the signals of one object one at a time; handlers   *)
(* of different objects interleave, and signals arrive in any order.  A    *)
(* handler reads its own object, then each neighbour it relies on, writes  *)
(* its result and only then signals the next objects, so every step of it  *)
(* is an action here.                                                      *)
(***************************************************************************)
EXTENDS Naturals, FiniteSets

CONSTANTS
  Objects,        \* objects of the graph
  Pods,           \* those with a restart count
  Removable,      \* nodes, replica sets and deployments the cluster may delete
  Propagate,      \* links tagged __error_propagate: pairs <<from, to>>
  Rely,           \* links tagged __error_rely: pairs <<from, to>>
  Late,           \* those of them that are made after the pods have been asked
  ClockSteps,     \* how far the clock moves between two waves, rounding included
  MaxBuilds,      \* bound on the number of builds, each of which asks the pods
  MaxFailures     \* bound on the calls that fail

NoBlast == 9999   \* the default of __error_blast_radius in the object's own check

ASSUME GraphAssumption ==
  /\ Pods \subseteq Objects
  /\ Removable \subseteq Objects \ Pods
  /\ Propagate \subseteq Objects \X Objects
  /\ Rely \subseteq Objects \X Objects
  /\ Late \subseteq Propagate \cup Rely
ASSUME ClockAssumption == ClockSteps \subseteq Nat /\ 1 \in ClockSteps
ASSUME BoundsAssumption == MaxBuilds \in Nat /\ MaxFailures \in Nat

VARIABLES
  alive,       \* objects in the CMDB
  unmade,      \* links that have not been made yet
  bare,        \* pods that no controller owns, which build passes over
  restarted,   \* pods with body.restartCount > 0
  unasked,     \* those of them that no build has asked since
  stamp,       \* error.__error_timestamp_nano, 0 when absent
  blast,       \* error.__error_blast_radius, NoBlast when absent
  failing,     \* objects with error.error
  infected,    \* objects with error.error_distribution
  task,        \* task[o]: what the handler of o is doing
  waves,       \* signals that carry a timestamp and a blast radius
  asked,       \* asked[p]: signals with no payload to pod p
  doomed,      \* pods with a signal that carries __delete
  evicted,     \* pods the cluster has deleted
  buildDue,    \* TRUE from a change of the cluster until the next build
  builds,      \* number of builds so far
  clock,       \* the last timestamp taken from the clock
  lost,        \* lost[o]: the newest wave that a failing call or a late link kept from o
  blind,       \* objects whose last result lacks something that could not be read
  early,       \* some handler has started before the links of its object were made
  failures     \* number of calls that failed

graph == <<stamp, blast, infected>>
signals == <<waves, asked, doomed>>
pods == <<bare, restarted, unasked, evicted, buildDue, builds>>
faults == <<lost, blind, early, failures>>
vars == <<alive, unmade, failing, graph, task, signals, pods, clock, faults>>

\* A handler between two of its steps: the wave it handles, whether the object
\* is deleted at the end, the restart count it has read (the pod itself, when
\* positive), the neighbours it has not read, the infected one it has found and
\* the objects to signal.
Task == [phase : {"idle", "scan", "finish"}, op : {"update", "delete"},
         ts : Nat, blast : Nat, restarts : SUBSET Pods,
         unread : SUBSET Objects, found : SUBSET Objects, targets : SUBSET Objects]

Idle == [phase |-> "idle", op |-> "update", ts |-> 0, blast |-> 0, restarts |-> {},
         unread |-> {}, found |-> {}, targets |-> {}]

Deleting == [Idle EXCEPT !.phase = "finish", !.op = "delete"]

\* The graph after the first ADD events of the pods, with a build to come.  An
\* earlier run of the services may have made the links.  Any pods may be bare.
Init ==
  /\ alive = Objects
  /\ unmade \in SUBSET Late
  /\ bare \in SUBSET Pods
  /\ restarted \in SUBSET Pods
  /\ unasked = restarted
  /\ failing = restarted
  /\ stamp = [o \in Objects |-> 0]
  /\ blast = [o \in Objects |-> NoBlast]
  /\ infected = {}
  /\ task = [o \in Objects |-> Idle]
  /\ waves = {}
  /\ asked = [p \in Pods |-> 0]
  /\ doomed = {}
  /\ evicted = {}
  /\ buildDue = TRUE
  /\ builds = 0
  /\ clock = 0
  /\ lost = [o \in Objects |-> 0]
  /\ blind = {}
  /\ early = FALSE
  /\ failures = 0

-----------------------------------------------------------------------------
(* The Kubernetes service, as far as it concerns errors.                   *)

\* A call fails.
CallFails ==
  /\ failures < MaxFailures
  /\ failures' = failures + 1

\* Faulty variant: the rebuild is not requested.
PodRestartsUnmarked(p) ==
  /\ p \in alive \ (restarted \cup evicted)
  /\ builds < MaxBuilds
  /\ restarted' = restarted \cup {p}
  /\ unasked' = unasked \cup {p}
  /\ failing' = failing \cup {p}
  /\ UNCHANGED <<alive, unmade, graph, task, signals, bare, evicted, buildDue, builds, clock,
                 faults>>

\* sync writes restartCount and error.error of the pod, then marks (226).
PodRestarts(p) ==
  /\ p \in alive \ (restarted \cup evicted)
  /\ builds < MaxBuilds
  /\ restarted' = restarted \cup {p}
  /\ unasked' = unasked \cup {p}
  /\ failing' = failing \cup {p}
  /\ buildDue' = TRUE
  /\ UNCHANGED <<alive, unmade, graph, task, signals, bare, evicted, builds, clock, faults>>

\* processResource signals PropagateError with __delete, then marks, also when
\* the signal fails, which is not sent again.
PodDeleted(p) ==
  /\ p \in alive \ evicted
  /\ builds < MaxBuilds
  /\ \/ doomed' = doomed \cup {p} /\ UNCHANGED failures
     \/ CallFails /\ UNCHANGED doomed
  /\ evicted' = evicted \cup {p}
  /\ buildDue' = TRUE
  /\ UNCHANGED <<alive, unmade, failing, graph, task, waves, asked, bare, restarted, unasked,
                 builds, clock, lost, blind, early>>

\* processResource deletes any other object on the spot, then marks.
ObjectRemoved(o) ==
  /\ o \in alive
  /\ builds < MaxBuilds
  /\ alive' = alive \ {o}
  /\ buildDue' = TRUE
  /\ UNCHANGED <<unmade, failing, graph, task, signals, bare, restarted, unasked, evicted,
                 builds, clock, faults>>

\* Another change of the cluster, or a connector of another model (pushUpdate),
\* has build run again.
BuildRequested ==
  /\ ~buildDue
  /\ builds < MaxBuilds
  /\ buildDue' = TRUE
  /\ UNCHANGED <<alive, unmade, failing, graph, task, signals, bare, restarted, unasked,
                 evicted, builds, clock, faults>>

\* A signal of PropagateError with no payload to each pod of P.
Ask(P) ==
  /\ asked' = [p \in Pods |-> IF p \in P THEN asked[p] + 1 ELSE asked[p]]
  /\ unasked' = unasked \ P

\* build asks every pod that a controller owns: without ownerKind or ownerUID it
\* goes on to the next before the signal (adapter.go 141-148, 166).  When a call
\* fails it may ask anyone: nobody when it was not signalled or returns early
\* (66, 97, 110, 122), not those whose signal failed (166), and a pod without an
\* owner when the pod itself was not read (126).
Build ==
  /\ buildDue
  /\ buildDue' = FALSE
  /\ builds' = builds + 1
  /\ \/ Ask(alive \cap (Pods \ bare)) /\ UNCHANGED failures
     \/ \E some \in SUBSET (alive \cap Pods) : Ask(some) /\ CallFails
  /\ UNCHANGED <<alive, unmade, failing, graph, task, waves, doomed, bare, restarted, evicted,
                 clock, lost, blind, early>>

\* After asking the pods, build links replica sets to deployments (174), and the
\* post-processes link to shadows; a call that fails leaves it to another build.
LinkMade(e) ==
  /\ builds > 0
  /\ e \in unmade
  /\ unmade' = unmade \ {e}
  /\ UNCHANGED <<alive, failing, graph, task, signals, pods, clock, faults>>

-----------------------------------------------------------------------------
(* PropagateError.                                                         *)

\* Faulty variant: the timestamps are not compared.
AcceptsAnyAge(o, ts, radius) ==
  radius <= blast[o]

\* The checks of propagateErrorRecalculate: a wave is dropped when the object
\* has seen a newer one, or one that started closer to it.
Accepts(o, ts, radius) ==
  /\ stamp[o] < ts
  /\ radius <= blast[o]

Neighbours(o, links) == {n \in alive : <<o, n>> \in links}
Linked(o, links) == Neighbours(o, links \ unmade)
Overlooked(o, links) == Neighbours(o, links \cap unmade)

\* A wave with this timestamp never has an effect on the objects of S.
Misses(S, ts) == lost' = [o \in Objects |-> IF o \in S /\ lost[o] < ts THEN ts ELSE lost[o]]

Scan(o, ts, radius, op, restarts) ==
  [phase |-> "scan", op |-> op, ts |-> ts, blast |-> radius, restarts |-> restarts,
   unread |-> Linked(o, Rely), found |-> {}, targets |-> Linked(o, Propagate)]

\* amIPatientZero: a pod is well when its types cannot be read.  The objects the
\* wave goes on to, and those the object relies on, are those it is linked to now.
Begin(o, ts, radius, op) ==
  /\ Misses(Overlooked(o, Propagate), ts)
  /\ early' = (early \/ Overlooked(o, Propagate \cup Rely) # {})
  /\ \/ /\ task' = [task EXCEPT ![o] = Scan(o, ts, radius, op, restarted \cap {o})]
        /\ blind' = IF Overlooked(o, Rely) = {} THEN blind \ {o} ELSE blind \cup {o}
        /\ UNCHANGED failures
     \/ /\ o \in restarted
        /\ task' = [task EXCEPT ![o] = Scan(o, ts, radius, op, {})]
        /\ blind' = blind \cup {o}
        /\ CallFails

\* The handler starts.  A signal to an object that is gone, or that cannot be
\* read, ends it; one whose wave is dropped too, unless the object is to be
\* deleted.
Start(o, ts, radius, op) ==
  \/ /\ o \notin alive
     /\ UNCHANGED <<task, faults>>
  \/ /\ o \in alive
     /\ CallFails
     /\ Misses({o}, ts)
     /\ UNCHANGED <<task, blind, early>>
  \/ /\ o \in alive
     /\ Accepts(o, ts, radius)
     /\ Begin(o, ts, radius, op)
  \/ /\ o \in alive
     /\ ~Accepts(o, ts, radius)
     /\ task' = [task EXCEPT ![o] = IF op = "delete" THEN Deleting ELSE Idle]
     /\ UNCHANGED faults

\* A signal without a payload: the handler reads the clock.  The clock of one
\* object has moved since its last wave; waves of different pods may be closer
\* than a timestamp resolves once it has been a float64.
Now(p) == {t \in {clock + s : s \in ClockSteps} : t > stamp[p]}

\* Faulty variants: a signal to a pod that is gone is never consumed; a handler
\* runs without a signal.
StartAskedAlive(p) ==
  /\ task[p].phase = "idle"
  /\ asked[p] > 0
  /\ p \in alive
  /\ asked' = [asked EXCEPT ![p] = @ - 1]
  /\ \E t \in Now(p) : clock' = t /\ Start(p, t, 0, "update")
  /\ UNCHANGED <<alive, unmade, failing, graph, waves, doomed, pods>>

StartUnasked(p) ==
  /\ task[p].phase = "idle"
  /\ asked' = [asked EXCEPT ![p] = @ - 1]
  /\ \E t \in Now(p) : clock' = t /\ Start(p, t, 0, "update")
  /\ UNCHANGED <<alive, unmade, failing, graph, waves, doomed, pods>>

StartAsked(p) ==
  /\ task[p].phase = "idle"
  /\ asked[p] > 0
  /\ asked' = [asked EXCEPT ![p] = @ - 1]
  /\ \E t \in Now(p) : clock' = t /\ Start(p, t, 0, "update")
  /\ UNCHANGED <<alive, unmade, failing, graph, waves, doomed, pods>>

StartDelete(p) ==
  /\ task[p].phase = "idle"
  /\ p \in doomed
  /\ doomed' = doomed \ {p}
  /\ \E t \in Now(p) : clock' = t /\ Start(p, t, 0, "delete")
  /\ UNCHANGED <<alive, unmade, failing, graph, waves, asked, pods>>

StartWave(w) ==
  /\ w \in waves
  /\ task[w.to].phase = "idle"
  /\ waves' = waves \ {w}
  /\ Start(w.to, w.ts, w.blast, "update")
  /\ UNCHANGED <<alive, unmade, failing, graph, asked, doomed, pods, clock>>

\* Faulty variants: the blast radius is not compared; a distributed error does
\* not count.
InfectsAtAnyRadius(n, radius) ==
  n \in alive \cap (failing \cup infected)

InfectsIfFailing(n, radius) ==
  /\ n \in alive \cap failing
  /\ (IF blast[n] = NoBlast THEN 0 ELSE blast[n]) < radius

\* isAnyOfMyNeighbourInfected: a neighbour counts when its own blast radius,
\* 0 by default here, is smaller.
Infects(n, radius) ==
  /\ n \in alive
  /\ (IF blast[n] = NoBlast THEN 0 ELSE blast[n]) < radius
  /\ n \in failing \cup infected

ReadNeighbour(o, n) ==
  /\ task[o].phase = "scan"
  /\ n \in task[o].unread
  /\ task' = IF Infects(n, task[o].blast)
               THEN [task EXCEPT ![o].found = {n}, ![o].unread = {}]
               ELSE [task EXCEPT ![o].unread = @ \ {n}]
  /\ UNCHANGED <<alive, unmade, failing, graph, signals, pods, clock, faults>>

\* Neighbours that cannot be read, or queried for, are skipped.
ReadFails(o) ==
  /\ task[o].phase = "scan"
  /\ task[o].unread # {}
  /\ CallFails
  /\ \E left \in SUBSET task[o].unread :
       /\ left # task[o].unread
       /\ task' = [task EXCEPT ![o].unread = left]
  /\ blind' = blind \cup {o}
  /\ UNCHANGED <<alive, unmade, failing, graph, signals, pods, clock, lost, early>>

\* ObjectUpdate of the object's own record; it fails when the object is gone,
\* and may fail otherwise.
WriteError(o) ==
  /\ task[o].phase = "scan"
  /\ task[o].unread = {}
  /\ \/ /\ o \in alive
        /\ stamp' = [stamp EXCEPT ![o] = task[o].ts]
        /\ blast' = [blast EXCEPT ![o] = task[o].blast]
        /\ failing' = (failing \ {o}) \cup task[o].restarts
        /\ infected' = IF task[o].found = {} THEN infected \ {o}
                                             ELSE infected \cup {o}
        /\ UNCHANGED faults
     \/ /\ o \notin alive
        /\ UNCHANGED <<failing, graph, faults>>
     \/ /\ o \in alive
        /\ CallFails
        /\ Misses({o}, task[o].ts)
        /\ UNCHANGED <<failing, graph, blind, early>>
  /\ task' = [task EXCEPT ![o].phase = "finish"]
  /\ UNCHANGED <<alive, unmade, signals, pods, clock>>

\* Faulty variant: an object that is well signals nobody.
SentIfInfected(o) ==
  {[from |-> o, to |-> t, ts |-> task[o].ts, blast |-> task[o].blast + 1] :
     t \in IF task[o].found \cup task[o].restarts = {} THEN {} ELSE task[o].targets \ {o}}

Sent(o) ==
  {[from |-> o, to |-> t, ts |-> task[o].ts, blast |-> task[o].blast + 1] :
     t \in task[o].targets \ {o}}

Condemned(o) == IF task[o].op = "delete" THEN {o} ELSE {}

\* ObjectDelete when asked for, then propagateToLinked.  A signal that fails
\* is not sent again, and nor are those to objects that were not found.
Finish(o) ==
  /\ task[o].phase = "finish"
  /\ \/ /\ alive' = alive \ Condemned(o)
        /\ waves' = waves \cup Sent(o)
        /\ UNCHANGED faults
     \/ /\ CallFails
        /\ alive' \in {alive, alive \ Condemned(o)}
        /\ \E unsent \in SUBSET Sent(o) :
             /\ waves' = waves \cup (Sent(o) \ unsent)
             /\ Misses({w.to : w \in unsent}, task[o].ts)
        /\ UNCHANGED <<blind, early>>
  /\ task' = [task EXCEPT ![o] = Idle]
  /\ UNCHANGED <<unmade, failing, graph, asked, doomed, pods, clock>>

Handle(o) ==
  \/ \E w \in waves : w.to = o /\ StartWave(w)
  \/ \E n \in Objects : ReadNeighbour(o, n)
  \/ ReadFails(o)
  \/ WriteError(o)
  \/ Finish(o)

HandlePod(p) == StartAsked(p) \/ StartDelete(p)

Next ==
  \/ \E p \in Pods : PodRestarts(p) \/ PodDeleted(p) \/ HandlePod(p)
  \/ \E o \in Removable : ObjectRemoved(o)
  \/ BuildRequested
  \/ Build
  \/ \E e \in Late : LinkMade(e)
  \/ \E o \in Objects : Handle(o)

\* Signals are handled and a requested build runs; nothing need ask for a build.
Fairness ==
  /\ WF_vars(Build)
  /\ \A o \in Objects : WF_vars(Handle(o))
  /\ \A p \in Pods : WF_vars(HandlePod(p))

Spec == Init /\ [][Next]_vars /\ Fairness

-----------------------------------------------------------------------------
TypeOK ==
  /\ alive \subseteq Objects
  /\ unmade \subseteq Late
  /\ bare \subseteq Pods
  /\ restarted \subseteq Pods
  /\ unasked \subseteq restarted
  /\ stamp \in [Objects -> Nat]
  /\ blast \in [Objects -> Nat]
  /\ failing \subseteq Objects
  /\ infected \subseteq Objects
  /\ task \in [Objects -> Task]
  /\ waves \subseteq [from : Objects, to : Objects, ts : Nat, blast : Nat]
  /\ asked \in [Pods -> Nat]
  /\ doomed \subseteq Pods
  /\ evicted \subseteq Pods
  /\ buildDue \in BOOLEAN
  /\ builds \in Nat
  /\ clock \in Nat
  /\ lost \in [Objects -> Nat]
  /\ blind \subseteq Objects
  /\ early \in BOOLEAN
  /\ failures \in Nat

Quiescent ==
  /\ waves = {}
  /\ \A p \in Pods : asked[p] = 0
  /\ doomed = {}
  /\ ~buildDue
  /\ \A o \in Objects : task[o].phase = "idle"

\* Action property: what an object says of its error is replaced only by a
\* newer wave, and by one that started no farther away, although the check is
\* made on a value read before the neighbours were (error_propagate.go 64-100).
OnlyNewerWavesWrite ==
  [][\A o \in Objects :
       /\ stamp[o] <= stamp'[o]
       /\ blast'[o] <= blast[o]
       /\ (o \in infected) # (o \in infected)' => stamp[o] < stamp'[o]]_vars

\* Safety: when the signals have been handled, a wave that reached an object
\* has reached, or was overtaken by a newer one at, every object it propagates
\* to, unless that object is closer to an earlier source, or a failing call or a
\* link not made yet (adapter.go 166, 174) has kept from it a wave as new as that:
\* what fails at one link costs no other, and a newer wave makes up for it.
WavesReachEveryone ==
  Quiescent =>
    \A o, n \in alive :
      <<n, o>> \in Propagate /\ n # o
        => stamp[n] <= stamp[o] \/ blast[o] <= blast[n] \/ stamp[n] <= lost[o]

\* Objects a wave of object o reaches along the propagation links: those that no
\* set that holds o, and that no link leads out of, is without.
Closed(S) == \A e \in Propagate : e[1] \in S /\ e[2] \in alive => e[2] \in S
Reached(o) == {x \in alive : \A S \in SUBSET alive : o \in S /\ Closed(S) => x \in S}

\* No call has failed, and no handler has missed a link.
Undisturbed == failures = 0 /\ ~early

\* Restarted pods that are there and propagate to o.
Sources(o) == {p \in alive \cap restarted : o \in Reached(p)}

\* Safety: once quiet, an object shows a distributed error exactly when a
\* restarted pod that is still there propagates to it: no error is missed, and
\* none is kept up by objects that infect each other after the pod is gone, as
\* long as no call has failed and no handler has run before its links were made.
\* Pods without an owner need not be shown: they are linked to their node and
\* never asked, and count only when another wave has the node read them
\* (adapter.go 136-149).
InfectionIsExact ==
  Quiescent /\ Undisturbed =>
    \A o \in alive \ Pods :
      IF o \in infected THEN Sources(o) # {} ELSE Sources(o) \subseteq bare

\* Safety: with one path from a pod to an object, and timestamps that differ,
\* the only way to overlook an infected neighbour is a newer wave: the object
\* carries a timestamp beyond that neighbour's, unless a call of one of the two
\* has failed since, or the link between them was not made yet, or no build has
\* asked the neighbour, a pod, since it restarted.
MissedOnlyIfOvertaken ==
  Quiescent =>
    \A o, n \in alive :
      /\ <<n, o>> \in Propagate
      /\ <<o, n>> \in Rely
      /\ n \in (failing \cup infected) \ unasked
      /\ o \notin infected \cup blind
      /\ stamp[n] > lost[o]
      /\ stamp[n] >= lost[n]
      => stamp[n] < stamp[o]

\* Safety: once quiet, a pod is in error exactly when its containers have
\* restarted, although a handler writes what it has read of the pod before the
\* informer did, unless a call of its last handler failed (watcher.go 226,
\* error_propagate.go 33 and 96), or no build has asked it since it restarted:
\* it has no owner, or some call has failed.
PodErrorShown ==
  Quiescent =>
    \A p \in Pods \cap alive :
      \/ p \in failing <=> p \in restarted
      \/ p \in blind
      \/ stamp[p] < lost[p]
      \/ p \in unasked /\ (p \in bare \/ failures > 0)

\* Liveness: the waves die out, on cyclic graphs too.
WavesDieOut == []<>Quiescent
=============================================================================
