----------------------------- MODULE K8sWatcher -----------------------------
(***************************************************************************)
(* The Kubernetes service of m2: informer goroutines that mirror changes   *)
(* of the cluster into the CMDB (watcher.go, sync and processResource),    *)
(* the debounced rebuild they share, and the build function that reads the *)
(* mirror and publishes the links and resource sums of the cluster         *)
(* (adapter.go, build).                                                    *)
(*                                                                         *)
(* A change is one event of an informer.  What an object holds is left     *)
(* out: the mirror is the set of changes it reflects, and what the build   *)
(* published is the set of changes its reads have seen and whose links it  *)
(* has made.  Changes of one model concern different objects, so they may  *)
(* arrive in any order.  A build goes on when it cannot read an object or  *)
(* make a link, and publishes without it.                                  *)
(*                                                                         *)
(* The watcher has build run for one object, k8s_infrastructure; when a    *)
(* connector of another model announces a source, pushUpdate has it run    *)
(* for another, cn_ad_k8s.  Two such builds may run at the same time.      *)
(***************************************************************************)
EXTENDS RebuildDebounce

CONSTANTS
  Kinds,     \* resource kinds, each with an informer goroutine of its own
  PodKind,   \* the kind whose deletions go through PropagateError
  Changes,   \* the changes to be reported: records with a kind and an op
  MaxDisturbances, \* bound on the announcements of other models and the restarts together
  MaxFailures      \* bound on the calls that fail

ASSUME ChangesAssumption ==
  /\ PodKind \in Kinds
  /\ \A c \in Changes : c.kind \in Kinds /\ c.op \in {"ADD", "UPDATE", "DELETE"}
ASSUME MaxDisturbancesAssumption == MaxDisturbances \in Nat
ASSUME MaxFailuresAssumption == MaxFailures \in Nat

VARIABLES
  handler,       \* handler[k]: "idle", or "dirty" when it is about to call markDirty
  todo,          \* changes no informer has delivered yet
  applied,       \* changes the CMDB reflects
  missed,        \* changes that were delivered and will never be applied
  evicting,      \* deletions of pods on their way to PropagateError
  buildSignals,  \* buildSignals[b]: signals for the object b not handled yet
  builder,       \* builder[b]: "idle", or "reading" while build runs for b
  unread,        \* unread[b]: kinds the running build has not queried
  seen,          \* seen[b]: changes the running build has read
  skipped,       \* skipped[b]: changes whose objects the running build could not read
  shown,         \* changes in the links and sums the last build published
  overtaken,     \* running builds that started before the last one published
  overwritten,   \* changes an overtaken build has removed from shown
  pushes,        \* number of announcements
  forgone,       \* changes that are not shown because a call failed or the service restarted
  restarts,      \* number of restarts of the service
  failures       \* number of calls that failed

mirrorVars == <<handler, todo, applied, missed, evicting>>
publishedVars == <<shown, overwritten>>
readVars == <<builder, unread, seen, skipped>>
buildVars == <<buildSignals, readVars, publishedVars, overtaken, pushes>>
errorVars == <<forgone, failures>>
k8sVars == <<vars, mirrorVars, buildVars, errorVars, restarts>>

\* The objects build runs for.
Watched == "k8s_infrastructure"
Pushed == "cn_ad_k8s"
BuildObjects == {Watched, Pushed}

K8sInit ==
  /\ Init
  /\ handler = [k \in Kinds |-> "idle"]
  /\ todo = Changes
  /\ applied = {}
  /\ missed = {}
  /\ evicting = {}
  /\ buildSignals = [b \in BuildObjects |-> 0]
  /\ builder = [b \in BuildObjects |-> "idle"]
  /\ unread = [b \in BuildObjects |-> {}]
  /\ seen = [b \in BuildObjects |-> {}]
  /\ skipped = [b \in BuildObjects |-> {}]
  /\ shown = {}
  /\ overtaken = {}
  /\ overwritten = {}
  /\ pushes = 0
  /\ forgone = {}
  /\ restarts = 0
  /\ failures = 0

\* One more call fails.
CallFails ==
  /\ failures < MaxFailures
  /\ failures' = failures + 1

\* The changes among C that are not shown, and that nothing will show after the
\* call that failed.
GivenUp(C) == forgone' = forgone \cup (C \ shown)

-----------------------------------------------------------------------------
(* sync and processResource.  One informer calls its handler for one change *)
(* after the other.                                                         *)

Deliver(c) ==
  /\ c \in todo
  /\ handler[c.kind] = "idle"
  /\ todo' = todo \ {c}

GoesOnToMark(c) == handler' = [handler EXCEPT ![c.kind] = "dirty"]

IsEviction(c) == c.kind = PodKind /\ c.op = "DELETE"

\* Faulty variant: an update does not go on to markDirty.
UpdateForgetsMark(c) ==
  /\ Deliver(c)
  /\ ~IsEviction(c)
  /\ applied' = applied \cup {c}
  /\ IF c.op = "UPDATE" THEN UNCHANGED handler ELSE GoesOnToMark(c)
  /\ UNCHANGED <<missed, evicting, errorVars>>

\* The CMDB calls succeed.
SyncApplies(c) ==
  /\ Deliver(c)
  /\ ~IsEviction(c)
  /\ applied' = applied \cup {c}
  /\ GoesOnToMark(c)
  /\ UNCHANGED <<missed, evicting, errorVars>>

\* ObjectUpdate fails and processResource returns; or the informer reports a
\* deletion it has missed as a tombstone, which sync does not recognise.  What
\* was applied before a restart is not rebuilt then.
SyncReturnsEarly(c) ==
  /\ Deliver(c)
  /\ CallFails
  /\ missed' = missed \cup {c}
  /\ GivenUp({c} \cap applied)
  /\ UNCHANGED <<handler, applied, evicting>>

\* ObjectDelete, a link of an added object or the Signal call for a pod fails:
\* the error is logged and the rebuild is requested all the same.  After a
\* restart every object is an added one.
SyncLogsError(c) ==
  /\ Deliver(c)
  /\ c.op \in {"ADD", "DELETE"} \/ restarts > 0
  /\ CallFails
  /\ missed' = missed \cup {c}
  /\ GoesOnToMark(c)
  /\ UNCHANGED <<applied, evicting, forgone>>

\* The deletion of a pod is only signalled here.
SyncEvicts(c) ==
  /\ Deliver(c)
  /\ IsEviction(c)
  /\ evicting' = evicting \cup {c}
  /\ GoesOnToMark(c)
  /\ UNCHANGED <<applied, missed, errorVars>>

Sync(c) ==
  /\ \/ SyncApplies(c)
     \/ SyncReturnsEarly(c)
     \/ SyncLogsError(c)
     \/ SyncEvicts(c)
  /\ UNCHANGED <<vars, buildVars, restarts>>

\* PropagateError of the pod deletes the object (error_propagate.go 57-59).
EvictionApplied(c) ==
  /\ c \in evicting
  /\ evicting' = evicting \ {c}
  /\ applied' = applied \cup {c}
  /\ UNCHANGED <<vars, handler, todo, missed, buildVars, errorVars, restarts>>

HandlerMarks(k) ==
  /\ handler[k] = "dirty"
  /\ MarkDirty
  /\ handler' = [handler EXCEPT ![k] = "idle"]
  /\ UNCHANGED <<todo, applied, missed, evicting, buildVars, errorVars, restarts>>

-----------------------------------------------------------------------------
(* The timer, rebuild and the signal to the build function.                *)

RebuildTimer ==
  /\ (\E t \in Timers : TimerFires(t)) \/ RebuildReturns \/ RebuildTakes
  /\ UNCHANGED <<mirrorVars, buildVars, errorVars, restarts>>

BuildSignalled(n) ==
  /\ SignalBuild(n)
  /\ buildSignals' = [buildSignals EXCEPT ![Watched] = @ + 1]
  /\ UNCHANGED <<mirrorVars, readVars, publishedVars, overtaken, pushes, errorVars, restarts>>

BuildSignalFails(n) ==
  /\ SignalFails(n)
  /\ CallFails
  /\ GivenUp(applied)
  /\ UNCHANGED <<mirrorVars, buildVars, restarts>>

\* A connector of m1 or m3 announces a source to all adapters; that of m2
\* answers with a build for its own object (pushUpdate).
PushUpdate ==
  /\ pushes + restarts < MaxDisturbances
  /\ pushes' = pushes + 1
  /\ buildSignals' = [buildSignals EXCEPT ![Pushed] = @ + 1]
  /\ UNCHANGED <<vars, mirrorVars, readVars, publishedVars, overtaken, errorVars, restarts>>

-----------------------------------------------------------------------------
(* build runs for one signal of an object after the other.  It queries the  *)
(* kinds at different times, makes the links and publishes the sums at the  *)
(* end.  Nothing repeats a build for a call of its own that failed.         *)

Reading == {b \in BuildObjects : builder[b] = "reading"}

\* Faulty variant: build is started without a signal.
BuildStartsUnasked(b) ==
  /\ builder[b] = "idle"
  /\ buildSignals' = [buildSignals EXCEPT ![b] = @ - 1]
  /\ builder' = [builder EXCEPT ![b] = "reading"]
  /\ unread' = [unread EXCEPT ![b] = Kinds]
  /\ UNCHANGED <<vars, mirrorVars, seen, skipped, publishedVars, overtaken, pushes, errorVars,
                 restarts>>

BuildStarts(b) ==
  /\ builder[b] = "idle"
  /\ buildSignals[b] > 0
  /\ buildSignals' = [buildSignals EXCEPT ![b] = @ - 1]
  /\ builder' = [builder EXCEPT ![b] = "reading"]
  /\ unread' = [unread EXCEPT ![b] = Kinds]
  /\ UNCHANGED <<vars, mirrorVars, seen, skipped, publishedVars, overtaken, pushes, errorVars,
                 restarts>>

\* The query of k lists the objects that exist; those in unreadable carry an
\* error of their own (ReqError) and are left out.  A deleted object is not
\* listed, and so cannot fail to be read.
BuildTakes(b, k, unreadable) ==
  /\ builder[b] = "reading"
  /\ k \in unread[b]
  /\ unread' = [unread EXCEPT ![b] = @ \ {k}]
  /\ seen' = [seen EXCEPT ![b] = @ \cup ({c \in applied : c.kind = k} \ unreadable)]
  /\ skipped' = [skipped EXCEPT ![b] = @ \cup unreadable]
  /\ GivenUp(unreadable)
  /\ UNCHANGED <<vars, mirrorVars, buildSignals, builder, publishedVars, overtaken, pushes,
                 restarts>>

BuildReads(b, k) == BuildTakes(b, k, {}) /\ UNCHANGED failures

BuildReadsPart(b, k) ==
  /\ CallFails
  /\ \E unreadable \in SUBSET {c \in applied : c.kind = k /\ c.op # "DELETE"} :
       unreadable # {} /\ BuildTakes(b, k, unreadable)

BuildEnds(b) ==
  /\ builder' = [builder EXCEPT ![b] = "idle"]
  /\ unread' = [unread EXCEPT ![b] = {}]
  /\ seen' = [seen EXCEPT ![b] = {}]
  /\ skipped' = [skipped EXCEPT ![b] = {}]

\* What b has read, but for the changes whose links are missing, replaces what
\* was there; whoever still reads is overtaken.
Publish(b, unlinked) ==
  LET published == seen[b] \ unlinked
  IN  /\ shown' = published
      /\ overwritten' = (IF b \in overtaken THEN overwritten \cup shown ELSE overwritten) \ published
      /\ forgone' = (forgone \cup skipped[b] \cup unlinked) \ published
      /\ overtaken' = Reading \ {b}

\* Faulty variant: a query fails and build publishes what it has.
BuildPublishesPart(b) ==
  /\ builder[b] = "reading"
  /\ unread[b] # {}
  /\ CallFails
  /\ BuildEnds(b)
  /\ Publish(b, {})
  /\ UNCHANGED <<vars, mirrorVars, buildSignals, pushes, restarts>>

\* The changes that the running build b was to show.
Carried(b) == seen[b] \cup skipped[b] \cup {c \in applied : c.kind \in unread[b]}

\* A query fails and build returns before it publishes anything; or all queries
\* are answered and the last call fails, which stores the sums.
BuildGivesUp(b) ==
  /\ builder[b] = "reading"
  /\ CallFails
  /\ BuildEnds(b)
  /\ overtaken' = overtaken \ {b}
  /\ GivenUp(Carried(b))
  /\ UNCHANGED <<vars, mirrorVars, buildSignals, publishedVars, pushes, restarts>>

\* Faulty variant: the signals that came in during the build are taken with it.
BuildDrainsSignals(b) ==
  /\ builder[b] = "reading"
  /\ unread[b] = {}
  /\ BuildEnds(b)
  /\ Publish(b, {})
  /\ buildSignals' = [buildSignals EXCEPT ![b] = 0]
  /\ UNCHANGED <<vars, mirrorVars, pushes, failures, restarts>>

BuildPublishes(b) ==
  /\ builder[b] = "reading"
  /\ unread[b] = {}
  /\ BuildEnds(b)
  /\ Publish(b, {})
  /\ UNCHANGED <<vars, mirrorVars, buildSignals, pushes, failures, restarts>>

\* Calls that make links fail, or are not made because the other end was not
\* read; the sums are stored all the same.  A link that was there stays.
BuildLinksPart(b) ==
  /\ builder[b] = "reading"
  /\ unread[b] = {}
  /\ IF skipped[b] = {} THEN CallFails ELSE UNCHANGED failures
  /\ BuildEnds(b)
  /\ \E unlinked \in SUBSET {c \in seen[b] \ shown : c.op # "DELETE"} :
       unlinked # {} /\ Publish(b, unlinked)
  /\ UNCHANGED <<vars, mirrorVars, buildSignals, pushes, restarts>>

BuildStep(b) ==
  \/ BuildStarts(b)
  \/ \E k \in Kinds : BuildReads(b, k) \/ BuildReadsPart(b, k)
  \/ BuildGivesUp(b)
  \/ BuildPublishes(b)
  \/ BuildLinksPart(b)

-----------------------------------------------------------------------------
(* The service goes down and comes up again (onAfterStart, NewWatcher).  Its *)
(* flag, timers and goroutines are gone; signals wait in their streams, and  *)
(* a build that was running is handled again or not.  The new informers      *)
(* report every object that exists as added: changes are delivered again,    *)
(* deletions are not, and those of the time it was down never are.  The root *)
(* and cluster objects are written anew, without the sums of the last build. *)

DebounceStartsOver ==
  /\ rebuildPending' = FALSE
  /\ delayRebuildTimer' = NoTimer
  /\ scheduled' = {}
  /\ callbacks' = 0
  /\ marks' = 0
  /\ covered' = 0
  /\ passes' = {}
  /\ announced' = 0
  /\ lost' = {}

NotDeleted == {c \in Changes : c.op # "DELETE"}

Restart ==
  /\ pushes + restarts < MaxDisturbances
  /\ restarts' = restarts + 1
  /\ DebounceStartsOver
  /\ handler' = [k \in Kinds |-> "idle"]
  /\ \E unreported \in SUBSET (todo \ NotDeleted) :
       /\ todo' = NotDeleted \cup (todo \ unreported)
       /\ missed' = (missed \ NotDeleted) \cup unreported
  /\ \E again \in SUBSET Reading :
       buildSignals' = [b \in BuildObjects |-> buildSignals[b] + (IF b \in again THEN 1 ELSE 0)]
  /\ builder' = [b \in BuildObjects |-> "idle"]
  /\ unread' = [b \in BuildObjects |-> {}]
  /\ seen' = [b \in BuildObjects |-> {}]
  /\ skipped' = [b \in BuildObjects |-> {}]
  /\ shown' = {}
  /\ overtaken' = {}
  /\ overwritten' = {}
  /\ forgone' = applied \ NotDeleted
  /\ UNCHANGED <<applied, evicting, pushes, failures>>

ServiceStep ==
  \/ \E c \in Changes : Sync(c) \/ EvictionApplied(c)
  \/ \E k \in Kinds : HandlerMarks(k)
  \/ RebuildTimer
  \/ \E n \in 1 .. MaxMarks : BuildSignalled(n) \/ BuildSignalFails(n)
  \/ \E b \in BuildObjects : BuildStep(b)

K8sNext == ServiceStep \/ PushUpdate \/ Restart

\* As long as a goroutine can run, a timer is running, a call has not returned
\* or a signal waits, one of them goes on: the changes are finitely many, so
\* that none waits for ever.  Nothing makes another model announce a source,
\* or the service restart.
K8sFairness == WF_k8sVars(ServiceStep)

K8sSpec == K8sInit /\ [][K8sNext]_k8sVars /\ K8sFairness

-----------------------------------------------------------------------------
K8sTypeOK ==
  /\ TypeOK
  /\ handler \in [Kinds -> {"idle", "dirty"}]
  /\ todo \subseteq Changes
  /\ applied \subseteq Changes
  /\ missed \subseteq Changes
  /\ evicting \subseteq Changes
  /\ buildSignals \in [BuildObjects -> Nat]
  /\ builder \in [BuildObjects -> {"idle", "reading"}]
  /\ unread \in [BuildObjects -> SUBSET Kinds]
  /\ seen \in [BuildObjects -> SUBSET Changes]
  /\ skipped \in [BuildObjects -> SUBSET Changes]
  /\ shown \subseteq Changes
  /\ overtaken \subseteq Reading
  /\ overwritten \subseteq Changes \ shown
  /\ pushes \in 0 .. MaxDisturbances
  /\ forgone \subseteq Changes \ shown
  /\ restarts \in 0 .. MaxDisturbances
  /\ failures \in 0 .. MaxFailures

\* Something between the informer and the end of build still carries c.
Underway(c) ==
  \/ c \in todo
  \/ handler[c.kind] = "dirty"
  \/ covered < marks
  \/ passes # {}
  \/ \E b \in BuildObjects :
       \/ buildSignals[b] > 0
       \/ builder[b] = "reading" /\ (c.kind \in unread[b] \/ c \in seen[b])

\* Safety: a change that is in the mirror, but not in what build has
\* published, is on its way to a build that will read it, or a call failed
\* that should have shown it (ReqError of its object, one of its links, a
\* query, the update of the sums, the signal), or was published and then
\* replaced by an overtaken build: a build that runs while handlers write
\* never swallows their rebuild, and no restart loses it, but for deletions.
UnshownIsUnderway ==
  \A c \in applied \ shown :
    IsEviction(c) \/ c \in forgone \cup overwritten \/ Underway(c)

\* Action property: a build that ends loses of what earlier ones have
\* published only what it could not read itself, also when it was handled
\* again after a restart, unless it started before the last one ended, for
\* the other object; nothing but a restart takes away anything else.
ShownNeverShrinks ==
  [][\/ shown \subseteq shown'
     \/ restarts' # restarts
     \/ \E b \in Reading \ Reading' : b \in overtaken \/ shown \ shown' \subseteq skipped[b]]_k8sVars

\* Liveness: in the end each change of the mirror is published for good,
\* unless a call that should have shown it failed since the last restart or
\* an overtaken build replaced it.
AppliedIsShown ==
  <>[](\A c \in applied : IsEviction(c) \/ c \in shown \cup forgone \cup overwritten)
=============================================================================
