---------------------------- MODULE ShadowLinks ----------------------------
(***************************************************************************)
(* How the models see each other: the post-processes of m1, m2 and m3.     *)
(* Each model owns objects; a post-process queries the objects of another  *)
(* model, deletes the local shadows of those it does not find, makes       *)
(* shadows for those that match an object of its own, and links the two.   *)
(* Whatever changes a model ends in PostProcessNotifier, which signals the *)
(* post-processes of all models.  A pod is the exception: when Kubernetes  *)
(* deletes it, the watcher signals PropagateError, which deletes it from   *)
(* the model whenever it gets there; what announces the change is the      *)
(* build that the watcher requests at once, and it may run first.          *)
(*                                                                         *)
(* A post-process is a function that handles one signal at a time; it      *)
(* queries its own and the other model at different times, while both      *)
(* change, and every query, read or write may fail.  What it does about a  *)
(* failure differs from model to model.  The Kubernetes post-process has   *)
(* two passes, one after the other; the others have one.                   *)
(***************************************************************************)
EXTENDS Naturals, FiniteSets

CONSTANTS
  VMs,         \* machines of m1 that have a uuid
  Nodes,       \* Kubernetes nodes of m2
  Workloads,   \* pods and deployments of m2
  Pods,        \* the workloads that are pods
  Blocks,      \* architecture blocks of m3 that have a service name
  SameName,    \* pairs <<node, machine>> with the same uuid, up to case, and
               \*   <<workload, block>> with the same service name
  InImage,     \* pairs <<workload, block>>: the image mentions the service
  UpperUID,    \* nodes that report their uuid in upper case
  MaxChanges,  \* bound on the objects that come and go
  MaxFailures  \* bound on the steps in which a call fails

Objects == VMs \cup Nodes \cup Workloads \cup Blocks

ASSUME SameNameAssumption ==
  /\ SameName \subseteq (Nodes \X VMs) \cup (Workloads \X Blocks)
  /\ InImage \subseteq Workloads \X Blocks

\* The code finds machines by uuid and blocks by service name, in maps: of two
\* with one key only the last is found (m1 post_process.go:86, m2 post_process.go:207
\* and 239, m3 post_process.go:108).  Keys are taken to be unique.
ASSUME KeysAssumption ==
  \A d, e \in SameName : d[1] = e[1] => d[2] = e[2]

ASSUME PodsAssumption == Pods \subseteq Workloads \ (VMs \cup Nodes \cup Blocks)
ASSUME BoundsAssumption == MaxChanges \in Nat /\ MaxFailures \in Nat

Models == {"m1", "m2", "m3"}

Kept(m) ==
  CASE m = "m1" -> VMs
    [] m = "m2" -> Nodes \cup Workloads
    [] m = "m3" -> Blocks

\* The passes of the post-processes, named after the shadows they look after.
Passes == {"m1_nodes", "m2_vms", "m2_blocks", "m3_workloads"}

ModelOf(p) ==
  CASE p = "m1_nodes" -> "m1"
    [] p \in {"m2_vms", "m2_blocks"} -> "m2"
    [] p = "m3_workloads" -> "m3"

Own(p) ==
  CASE p = "m1_nodes" -> VMs
    [] p = "m2_vms" -> Nodes
    [] p = "m2_blocks" -> Workloads
    [] p = "m3_workloads" -> Blocks

Foreign(p) ==
  CASE p = "m1_nodes" -> Nodes
    [] p = "m2_vms" -> VMs
    [] p = "m2_blocks" -> Blocks
    [] p = "m3_workloads" -> Workloads

\* l of the own model is to be linked to a shadow of f.  m2 lowers the case of
\* a node's uuid, as m1 does with a machine's; m1 takes the node's as it is.
Matches(p, l, f) ==
  CASE p = "m1_nodes" -> <<f, l>> \in SameName /\ f \notin UpperUID
    [] p \in {"m2_vms", "m2_blocks"} -> <<l, f>> \in SameName
    [] p = "m3_workloads" -> <<f, l>> \in SameName

Pairs(p, L, F) == {e \in L \X F : Matches(p, e[1], e[2])}

\* What a pass does next.
Steps == {"idle", "waiting", "own", "foreign", "delete", "link"}

VARIABLES
  present,      \* objects of the models
  evicting,     \* pods whose deletion is signalled
  late,         \* pods deleted since m3 last read the workloads
  unannounced,  \* models that changed and have not run the notifier
  signals,      \* signals[m]: signals that wait at the post-process of m
  step,         \* step[p]
  own,          \* own[p]: own objects that p has read
  foreign,      \* foreign[p]: objects of the other model that p has read
  shadows,      \* shadows[p]: objects that have a shadow in the model of p
  links,        \* links[p]: links from own objects to shadows
  spoiled,      \* passes to which a failure happened since they were last started
  changes,
  failures

excuses == <<spoiled, failures>>
pass == <<step, own, foreign, shadows, links>>
pods == <<evicting, late>>
vars == <<present, pods, unannounced, signals, pass, excuses, changes>>

\* The databases outlive the services: objects may be there already, with the
\* shadows and links that an earlier run left.
Init ==
  /\ present \in SUBSET Objects
  /\ evicting = {}
  /\ late = {}
  /\ unannounced = {}
  /\ signals = [m \in Models |-> 0]
  /\ step = [p \in Passes |-> "idle"]
  /\ own = [p \in Passes |-> {}]
  /\ foreign = [p \in Passes |-> {}]
  /\ links = [p \in Passes |-> Pairs(p, present \cap Own(p), present \cap Foreign(p))]
  /\ shadows = [p \in Passes |-> {e[2] : e \in links[p]}]
  /\ spoiled = {}
  /\ changes = 0
  /\ failures = 0

PassesOf(m) == {p \in Passes : ModelOf(p) = m}
Idle(m) == \A p \in PassesOf(m) : step[p] = "idle"

Fail(S) ==
  /\ failures < MaxFailures
  /\ failures' = failures + 1
  /\ spoiled' = spoiled \cup S

-----------------------------------------------------------------------------
(* The models change and announce it.                                      *)

ObjectAppears(m, o) ==
  /\ changes < MaxChanges
  /\ o \notin present
  /\ changes' = changes + 1
  /\ present' = present \cup {o}
  /\ unannounced' = unannounced \cup {m}
  /\ UNCHANGED <<pods, signals, pass, excuses>>

\* ObjectDelete takes the links of the object with it, not its shadows.
Deletes(o) ==
  /\ present' = present \ {o}
  /\ links' = [p \in Passes |-> {e \in links[p] : e[1] # o}]
  /\ UNCHANGED <<signals, step, own, foreign, shadows>>

ObjectGoes(m, o) ==
  /\ changes < MaxChanges
  /\ o \in present \ Pods
  /\ changes' = changes + 1
  /\ Deletes(o)
  /\ unannounced' = unannounced \cup {m}
  /\ UNCHANGED <<pods, excuses>>

\* Kubernetes deletes a pod: the watcher signals PropagateError and requests a
\* build, which announces.
PodEvicted(o) ==
  /\ changes < MaxChanges
  /\ o \in present \ evicting
  /\ changes' = changes + 1
  /\ evicting' = evicting \cup {o}
  /\ unannounced' = unannounced \cup {"m2"}
  /\ UNCHANGED <<present, late, signals, pass, excuses>>

\* PropagateError deletes the pod and tells no one.  The signal is lost, or the
\* pod cannot be read or deleted, and the pod stays.
EvictionHandled(o) ==
  /\ o \in evicting
  /\ evicting' = evicting \ {o}
  /\ \/ /\ Deletes(o)
        /\ late' = late \cup {o}
        /\ UNCHANGED excuses
     \/ /\ Fail({})
        /\ UNCHANGED <<present, links, late, signals, step, own, foreign, shadows>>
  /\ UNCHANGED <<unannounced, changes>>

\* PostProcessNotifier skips an adapter that cannot be queried, read or
\* signalled; a handler that fails before it leaves all of them out.
PostProcessNotifier(m) ==
  /\ m \in unannounced
  /\ unannounced' = unannounced \ {m}
  /\ \E lost \in SUBSET Models :
       /\ signals' = [n \in Models |-> IF n \in lost THEN signals[n] ELSE signals[n] + 1]
       /\ \/ lost = {} /\ UNCHANGED excuses
          \/ lost # {} /\ Fail({p \in Passes : ModelOf(p) \in lost})
  /\ UNCHANGED <<present, pods, pass, changes>>

-----------------------------------------------------------------------------
(* A post-process.                                                         *)

\* The own model is read first in m1 and m3, between deleting and linking in m2.
First(p) == IF ModelOf(p) = "m2" THEN "foreign" ELSE "own"
AfterOwn(p) == IF ModelOf(p) = "m2" THEN "link" ELSE "foreign"
AfterDelete(p) == IF ModelOf(p) = "m2" THEN "own" ELSE "link"

Begun(m) ==
  [p \in Passes |->
    CASE p = "m2_blocks" /\ m = "m2" -> "waiting"
      [] p # "m2_blocks" /\ ModelOf(p) = m -> First(p)
      [] OTHER -> step[p]]

\* p ends; the second pass of m2 follows the first.
Ended(p) ==
  [q \in Passes |->
    CASE q = p -> "idle"
      [] p = "m2_vms" /\ q = "m2_blocks" -> First(q)
      [] OTHER -> step[q]]

Forgets(p) ==
  /\ step' = Ended(p)
  /\ own' = [own EXCEPT ![p] = {}]
  /\ foreign' = [foreign EXCEPT ![p] = {}]

\* Faulty variant: runs without a signal.
PostProcessUnasked(m) ==
  /\ Idle(m)
  /\ signals' = [signals EXCEPT ![m] = @ - 1]
  /\ step' = Begun(m)
  /\ spoiled' = spoiled \ PassesOf(m)
  /\ UNCHANGED <<present, pods, unannounced, own, foreign, shadows, links, changes, failures>>

\* Without a client of the database it returns.
PostProcess(m) ==
  /\ signals[m] > 0
  /\ Idle(m)
  /\ signals' = [signals EXCEPT ![m] = @ - 1]
  /\ \/ /\ step' = Begun(m)
        /\ spoiled' = spoiled \ PassesOf(m)
        /\ UNCHANGED failures
     \/ Fail(PassesOf(m)) /\ UNCHANGED step
  /\ UNCHANGED <<present, pods, unannounced, own, foreign, shadows, links, changes>>

\* A query whose failure makes the post-process return.
Returns(p) ==
  /\ Fail({p})
  /\ Forgets(p)
  /\ UNCHANGED <<shadows, links>>

\* Objects that cannot be read are left out.  A failing query gives no objects,
\* where it does not make the post-process return.
Got(p, all, got) ==
  \/ got = all /\ UNCHANGED excuses
  \/ got # all /\ Fail({p})

ReadOwn(p) ==
  /\ step[p] = "own"
  /\ \/ /\ \E got \in SUBSET (present \cap Own(p)) :
             Got(p, present \cap Own(p), got) /\ own' = [own EXCEPT ![p] = got]
        /\ step' = [step EXCEPT ![p] = AfterOwn(p)]
        /\ UNCHANGED <<foreign, shadows, links>>
     \/ p \in {"m1_nodes", "m3_workloads"} /\ Returns(p)
  /\ UNCHANGED <<present, pods, unannounced, signals, changes>>

ReadForeign(p) ==
  /\ step[p] = "foreign"
  /\ \/ /\ \E got \in SUBSET (present \cap Foreign(p)) :
             Got(p, present \cap Foreign(p), got) /\ foreign' = [foreign EXCEPT ![p] = got]
        /\ step' = [step EXCEPT ![p] = "delete"]
        /\ UNCHANGED <<own, shadows, links>>
     \/ p = "m2_blocks" /\ Returns(p)
  /\ late' = IF p = "m3_workloads" THEN {} ELSE late
  /\ UNCHANGED <<present, evicting, unannounced, signals, changes>>

\* The shadows that are compared with what was read.  getShadowArchBlocks
\* appends to the list it ranges over and returns the one it never appends to.
Seen(p) == IF p = "m2_blocks" THEN {} ELSE shadows[p]

\* Faulty variant: the shadows that match no object of the own model.
ToDeleteUnmatched(p) == Seen(p) \ {e[2] : e \in Pairs(p, present \cap Own(p), foreign[p])}

ToDelete(p) == Seen(p) \ foreign[p]

DeleteShadows(p) ==
  /\ step[p] = "delete"
  /\ \/ /\ \E gone \in SUBSET ToDelete(p) :
             /\ Got(p, ToDelete(p), gone)
             /\ shadows' = [shadows EXCEPT ![p] = @ \ gone]
             /\ links' = [links EXCEPT ![p] = {e \in @ : e[2] \notin gone}]
        /\ step' = [step EXCEPT ![p] = AfterDelete(p)]
        /\ UNCHANGED <<own, foreign>>
     \/ p = "m2_blocks" /\ Returns(p)
  /\ UNCHANGED <<present, pods, unannounced, signals, changes>>

\* Faulty variant: an object that has a shadow counts as linked.
FoundWithoutShadow(p) == Pairs(p, own[p], foreign[p] \ shadows[p])

Found(p) == Pairs(p, own[p], foreign[p])

\* A workload without a block of its name gets one that its image mentions,
\* whichever the iteration meets first.
Mentioned(p) ==
  {e \in own[p] \X foreign[p] :
    p = "m2_blocks" /\ e \in InImage /\ \A f \in foreign[p] : ~Matches(p, e[1], f)}
Guesses(p) ==
  {G \in SUBSET Mentioned(p) :
    \A e \in Mentioned(p) : \E f \in foreign[p] : {d \in G : d[1] = e[1]} = {<<e[1], f>>}}

\* A shadow is made only where it is linked.  The link fails when the own
\* object is gone; a call that fails leaves some of the pairs undone.
LinkShadows(p) ==
  /\ step[p] = "link"
  /\ \E G \in Guesses(p) : \E made \in SUBSET (Found(p) \cup G) :
       \E linked \in SUBSET {e \in made : e[1] \in present} :
         /\ Got(p, <<Found(p) \cup G, {e \in made : e[1] \in present}>>, <<made, linked>>)
         /\ shadows' = [shadows EXCEPT ![p] = @ \cup {e[2] : e \in made}]
         /\ links' = [links EXCEPT ![p] = @ \cup linked]
  /\ Forgets(p)
  /\ UNCHANGED <<present, pods, unannounced, signals, changes>>

Advance(p) == ReadOwn(p) \/ ReadForeign(p) \/ DeleteShadows(p) \/ LinkShadows(p)

Next ==
  \/ \E m \in Models : \E o \in Kept(m) : ObjectAppears(m, o) \/ ObjectGoes(m, o)
  \/ \E o \in Pods : PodEvicted(o) \/ EvictionHandled(o)
  \/ \E m \in Models : PostProcessNotifier(m) \/ PostProcess(m)
  \/ \E p \in Passes : Advance(p)

Spec == Init /\ [][Next]_vars

-----------------------------------------------------------------------------
TypeOK ==
  /\ present \subseteq Objects
  /\ evicting \subseteq present \cap Pods
  /\ late \subseteq Pods
  /\ unannounced \subseteq Models
  /\ signals \in [Models -> Nat]
  /\ step \in [Passes -> Steps]
  /\ own \in [Passes -> SUBSET Objects]
  /\ foreign \in [Passes -> SUBSET Objects]
  /\ shadows \in [Passes -> SUBSET Objects]
  /\ links \in [Passes -> SUBSET (Objects \X Objects)]
  /\ \A p \in Passes :
       /\ own[p] \subseteq Own(p) /\ foreign[p] \cup shadows[p] \subseteq Foreign(p)
       /\ links[p] \subseteq Own(p) \X shadows[p]
  /\ spoiled \subseteq Passes
  /\ changes \in Nat
  /\ failures \in Nat

\* The post-process of m will run again.
Asked(m) == unannounced # {} \/ signals[m] > 0

Obsolete(p) == shadows[p] \ present
Linked(p) == Pairs(p, present \cap Own(p), present \cap Foreign(p)) \subseteq links[p]

\* Architecture blocks: see NoObsoleteBlocks.
Settled(p) == Linked(p) /\ (p # "m2_blocks" => Obsolete(p) \subseteq late)

\* Safety: whatever changed while a post-process was between its queries, once
\* it has nothing more to do there is no shadow of an object that is gone, but
\* for a pod whose deletion was handled after m3 last read the workloads, and
\* every object is linked to the shadow that matches it, unless a call failed
\* since its last start.
ShadowsSettle ==
  \A p \in Passes :
    Asked(ModelOf(p)) \/ ~Idle(ModelOf(p)) \/ p \in spoiled \/ Settled(p)

\* Action property: the shadow of an object that is there is deleted only by a
\* pass that will be repeated, or in which a call failed.
LiveShadowsStay ==
  [][\A p \in Passes : \A f \in shadows[p] \cap present :
       f \in shadows'[p] \/ Asked(ModelOf(p)) \/ p \in spoiled]_vars

-----------------------------------------------------------------------------
(* What the documentation says.                                            *)

\* "local placeholders that point to real objects" (README.md): the shadow of a
\* block that is gone is deleted.
NoObsoleteBlocks ==
  Asked("m2") \/ ~Idle("m2") \/ "m2_blocks" \in spoiled \/ Obsolete("m2_blocks") = {}
=============================================================================
