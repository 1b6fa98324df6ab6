# A formal model of the Foliage digital-twin demo

This directory holds TLA+ modules that model the demo's core logic, TLC
configurations that check them on small instances, and proofs checked by TLAPS
for instances of any size. Line numbers refer to the sources under `src/`.

## 1. The system

Four models run as separate services on the Foliage runtime (graph database
"CMDB" plus stateful functions addressed by *(function type, object id)*) and
see each other through weak clustering.

| Component | State | Operations |
|---|---|---|
| inventory agent (`m1/lab_hosts/common/agent.sh`) | the last listing of machines | runs lshw, lsmod, vagrant, lshw per machine in a loop; publishes each output |
| m1 connectors (`m1/connectors/*`) | a raw source object per host and command | `ingestSource`: deduplicate, store, link, signal the adapters |
| m1 adapter (`m1/adapters/infra`) | servers, hypervisors, machines, their parts and links | `infraPushUpdate` reconciles one source; `infraPostProcess` links shadows of m2 nodes |
| K8s watcher (`m2/cn_ad/k8s/watcher.go`) | nodes, pods, deployments, replica sets in the CMDB; pending flag and timer | informer callbacks `sync`, `markDirty`, `rebuild` |
| K8s adapter (`m2/cn_ad/k8s/adapter.go`, `main.go`, `post_process.go`) | links and resource sums of a cluster; shadows of m1 machines and m3 blocks | `build`, `pushUpdate` (asks for a build), `k8sInfrastructurePostProcess` |
| error propagation (`common/error_propagate.go`) | `error.*` of every object | `PropagateError`, one handler per object and signal |
| m3 kicker and connector (`m3/cmd/connector_kicker.go`, `m3/connectors/json_file`) | the architecture file as a source object | periodic read, `pushUpdate` with deduplication |
| m3 adapter (`m3/adapters/arch_model`) | blocks and links of the architecture; shadows of m2 workloads | `pushUpdate` deletes and builds the model; `archModelPostProcess` |
| m4 adapter (`m4/adapters/dc`) | shadows of the three roots under `datacenter` | `datacenterPostProcess`, every few seconds |
| notifier (`common/post_process_notifier.go`) | none | signals the post-process of every adapter |

How they interact: agents signal connectors; connectors signal the m1 adapter
with the *name* of a source, which the adapter then reads; connectors announce
to the adapters of *all* models, and that of m2 answers with a build; informer goroutines
write the CMDB directly and ask for a rebuild; `build` makes links, sends
`PropagateError` to every pod and ends in the notifier, which runs the
post-processes of all models; waves of `PropagateError` travel along links,
through shadows into other models.

What is hard: informer goroutines, a timer that may fire while it is being
reset, and a build that queries at different times; signals without content
that overtake each other; deduplication that turns a lost step into a permanent
one; waves of several pods in a cyclic graph; CMDB calls that fail half-way.
Each of these is a hazard in `PROJECT.json`, at its line, with the property
that covers it or the reason why none does.

What makes each component correct:

* watcher: no reported change is left without a rebuild; a rebuild is not
  repeated for nothing (it implements a coalescing queue);
* mirror and build: what the CMDB holds is in the links and sums in the end;
  a later build never loses what an earlier one has shown; a restart loses
  deletions at most;
* error propagation: results are replaced only by newer waves; every object on
  the way is reached, and a failing call costs only the object it was for; a pod
  shows its restarts; infections do not keep themselves alive; waves die out;
* m1: the twin shows the latest snapshot; links and counts are those of the
  listing; no hypervisor without KVM; the hardware of a server is that of its lshw;
* post-processes: shadows are those of the objects of the other model;
* m3: the graph ends as the stored document, the others are told of whole
  documents, and no block is forgotten;
* m4: one undisturbed pass repairs whatever was left, and models that come and
  go are followed.

## 2. Modules

| Module | Models | Checked by | Proofs |
|---|---|---|---|
| `CoalescedRebuild` | what the watcher promises: changes, passes, signals | as a property of `RebuildDebounce` | |
| `RebuildDebounce` | `markDirty`, `rebuild`, lock, timers, late callbacks | `MCRebuildDebounce` | `RebuildDebounceProofs` |
| `K8sWatcher` (extends it) | `sync`, `processResource`, `build`, `pushUpdate`, restarts | `MCK8sWatcher` | `K8sWatcherProofs` |
| `ErrorPropagation` | `PropagateError`, step by step, and what starts it | `MCErrorPropagation` | `ErrorPropagationProofs` |
| `InfraTwin` | agents, m1 connectors, m1 adapter | `MCInfraTwin` | `InfraTwinProofs` |
| `LshwTree` | the walk of lshw trees, and what is found of each component | `MCLshw` | |
| `Lshw` | the component objects, snapshot by snapshot | `MCLshw` | `LshwProofs` |
| `ShadowLinks` | the post-processes of m1, m2 and m3, the notifier | `MCShadowLinks` | `ShadowLinksProofs` |
| `DocumentFollower` | what the architecture service promises: documents stored, read, shown or given up | as a property of `ArchModel` | in `ArchModelProofs` |
| `ArchModel` | m3: kicker, JSON connector, delete and build of the architecture | `MCArchModel` | `ArchModelProofs` |
| `Datacenter` | m4: the post-process and its heartbeat | `MCDatacenter` | `DatacenterProofs` |

The definition of a component module that models code is mapped to its lines in
`PROJECT.json`. Operators commented *Faulty variant* are bugs the code does not
have; each is put in the place of an operator to see that a property notices.

### RebuildDebounce and CoalescedRebuild

A critical section of `rebuildMu` is one action, since it only assigns two
fields and arms a timer. `MarkDirty` sets the flag and either resets the timer
object in the field or makes a new one. `TimerFires` starts a goroutine
(`callbacks`); `RebuildReturns` and `RebuildTakes` are what it finds under the
lock. `SignalBuild` and `SignalFails` come after the unlock, in any order. The
300 ms delay is abstracted: a running timer may fire at any time. `marks`,
`covered`, `announced` and `lost` are history: they number the changes, so that
"no change is lost" can be said. `Timers` bounds the timers running at once;
if it ran out `MarkDirty` would block, so instances have as many timers as
changes and this never happens.

### K8sWatcher

One informer per kind calls its handler for one event after the other; the
handler writes the CMDB (or fails, in each of the ways `processResource`
distinguishes), then calls `markDirty` as a later step. A change is a member of
a small set; the mirror (`applied`) and the published result (`shown`) are sets
of changes. Changes of one instance concern different objects.

`build` reads each kind at a time of its own and publishes at the end. Any call of
it may fail, `MaxFailures` times in all, and nothing repeats it then: an object
that cannot be read is left out of links and sums (`BuildReadsPart`, `skipped`); a
link that cannot be made is missing (`BuildLinksPart`), as is one to an object that
was not read; a query or the update of the sums ends the build with nothing new
(`BuildGivesUp`); the signal from the watcher is lost (`BuildSignalFails`).
`forgone` records the changes that such a call should have shown and that are not
shown: those of the objects that were not read, or all that the build or the
signal had before it. A later build that reads them takes them out again.

The runtime handles the signals of one object in turn,
but the watcher signals `k8s_infrastructure` (`watcher.go:320`) and `pushUpdate`
the adapter's own object `cn_ad_k8s` (`main.go:111`): two builds may run at the
same time, and `builder`, `unread` and `seen` are functions of the object. The
build that publishes last wins, even if it has read first. `overtaken` names
such a build, and `overwritten` what it has taken away: until the next change of
the cluster nothing brings that back. The properties say that this and the
changes in `forgone` are the only losses, and `ShownNeverShrinks` that a build
which is not overtaken takes away only what it could not read itself.

`Restart` drops goroutines, flag, timer and the running build (whose signal may
be delivered again), and the new informers report every object that exists as
added. Deletions of the time the service was down are never reported; they go
to `missed`.

### ErrorPropagation

A handler is a record `task[o]`: it reads its own object (`Start`: timestamp,
blast radius, restart count, links), then its neighbours one by one
(`ReadNeighbour`), writes (`WriteError`), and at last deletes and signals
(`Finish`). The runtime handles the signals of one object one at a time, so the
restart count a handler read at its start may be stale when it writes. Waves are
a set, delivered in any order. `BuildRequested` is a build for the sake of another
change or model. Timestamps: a wave's is `clock` plus one of
`ClockSteps`; 0 is in that set when ties are considered, because a timestamp
travels as a float64. Objects other than pods may be deleted by the cluster
(`ObjectRemoved`).

Not every pod is asked. `build` goes on to the next pod before the signal when the
pod has no controller (`adapter.go:141`), after it has linked the pod to its node:
such pods are `bare`, any set of them in `Init`. When a call of a build fails, the
pods it asks may be any (`Build`): none when it returns early or was not signalled,
a bare one when the pod itself could not be read, not those whose signal fails.
`unasked` holds the pods that no build has asked since their containers restarted.
Their error shows on the pod at once, since the informer writes it, but it reaches
their node only when another wave has the node read them, and a handler under way
may put them back to healthy.

`Late` are links that are made after the pods have been asked (`LinkMade`): `build`
links replica sets to deployments after the signals (`adapter.go:174`), the
post-processes link to shadows later still. `unmade` are those that are not there
yet, all of them, or some, when an earlier run of the services has made the others;
`Linked` is what a query finds, `Overlooked` what it does not find yet.

Any call may fail, `MaxFailures` times in all. `lost[o]` is the newest wave that a
failing call or a late link kept from `o`: its object could not be read or written, the
signal to it failed, or the sender was not linked to it when its handler started.
`blind` holds the objects whose last result lacks something: a pod whose types could not
be read counts as well, a neighbour that could not be read, or was not linked, as not
infected. These, and `unasked`, are the only excuses in the properties; a newer wave
ends both, and a build that asks the pod ends `unasked`; `early` (some handler has
overlooked a link) and `failures` are for `InfectionIsExact`, which knows no excuse but
pods without an owner.

### InfraTwin

`Output` is what the commands of a host may give at any time; the content of a snapshot
is the set of things it mentions. Publishing and `ingestSource` are one step: the
connector functions run one message at a time, and a message that is lost is a step that
does not happen. `notifying` holds what a function has stored and not announced (one
source at a time), `pending` the signals that wait at the adapter in any order,
`reading` what the adapter has read and not reconciled (`MaxPending` bounds these three
together when a source is stored). `dropped` and `failures` record the calls that
failed; `skipped` the listings that were skipped for want of a hypervisor. `kvmHosts` is
chosen once: the hosts on which KVM modules may be loaded. `shown` is the snapshot an
object was last updated with; it becomes `NoData` when the object is deleted. A
reconciliation ignores the errors of its calls and goes on (`AdapterReconcilesInPart`):
objects are not made or not updated, stale machines stay, listed ones are not made or
not linked, the count stays; any of these together, in up to `MaxFailures` steps.
`partial` holds the hosts to whose hypervisor this happened and that have had no whole
listing since. The links back from a machine to its hypervisor and from there to the
server, which only error propagation follows, are left out. The machine of a host that
vanishes from one listing and comes back in the next stays without its hardware until
its lshw changes, because the connector drops the one it knows: `LatestSnapshotShown`
excuses a machine that was deleted since.

### LshwTree and Lshw

One step is one snapshot that the adapter handles. `LshwTree` has no state: `walkLshw`
and the searches are translated as they are, and `Components` is what
`reconcileLshwGeneric` finds in a tree: a disk, a RAM stick or a network adapter is
named by its place among its kind. `ObjectUpdate` merges, so that an object keeps what
an earlier device at its place stated and the new one does not. The properties compare
with a definition that does not walk: nodes by their paths, in document order
(`DevicesIn`). A node states a few fields, each for the fields the code reads in the
same way. For a snapshot any set of up to `MaxFailing` calls may fail (`Failing`), and
that for up to `MaxFailures` snapshots, one after the other or not. `Lshw` takes both as
parameters (`Found`, `There`), so that it can be proved about: the definitions over
trees are recursive. That the two agree is `IsWalkedRight`, which TLC checks of every
snapshot of the run (`WalkIsRight`).

### ShadowLinks

A *pass* compares the objects of one other model with their local shadows: m1
and m3 have one, m2 has two, which follow each other. `step[p]` is where a pass
stands; the order of its reads differs (`First`, `AfterOwn`, `AfterDelete`), and
so does what it does about a failing query: return, or go on with nothing
(`Returns`, `Got`). Objects of the models come and go at any time between these
steps (`ObjectAppears`, `ObjectGoes`); a model that changed is in `unannounced`
until its handler runs `PostProcessNotifier`. Pods go in two steps: the watcher
signals `PropagateError` and asks for the build that announces (`PodEvicted`,
`watcher.go:272` and `292`); the deletion comes when the signal is handled
(`EvictionHandled`, `error_propagate.go:57`), which nobody announces. If that is
after m3 has read the workloads, the shadow of the pod stays until something else
changes. `late` is history: the pods to which this happened, the only exception
`ShadowsSettle` makes besides failing calls. That every change is announced in
the end is what `InfraTwin` and `K8sWatcher` are about; here a handler that fails
before it is a notifier that reaches nobody. `Init` allows objects that are there
already, with the shadows of an earlier run, since the databases outlive the
services. `spoiled` holds the passes to which a call failed since their last
start: a complete run repairs what a failed one left. Such a run need not come:
a query that fails in m2 or m1 looks like a model without objects, and deletes
the shadows of objects that are there (`m2/cn_ad/k8s/post_process.go:26`,
`m1/adapters/infra/post_process.go:104`) until something else changes.
`LiveShadowsStay` says that nothing but a failing call does this.

`Found` links every pair that matches, while the code looks matches up in maps by
uuid or service name (`m1/adapters/infra/post_process.go:86`,
`m2/cn_ad/k8s/post_process.go:207` and `239`, `m3/adapters/arch_model/post_process.go:108`),
where of two objects with one key the last wins. `KeysAssumption` says that no two
objects share a key, which is what uuids are for and true of the architecture that
comes with the demo; with a service name used twice, model and theorems do not apply.

The notifier is taken to reach its own model too. The SDK's list of weak cluster
domains is set without it, but the connectors find the adapter of their own model
through the same list (`m3/connectors/json_file/main.go:93`).

### ArchModel and DocumentFollower

`Tick` is the goroutine of the kicker: it signals the content of the file, or
returns for ever when it cannot be read or is no JSON. `IngestStores`,
`LinkSource` and `NotifyAdapters` are the connector, which announces only after
the link is made; the adapter reads the source when it handles the signal, which
may be a newer document than the one announced. The build is one action per call
that changes the graph: blocks are found by their links from the root, deleted,
the root is deleted, then root, blocks, their links from the root and the
downstream links are made in two passes. Failures of the deletion are logged,
those of the creation end the build (`GiveUp`), as do links that dangle and
documents against the schema. `stray` names the blocks that failing calls have
left behind: a block that could not be deleted loses its link when the root goes,
and no later build finds it. `dropped` says that the last push, or its build,
ended with an error: the connector then knows the document and does not announce
it again.

`DocumentFollower` is the same service seen from outside: a document is stored and
due; it is read, which takes down the one shown before; it is shown, whole, or given
up. `ArchModel` maps to it with the connector's position and the waiting signals as
`due`, the document of the running build as `work`, and as `shown` the document that
is in the graph, whole, with the other models told (`Shown`). What a build leaves in
the graph on its way is not seen.

### Datacenter

A pass lists each leaf model in turn, clears its shadows or makes and links one,
and writes the status of all at the end. Calls that fail are logged and the pass
goes on; a model whose roots cannot be listed looks like one that is gone. The
heartbeat signals the object `datacenter`, the notifiers of other models the
adapter's own object, so two passes interleave (`stage[h]`). `alone` is history:
the pass that ran without another, a change or a failure in between.

## 3. Runs

| Run | Question | Bounds |
|---|---|---|
| `RebuildDebounce` | is a change lost, is a pass, and is this a coalescing queue | 4 changes, 4 timers: two passes, each with a reset timer running late, and changes in between |
| `K8sWatcher` | does a build swallow a handler's rebuild, what do a restart and a second build cost | 2 kinds; a node added, a pod updated, a pod deleted; 1 timer; 3 rebuild requests; 1 restart or 1 build of the other object; 1 failing call |
| `ErrorCyclic` | do cycles keep an infection, do waves die out, does a pod show its restarts | 1 pod, with an owner or without, 2 objects that rely on each other, one of whose links may be late, 3 builds, ties, 1 failing call |
| `ErrorLayered` | when is an infected neighbour overlooked, do racing waves corrupt an object, what does a failing call or a late link cost | 2 pods (alike), with owners or without, 1 node (removable), 1 hypervisor linked late or not, 1 build, 1 failing call |
| `InfraTwin` | is the latest snapshot shown when signals overtake each other | 1 host, 1 machine, all four commands, 2 signals waiting, or 1 waiting and 1 being handled, 1 step with failing calls |
| `InfraHosts` | does one host touch another's machines, can a host without KVM get a hypervisor, what does a failed call cost | 2 hosts, any of them with KVM, 1 machine, lists of modules and machines, 2 signals as above, 1 step with failing calls |
| `ShadowLinks` | do shadows follow what comes and goes, what does a failed call cost | a machine, a deployment and its pod, their block, with their shadows, at the start; a node and a second block to come; 2 changes, 1 failing step |
| `ArchModel` | does the graph end as the stored document, what does a failing call cost, is a build one step to an observer | 3 documents (with a link, with a dangling link, against the schema), 1 signal waiting, 1 failing call |
| `Datacenter` | does a pass repair what overlaps and failures left, are models followed | 2 leaf models, 2 failing calls or restarts |
| `Lshw` | does the walk find every device and nothing else, is each shown, is every value shown one that a device at its place has stated | 3 snapshots of up to two parts in any order, nested up to three deep, 1 failing call for one of them |

The bounds are small because the code treats all pods, hosts and sources alike:
two racing waves need two pods, two signals that overtake each other need two
sources or one source stored twice, a wrongly deleted machine needs two hosts.
Timers that overlap are the matter of `RebuildDebounce`, so one is enough in
`K8sWatcher`. Two leaf models are enough for `Datacenter`, since a pass carries
nothing but its position and its findings from one to the next. Three snapshots
are enough for `Lshw`: one that makes an object, one without it, one with another
device in its place.

Two changes are enough for `ShadowLinks`: the first starts the post-processes,
the second happens while they are between two queries. A pod whose deletion is
late takes one of them, the deletion itself none.

No run checks deadlock: each system may stop when nothing changes any more, and
the counters bound the changes.

Two runs show where the code does other than what the documentation says
(`findings` in `PROJECT.json`); each checks one property that TLC refutes:

* `ShadowBlocks`: the shadows of architecture blocks are never deleted;
* `ArchKicker`: one read of the architecture file at the wrong moment ends the
  goroutine that reads it, and no later content is shown.

### Fairness

Weak fairness on goroutines that are ready, on running timers, on calls that
return, on tickers, and on signals that the runtime holds: the Go scheduler,
`time.AfterFunc`, `time.Ticker` and the runtime's durable queues justify these.
`K8sFairness` asks less: that the service as a whole goes on while anything in it
can; with finitely many changes nothing waits for ever. Nothing makes an agent
find a change, a pod restart, an object be deleted, another model send its signal
or a service restart. Whether a call fails is never decided by fairness: an action
and its failing variant share one condition. `InfraTwin`, `ShadowLinks` and `Lshw`
state safety only and need no fairness.

## 4. Proofs

Each component has a module of proofs, for every value of the constants under
the named assumptions (finite sets of machines, sets of links over the objects,
bounds that are natural numbers).

* **RebuildDebounce.** `DebounceInv` adds to the type invariant that the flag, the timer
  field and `covered < marks` agree, and that a set field's timer is running or
  a callback is on its way. The last part is what makes `NoLostWakeup`
  inductive: a timer leaves `scheduled` only by adding a callback, and a callback
  that finds the flag set takes everything. `EveryPassAccountedFor` needs that
  `announced` never passes `covered`. `ImplementsCoalescing` maps initial states
  and steps to `CoalescedRebuild`; its fairness is checked by TLC.
* **K8sWatcher.** `UnshownIsUnderway` is preserved because whatever removes one of
  the disjuncts (a pass, a signal, a read) establishes the next; the theorem
  rests on `NoLostWakeup`-like facts of the extended module. `ShownNeverShrinks`
  follows from "a running build that is not overtaken has read, will read, or could not
  read, each change that is shown" (`ShownIsReadAgain`); a link that was made stays when
  a later build fails to make it again, so that `unlinked` takes nothing that is shown.
  A build that starts reads everything, so it is never overtaken
  by one that ended before. `WakeupsKeptInService` carries the debouncer's invariants
  over to the service, where several informers call it and a restart drops it
  half-way: what the extended module says of its own `Next` is proved again for the
  steps the service takes. `ServiceCoalesces` maps every step of the service to one of
  `CoalescedRebuild`, or to a restart, which leaves the queue as it starts.
* **ErrorPropagation.** `OnlyNewerWavesWrite` needs that a handler's timestamp and blast
  radius still pass the check when it writes, which holds since only its own handler
  writes an object. `WavesReachEveryone` needs, for each link, that the timestamp of the
  source has arrived, is carried by a wave, is about to be sent by the source's handler,
  or was kept away by a failing call or a late link; for a handler under way, that each
  neighbour is among those it will signal or was not linked when it started
  (`ChecksHold`). `PodErrorShown` needs, for each pod, that a build is to come, a signal
  waits, a handler has read the present restart count, or what is written is right
  (`Tracked`), unless no build has asked the pod since: a signal of a build carries a
  timestamp of its own and radius 0, so no check drops it. That this last excuse takes a
  pod without an owner or a call that failed is `NewsIsAsked`: a restarted pod with an
  owner is asked by the build its informer asks for. `NothingElseOverlooked` is about
  graphs with one path from a pod to an object (`SinglePaths`: each object has a level,
  links lead from one level to the next and no two paths of a pod meet again) and
  timestamps that differ (0 is no clock step). Without these it is false: a wave that
  comes by the shorter of two paths may pass before the neighbour on the longer one is
  infected. On such graphs a timestamp is a wave of one pod (`OneSource`), its radius at
  an object is the level (`RadiusFits`), and it moves on, so nothing comes back to where
  it was (`MovesOn`); hence an object that handles a wave reads its neighbour after that
  neighbour has written the same wave, or a newer one (`NoneMissed`). The layers that
  `build` and the post-processes link (pods, node, machine or server) have this shape,
  and the graph of `ErrorLayered` is one. `NoErrorMissedOrKept` states
  `InfectionIsExact` where every pod has a tree of its own, with any links back to
  objects above (`LinkedAsTrees`: objects rely on their parent, and otherwise on objects
  below them or outside the trees; only pods are deleted), for any clock, ties included:
  the graph of `ErrorCyclic` is one. The invariant (`TreeFits`) holds until a call fails
  or a handler overlooks a late link (`Undisturbed`). An object counts nobody but its
  parent, since those below it carry a greater radius; for each link of the tree the
  child is not ahead of its parent, the last wave of the parent is known to the child or
  on its way (`Coming`), and what the child writes for that wave is what the parent says
  (`Agreeing`) unless the parent is a pod with another wave to come. A pod without an
  owner starts no wave (`BareSilent`), so that what lies behind it may miss its error,
  and no other's. Where pods share an object the statement is false, and the run of it
  has one pod: the wave of a healthy pod may arrive first, and the older one, which
  carries the error, is dropped (`error_propagate.go:66`).
* **InfraTwin.** `LatestSnapshotShown` needs `FreshReading`: what the adapter has
  read is what is stored, or another announcement of that source is to come.
  `LinksMatchListing` is inductive together with "a host is linked only to its own
  machines" (`LinksInv`), which holds of hosts reconciled in part as well: hence what one
  host deletes is never another's. `HypervisorsNeedKvm` follows stored and read lsmod snapshots.
* **ShadowLinks.** `IInv` says of each pass: it is asked to run again, is spoiled, or
  what it has read is still so and what it has done need not be redone. A change asks
  everyone, a start has read nothing, and a pass that nobody disturbs computes
  from lists that are true. The deletion of a pod asks nobody: what m3 has read may
  then hold a pod that is gone, but no other (`late`, which only that deletion
  extends and only the next read empties). `ShadowsSettle` and `LiveShadowsStay`
  follow.
* **ArchModel.** `ArchitectureIsSource` needs `SourceIsUnderway` (the stored
  document is still to be announced, to be read, being built, built or dropped)
  and `BuildIsOnTrack` (what the graph holds at each phase of a build).
  `ImplementsFollower` maps every step to one of `DocumentFollower` or to none: steps in
  the middle of a build are not seen (`MiddleOfBuild`), the last one installs the
  document, which by `BuildIsOnTrack` is in the graph, and one that gives up leaves the
  other models untold (`BuildIsQuiet`). `DocumentFollower` is safety only, so that the
  whole of `FollowerSpec` is proved. `DocumentsFollowed` then needs nothing of the
  build: whatever follows documents has the last one due, in work or shown.
* **Lshw.** Both theorems hold whichever calls fail, for one snapshot or for many.
  `EveryDeviceShown` and `NothingInvented` assume that every snapshot `IsWalkedRight`
  and nothing else of the trees. The first is not inductive and need not be: whatever
  the state before, a snapshot writes and links all it mentions (`WhatIsWritten`). The
  second is inductive, since a merge takes every field from the new snapshot or from the
  object.
* **Datacenter.** `OnePassSuffices` needs that an undisturbed pass is the only one,
  and that shadows, links and findings are right for every model it is done with.

Only model-checked: everything that is liveness (`EveryMarkAnswered`,
`AppliedIsShown`, `WavesDieOut`, `FileIsBuilt`, `ModelsAreFollowed`, the fairness
part of `CoalescedSpec`), since liveness under fairness is out of the prover's
reach; and `WalkIsRight`, since what a recursive walk finds in every tree takes an
induction over trees.

## 5. Assumptions about the runtime

The SDK is not part of the repository. From how the code uses it: signals of
the same function to the same object are handled one at a time
(`m1/connectors/server/ingest.go:15-16`), others concurrently; m1 and m3 allow
several instances of `PropagateError`, which is taken to concern different objects;
`Signal` is asynchronous and unordered; `ObjectUpdate` makes or deep-merges an
object; `ObjectDelete` removes it with its links; a read sees the latest write.

## 6. Not modelled

* Dump mode, the remote shell, start-up code and names are listed in
  `PROJECT.json` with the reason: input and output, or sequential code that is done
  once.
* A service name or uuid used by two objects (`KeysAssumption` of `ShadowLinks`).
* The bodies of Kubernetes objects (`watcher.go` 131-257), the links and sums that
  `build` computes from them: a change is a member of a set.
* In `ErrorPropagation` links are made while waves travel, and go with their objects
  for good; a shadow that is cleared and made anew, with its links, is not modelled.
* Postponement for ever by changes that come closer than 300 ms apart: real time.
* A node that reports its uuid in upper case is matched by one side only
  (`m1/adapters/infra/post_process.go:110`); `ShadowLinks` has it (`UpperUID`), the
  runs use lower case, the theorems hold for both.
* A workload that found only a wrong block, through its image, while the
  architecture was rebuilt keeps that link (`m2/cn_ad/k8s/post_process.go:93`);
  `ShadowLinks` has the step, and no property excludes such links.

## 7. Plan

1. An abstract specification "shadows follow the other model" that `ShadowLinks`
   implements where no call fails.
2. Pure functions: the transformation of listings by the agent, resource sums.
