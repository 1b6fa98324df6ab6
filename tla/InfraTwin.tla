----------------------------- MODULE InfraTwin ------------------------------
(***************************************************************************)
(* The infrastructure model m1, from the inventory agents to the digital   *)
(* twin.  The agent of a host runs its discovery commands in a loop and    *)
(* publishes each output to a connector function (agent.sh); the connector *)
(* stores it as a raw source object, drops it when the stored body is the  *)
(* same, and signals the adapter (ingest.go, notifyAdapters); the adapter  *)
(* reads the source again and reconciles servers, hypervisors and virtual  *)
(* machines with it (infraPushUpdate).                                     *)
(*                                                                         *)
(* A connector function handles one message at a time, and so does the     *)
(* adapter; the signals between them carry no snapshot, only the name of   *)
(* its source, and arrive in any order.  The content of a snapshot is the  *)
(* set of things it mentions: KVM modules, virtual machines, hardware.     *)
(* Any call may fail: some make a handler return, those that write the     *)
(* twin are ignored, so that a reconciliation is done in part.             *)
(***************************************************************************)
EXTENDS Naturals, FiniteSets

CONSTANTS
  Hosts,       \* bare-metal servers, each with an inventory agent
  VMs,         \* virtual machines, by their Vagrant id
  HostOf,      \* HostOf[v]: the host that v runs on
  Functions,   \* push_update functions of the connectors that are deployed
  NoData,      \* the snapshot {}, published when a command gives no JSON
  Absent,      \* no snapshot
  MaxPending,  \* bound on the signals not handled to their end when a source is stored
  MaxFailures  \* bound on the steps in which calls fail

ASSUME HostsAssumption ==
  /\ Hosts \cap VMs = {}
  /\ HostOf \in [VMs -> Hosts]
  /\ IsFiniteSet(VMs)
ASSUME SnapshotAssumption ==
  /\ NoData # Absent
  /\ \A S \in SUBSET (VMs \cup {"kvm", "hardware"}) : S # NoData /\ S # Absent
ASSUME BoundsAssumption == MaxPending \in Nat \ {0} /\ MaxFailures \in Nat

Guests(h) == {v \in VMs : HostOf[v] = h}

\* A source is named after the function that stores it and the machine it
\* describes.
HostFunctions == {"server_lshw", "lsmod", "vagrant"}
Sources ==
  ((Functions \cap HostFunctions) \X Hosts) \cup ((Functions \cap {"vm_lshw"}) \X VMs)

ASSUME FunctionsAssumption == Functions \subseteq HostFunctions \cup {"vm_lshw"}

Snapshots == (SUBSET (VMs \cup {"kvm", "hardware"})) \cup {NoData}

VARIABLES
  kvmHosts,     \* hosts on which KVM modules may be loaded; never changes
  listed,       \* listed[h]: machines whose lshw the agent of h will publish
  stored,       \* stored[s]: body of the raw source object
  notifying,    \* notifying[f]: what function f has stored and not announced, at most one source
  pending,      \* pending[s]: signals of s to the adapter
  reading,      \* what the adapter has read and not reconciled, at most one record
  servers,      \* server objects of the twin
  hypervisors,  \* hypervisor objects, named by their host
  machines,     \* virtual machine objects
  linked,       \* links hypervisor -> virtual machine: pairs <<h, v>>
  vmCount,      \* summary.vm_count of the hypervisors
  shown,        \* shown[s]: the snapshot that the object of s was last updated with,
                \*   NoData when the object was deleted since
  partial,      \* hosts whose hypervisor was reconciled in part, and no listing whole since
  skipped,      \* sources whose last reading was skipped for want of a hypervisor
  dropped,      \* sources whose last change was dropped because a call failed
  failures      \* number of steps in which calls failed

connectors == <<kvmHosts, listed, stored, notifying>>
twin == <<servers, hypervisors, machines, linked, vmCount, shown, partial>>
excuses == <<dropped, failures>>
vars == <<connectors, pending, reading, twin, skipped, excuses>>

Init ==
  /\ kvmHosts \in SUBSET Hosts
  /\ listed = [h \in Hosts |-> {}]
  /\ stored = [s \in Sources |-> Absent]
  /\ notifying = [f \in Functions |-> {}]
  /\ pending = [s \in Sources |-> 0]
  /\ reading = {}
  /\ servers = {}
  /\ hypervisors = {}
  /\ machines = {}
  /\ linked = {}
  /\ vmCount = [h \in Hosts |-> 0]
  /\ shown = [s \in Sources |-> Absent]
  /\ partial = {}
  /\ skipped = {}
  /\ dropped = {}
  /\ failures = 0

-----------------------------------------------------------------------------
(* The hosts and their agents.                                             *)

\* What a command may give.  Modules are loaded and machines created and
\* destroyed at any time.  A failing lsmod or vagrant prints nothing, which
\* becomes an empty list; a listing that cannot be parsed becomes {}.
Output(s) ==
  CASE s[1] = "lsmod"   -> IF s[2] \in kvmHosts THEN {{"kvm"}, {}} ELSE {{}}
    [] s[1] = "vagrant" -> (SUBSET Guests(s[2])) \cup {NoData}
    [] OTHER            -> {{"hardware"}, NoData}

\* The agent publishes the hardware of the machines it has just listed.
Published(s) == s[1] = "vm_lshw" => s[2] \in listed[HostOf[s[2]]]

Listing(s, c) ==
  IF s[1] = "vagrant"
    THEN [listed EXCEPT ![s[2]] = IF c = NoData THEN {} ELSE c]
    ELSE listed

-----------------------------------------------------------------------------
(* ingestSource of the connectors.                                         *)

\* A call on behalf of s fails: what it was to bring about is dropped.
Drops(s) ==
  /\ failures < MaxFailures
  /\ failures' = failures + 1
  /\ dropped' = dropped \cup {s}

\* The stored body is the same, or ObjectUpdate fails: nothing is announced.
IngestReturns(s, c) ==
  /\ UNCHANGED <<stored, notifying>>
  /\ \/ c = stored[s] /\ UNCHANGED excuses
     \/ c # stored[s] /\ Drops(s)

\* The signals that wait or are about to be sent (0).
Unhandled ==
  {w \in Sources \X (0 .. MaxPending) :
     IF w[2] = 0 THEN w[1] \in notifying[w[1][1]] ELSE w[2] <= pending[w[1]]}

\* Faulty variant: nothing is announced while the adapter handles the source.
IngestSkipsBusy(s, c) ==
  /\ \/ c # stored[s] /\ UNCHANGED failures
     \/ c = stored[s] /\ failures < MaxFailures /\ failures' = failures + 1
  /\ Cardinality(Unhandled) + Cardinality(reading) < MaxPending
  /\ stored' = [stored EXCEPT ![s] = c]
  /\ notifying' = [notifying EXCEPT ![s[1]] =
                    IF \E r \in reading : r.source = s THEN {} ELSE {s}]
  /\ UNCHANGED dropped

\* The body differs, or cannot be read for the comparison.
IngestStores(s, c) ==
  /\ \/ c # stored[s] /\ UNCHANGED failures
     \/ c = stored[s] /\ failures < MaxFailures /\ failures' = failures + 1
  /\ Cardinality(Unhandled) + Cardinality(reading) < MaxPending
  /\ stored' = [stored EXCEPT ![s] = c]
  /\ notifying' = [notifying EXCEPT ![s[1]] = {s}]
  /\ UNCHANGED dropped

IngestSource(s) ==
  /\ notifying[s[1]] = {}
  /\ Published(s)
  /\ \E c \in Output(s) :
       /\ listed' = Listing(s, c)
       /\ IngestReturns(s, c) \/ IngestStores(s, c)
  /\ UNCHANGED <<kvmHosts, pending, reading, twin, skipped>>

\* notifyAdapters ignores what fails: the query, the adapter's object, Signal.
NotifyAdapters(f) ==
  /\ \E s \in notifying[f] :
       \/ /\ pending' = [pending EXCEPT ![s] = @ + 1]
          /\ UNCHANGED excuses
       \/ Drops(s) /\ UNCHANGED pending
  /\ notifying' = [notifying EXCEPT ![f] = {}]
  /\ UNCHANGED <<kvmHosts, listed, stored, reading, twin, skipped>>

-----------------------------------------------------------------------------
(* infraPushUpdate of the adapter.                                         *)

\* Faulty variant: the adapter reads without a signal.
AdapterReadsUnasked(s) ==
  /\ reading = {}
  /\ pending' = [pending EXCEPT ![s] = @ - 1]
  /\ reading' = {[source |-> s, raw |-> stored[s]]}
  /\ dropped' = dropped \ {s}
  /\ UNCHANGED <<connectors, twin, skipped, failures>>

\* The source is read when the signal is handled, or cannot be read.
AdapterReads(s) ==
  /\ reading = {}
  /\ pending[s] > 0
  /\ pending' = [pending EXCEPT ![s] = @ - 1]
  /\ \/ /\ reading' = {[source |-> s, raw |-> stored[s]]}
        /\ dropped' = dropped \ {s}
        /\ UNCHANGED failures
     \/ Drops(s) /\ UNCHANGED reading
  /\ UNCHANGED <<connectors, twin, skipped>>

\* A snapshot without data is merged into the object and changes nothing.
Show(s, raw) == IF raw = NoData THEN shown ELSE [shown EXCEPT ![s] = raw]

ReconcileLshwServer(h, raw) ==
  /\ servers' = servers \cup {h}
  /\ shown' = Show(<<"server_lshw", h>>, raw)
  /\ UNCHANGED <<hypervisors, machines, linked, vmCount, partial, skipped>>

LsmodDetectKVM(raw) == raw # NoData /\ "kvm" \in raw

ReconcileLsmod(h, raw) ==
  IF LsmodDetectKVM(raw)
    THEN /\ servers' = servers \cup {h}
         /\ hypervisors' = hypervisors \cup {h}
         /\ shown' = Show(<<"lsmod", h>>, raw)
         /\ UNCHANGED <<machines, linked, vmCount, partial, skipped>>
    ELSE UNCHANGED <<twin, skipped>>

\* Faulty variant: the machines of every host are looked at.
StaleOfAnyHost(h, desired) == machines \ desired

\* The machines linked under h and not in the snapshot.
Stale(h, desired) == {v \in VMs : <<h, v>> \in linked} \ desired

\* Faulty variant: the hypervisor is made when it is not there.
VagrantMakesHypervisor(h, raw) ==
  /\ servers' = servers \cup {h}
  /\ hypervisors' = hypervisors \cup {h}
  /\ UNCHANGED <<machines, linked, vmCount, shown, partial, skipped>>

ReconcileVagrant(h, raw) ==
  LET s == <<"vagrant", h>> IN
  \/ /\ h \notin hypervisors
     /\ skipped' = skipped \cup {s}
     /\ UNCHANGED twin
  \/ /\ h \in hypervisors
     /\ servers' = servers \cup {h}
     /\ skipped' = skipped \ {s}
     /\ UNCHANGED hypervisors
     /\ IF raw = NoData
          THEN UNCHANGED <<machines, linked, vmCount, shown, partial>>
          ELSE /\ machines' = (machines \cup raw) \ Stale(h, raw)
               /\ linked' = {e \in linked : e[2] \notin Stale(h, raw)} \cup ({h} \X raw)
               /\ vmCount' = [vmCount EXCEPT ![h] = Cardinality(raw)]
               /\ shown' = [t \in Sources |->
                    CASE t = s -> raw
                      [] t[1] = "vm_lshw" /\ t[2] \in Stale(h, raw) -> NoData
                      [] OTHER -> shown[t]]
               /\ partial' = partial \ {h}

ReconcileLshwVM(v, raw) ==
  /\ machines' = machines \cup {v}
  /\ shown' = Show(<<"vm_lshw", v>>, raw)
  /\ UNCHANGED <<servers, hypervisors, linked, vmCount, partial, skipped>>

\* The adapter is the only writer of the twin, so what one signal makes it
\* write is one step.  The signals to the post-processes leave this model.
Reconcile(f, id, raw) ==
  \/ f = "server_lshw" /\ ReconcileLshwServer(id, raw)
  \/ f = "lsmod" /\ ReconcileLsmod(id, raw)
  \/ f = "vagrant" /\ ReconcileVagrant(id, raw)
  \/ f = "vm_lshw" /\ ReconcileLshwVM(id, raw)

AdapterReconciles ==
  /\ \E r \in reading : Reconcile(r.source[1], r.source[2], r.raw)
  /\ reading' = {}
  /\ UNCHANGED <<connectors, pending, excuses>>

\* Calls of a reconciliation fail, and it goes on: an object is not made, or not
\* updated with the snapshot; an object that is not there has no update.
Ensured(objs, o) == {objs, objs \cup {o}}
Updated(s, raw, made) == {shown} \cup (IF made THEN {Show(s, raw)} ELSE {})

LshwServerInPart(h, raw) ==
  /\ servers' \in Ensured(servers, h)
  /\ shown' \in Updated(<<"server_lshw", h>>, raw, h \in servers')
  /\ UNCHANGED <<hypervisors, machines, linked, vmCount, partial>>

LsmodInPart(h, raw) ==
  /\ LsmodDetectKVM(raw)
  /\ servers' \in Ensured(servers, h)
  /\ hypervisors' \in Ensured(hypervisors, h)
  /\ shown' \in Updated(<<"lsmod", h>>, raw, h \in hypervisors')
  /\ partial' = partial \cup {h}
  /\ UNCHANGED <<machines, linked, vmCount>>

\* Some stale machines stay; some that are listed are not made, or not linked; the
\* count stays, or what the hypervisor shows.
VagrantInPart(h, raw) ==
  /\ h \in hypervisors
  /\ servers' \in Ensured(servers, h)
  /\ UNCHANGED hypervisors
  /\ IF raw = NoData
       THEN UNCHANGED <<machines, linked, vmCount, shown, partial>>
       ELSE /\ \E gone \in SUBSET Stale(h, raw), made \in SUBSET raw :
                 /\ machines' = (machines \cup made) \ gone
                 /\ \E ends \in SUBSET (raw \cap machines') :
                      linked' = {e \in linked : e[2] \notin gone} \cup ({h} \X ends)
                 /\ \E updated \in BOOLEAN :
                      shown' = [t \in Sources |->
                        CASE t = <<"vagrant", h>> /\ updated -> raw
                          [] t[1] = "vm_lshw" /\ t[2] \in gone -> NoData
                          [] OTHER -> shown[t]]
            /\ vmCount' \in {vmCount, [vmCount EXCEPT ![h] = Cardinality(raw)]}
            /\ partial' = partial \cup {h}

LshwVMInPart(v, raw) ==
  /\ machines' \in Ensured(machines, v)
  /\ shown' \in Updated(<<"vm_lshw", v>>, raw, v \in machines')
  /\ UNCHANGED <<servers, hypervisors, linked, vmCount, partial>>

InPart(f, id, raw) ==
  \/ f = "server_lshw" /\ LshwServerInPart(id, raw)
  \/ f = "lsmod" /\ LsmodInPart(id, raw)
  \/ f = "vagrant" /\ VagrantInPart(id, raw)
  \/ f = "vm_lshw" /\ LshwVMInPart(id, raw)

AdapterReconcilesInPart ==
  /\ \E r \in reading :
       /\ InPart(r.source[1], r.source[2], r.raw)
       /\ Drops(r.source)
       /\ skipped' = skipped \ {r.source}
  /\ reading' = {}
  /\ UNCHANGED <<connectors, pending>>

\* The hypervisor of a listing is there but cannot be read: as if it were not.
ProbeFails ==
  /\ \E r \in reading : r.source[1] = "vagrant" /\ r.source[2] \in hypervisors /\ Drops(r.source)
  /\ reading' = {}
  /\ UNCHANGED <<connectors, pending, twin, skipped>>

Next ==
  \/ \E s \in Sources : IngestSource(s) \/ AdapterReads(s)
  \/ \E f \in Functions : NotifyAdapters(f)
  \/ AdapterReconciles
  \/ AdapterReconcilesInPart
  \/ ProbeFails

Spec == Init /\ [][Next]_vars

-----------------------------------------------------------------------------
TypeOK ==
  /\ kvmHosts \subseteq Hosts
  /\ listed \in [Hosts -> SUBSET VMs]
  /\ stored \in [Sources -> Snapshots \cup {Absent}]
  /\ notifying \in [Functions -> SUBSET Sources]
  /\ pending \in [Sources -> Nat]
  /\ reading \subseteq [source : Sources, raw : Snapshots]
  /\ servers \subseteq Hosts
  /\ hypervisors \subseteq Hosts
  /\ machines \subseteq VMs
  /\ linked \subseteq Hosts \X VMs
  /\ vmCount \in [Hosts -> Nat]
  /\ shown \in [Sources -> Snapshots \cup {Absent}]
  /\ partial \subseteq Hosts
  /\ skipped \subseteq Sources
  /\ dropped \subseteq Sources
  /\ failures \in Nat

\* s is on its way from the connector to the adapter.
OnItsWay(s) ==
  \/ s \in notifying[s[1]]
  \/ pending[s] > 0
  \/ \E r \in reading : r.source = s

\* Safety: signals that overtake each other, or that are handled after their
\* source has changed again, never leave the twin with an older snapshot: once
\* no signal of a source is under way, its object shows what is stored, unless
\* a call failed, the snapshot was skipped, its machine was deleted since or
\* there is nothing in it to show.
LatestSnapshotShown ==
  \A s \in Sources :
    \/ OnItsWay(s) \/ s \in dropped \/ s \in skipped
    \/ stored[s] \in {Absent, NoData, shown[s]}
    \/ s[1] = "lsmod" /\ ~LsmodDetectKVM(stored[s])
    \/ s[1] = "vm_lshw" /\ shown[s] = NoData

\* Safety: the machines linked under a hypervisor, and its vm_count, are those
\* of the snapshot the hypervisor carries, whatever arrived in between, and
\* it has its server.  Calls that fail while a host is reconciled cost no other
\* host, and its next listing makes up for them.  Every end of a link is an
\* object of the twin.
LinksMatchListing ==
  /\ "vagrant" \in Functions =>
       \A h \in Hosts \ partial :
         LET listing == shown[<<"vagrant", h>>]
             guests  == {v \in VMs : <<h, v>> \in linked} IN
         /\ guests = IF listing = Absent THEN {} ELSE listing
         /\ vmCount[h] = Cardinality(guests)
  /\ \A e \in linked : e[1] \in hypervisors /\ e[2] \in machines
  /\ hypervisors \ partial \subseteq servers

\* Safety: only a host whose lsmod has shown KVM modules gets a hypervisor,
\* although the adapter also makes one when it handles a listing of machines
\* ("only created if lsmod shows KVM modules", README.md).
HypervisorsNeedKvm == hypervisors \subseteq kvmHosts
=============================================================================
