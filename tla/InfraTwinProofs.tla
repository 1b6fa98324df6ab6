-------------------------- MODULE InfraTwinProofs ---------------------------
(***************************************************************************)
(* Proofs about InfraTwin, for any hosts, machines, deployed connectors    *)
(* and bounds.  The strengthening says that a connector function announces *)
(* one source at a time, that the adapter has read one source at a time,   *)
(* and that what it has read is what is stored unless the source is on its *)
(* way again.                                                              *)
(***************************************************************************)
EXTENDS InfraTwin, FiniteSetTheorems, TLAPS

LEMMA SourceParts ==
  \A s \in Sources :
    /\ s = <<s[1], s[2]>>
    /\ s[1] \in Functions
    /\ s[1] \in HostFunctions => s[2] \in Hosts
    /\ s[1] \notin HostFunctions => s[1] = "vm_lshw" /\ s[2] \in VMs
BY DEF Sources, HostFunctions

LEMMA OutputsAreSnapshots ==
  \A s \in Sources : Output(s) \subseteq Snapshots
<1> SUFFICES ASSUME NEW s \in Sources, NEW c \in Output(s) PROVE c \in Snapshots
  OBVIOUS
<1>1. CASE s[1] = "lsmod"
  BY <1>1 DEF Output, Snapshots
<1>2. CASE s[1] = "vagrant"
  BY <1>2 DEF Output, Snapshots, Guests
<1>3. CASE s[1] \notin {"lsmod", "vagrant"}
  BY <1>3 DEF Output, Snapshots
<1> QED
  BY <1>1, <1>2, <1>3

\* A listing of machines has a size.
LEMMA ListingIsFinite ==
  \A raw \in SUBSET VMs : Cardinality(raw) \in Nat
BY HostsAssumption, FS_Subset, FS_CardinalityType

\* What the adapter has read of vagrant is a listing.
Listings ==
  /\ \A s \in Sources :
       s[1] = "vagrant" => stored[s] \in (SUBSET Guests(s[2])) \cup {NoData, Absent}
  /\ \A r \in reading :
       r.source[1] = "vagrant" => r.raw \in (SUBSET Guests(r.source[2])) \cup {NoData}
  /\ \A s \in Sources :
       s[1] = "vagrant" => shown[s] \in (SUBSET Guests(s[2])) \cup {Absent}

\* A signal is only sent for a source that is stored.
Announced ==
  \A s \in Sources : OnItsWay(s) => stored[s] # Absent

OneAtATime ==
  /\ \A f \in Functions : \A s, t \in notifying[f] : s = t
  /\ \A f \in Functions : \A s \in notifying[f] : s[1] = f
  /\ \A r, q \in reading : r = q

IInv == TypeOK /\ Listings /\ Announced /\ OneAtATime

LEMMA InitIInv == Init => IInv
<1> SUFFICES ASSUME Init PROVE IInv
  OBVIOUS
<1>1. TypeOK
  BY DEF Init, TypeOK
<1>2. Listings
  BY DEF Init, Listings
<1>3. Announced
  BY SourceParts DEF Init, Announced, OnItsWay
<1>4. OneAtATime
  BY DEF Init, OneAtATime
<1> QED
  BY <1>1, <1>2, <1>3, <1>4 DEF IInv

LEMMA AbsentIsNoSnapshot == Absent \notin Snapshots
BY SnapshotAssumption DEF Snapshots

-----------------------------------------------------------------------------
(* The inductive invariant, one lemma per action.                          *)

LEMMA StepIngest ==
  ASSUME IInv, NEW s \in Sources, IngestSource(s)
  PROVE  IInv'
<1> USE DEF IInv
<1>1. PICK c \in Output(s) :
        /\ listed' = Listing(s, c)
        /\ IngestReturns(s, c) \/ IngestStores(s, c)
  BY DEF IngestSource
<1>2. /\ UNCHANGED <<kvmHosts, pending, reading, twin, skipped>>
      /\ notifying[s[1]] = {}
  BY DEF IngestSource
<1>3. c \in Snapshots /\ c # Absent
  BY OutputsAreSnapshots, AbsentIsNoSnapshot
<1>4. /\ s[1] \in Functions
      /\ s[1] = "vagrant" => /\ c \in (SUBSET Guests(s[2])) \cup {NoData}
                            /\ s[2] \in Hosts
  BY SourceParts DEF Output, Guests, HostFunctions
<1>5. listed' \in [Hosts -> SUBSET VMs]
  BY <1>1, <1>4 DEF TypeOK, Listing, Guests
<1>6. CASE IngestReturns(s, c)
  <2>1. /\ UNCHANGED <<stored, notifying>>
        /\ dropped' \subseteq dropped \cup {s}
        /\ failures' \in Nat
    BY <1>6 DEF IngestReturns, Drops, excuses, TypeOK
  <2>2. TypeOK'
    BY <1>2, <1>5, <2>1 DEF TypeOK, twin
  <2>3. Listings' /\ Announced' /\ OneAtATime'
    BY <1>2, <2>1 DEF Listings, Announced, OnItsWay, OneAtATime, twin
  <2> QED
    BY <2>2, <2>3
<1>7. CASE IngestStores(s, c)
  <2>1. /\ stored' = [stored EXCEPT ![s] = c]
        /\ notifying' = [notifying EXCEPT ![s[1]] = {s}]
        /\ UNCHANGED dropped
        /\ failures' \in Nat
    BY <1>7 DEF IngestStores, TypeOK
  <2>2. TypeOK'
    BY <1>2, <1>3, <1>4, <1>5, <2>1 DEF TypeOK, twin
  <2>3. Listings'
    BY <1>2, <1>4, <2>1 DEF Listings, TypeOK, twin
  <2>4. Announced'
    <3> SUFFICES ASSUME NEW t \in Sources, OnItsWay(t)' PROVE stored'[t] # Absent
      BY DEF Announced
    <3>1. CASE t = s
      BY <3>1, <1>3, <2>1 DEF TypeOK
    <3>2. CASE t # s
      <4>1. OnItsWay(t)
        BY <3>2, <1>2, <1>4, <2>1, SourceParts DEF OnItsWay, TypeOK
      <4> QED
        BY <4>1, <3>2, <2>1 DEF Announced, TypeOK
    <3> QED
      BY <3>1, <3>2
  <2>5. OneAtATime'
    BY <1>2, <1>4, <2>1 DEF OneAtATime, TypeOK
  <2> QED
    BY <2>2, <2>3, <2>4, <2>5
<1> QED
  BY <1>1, <1>6, <1>7

LEMMA StepNotify ==
  ASSUME IInv, NEW f \in Functions, NotifyAdapters(f)
  PROVE  IInv'
<1> USE DEF IInv
<1>1. PICK s \in notifying[f] :
        \/ pending' = [pending EXCEPT ![s] = @ + 1] /\ UNCHANGED excuses
        \/ Drops(s) /\ UNCHANGED pending
  BY DEF NotifyAdapters
<1>2. /\ notifying' = [notifying EXCEPT ![f] = {}]
      /\ UNCHANGED <<kvmHosts, listed, stored, reading, twin, skipped>>
  BY DEF NotifyAdapters
<1>3. s \in Sources /\ s[1] = f
  BY <1>1 DEF TypeOK, OneAtATime
<1>4. TypeOK'
  BY <1>1, <1>2, <1>3 DEF TypeOK, Drops, excuses, twin
<1>5. Listings'
  BY <1>2 DEF Listings, twin
<1>6. Announced'
  <2> SUFFICES ASSUME NEW t \in Sources, OnItsWay(t)' PROVE OnItsWay(t)
    BY <1>2 DEF Announced
  <2>1. CASE t = s
    BY <2>1, <1>1, <1>3 DEF OnItsWay
  <2>2. CASE t # s
    BY <2>2, <1>1, <1>2, <1>3, SourceParts DEF OnItsWay, TypeOK
  <2> QED
    BY <2>1, <2>2
<1>7. OneAtATime'
  BY <1>2 DEF OneAtATime, TypeOK
<1> QED
  BY <1>4, <1>5, <1>6, <1>7

LEMMA StepRead ==
  ASSUME IInv, NEW s \in Sources, AdapterReads(s)
  PROVE  IInv'
<1> USE DEF IInv
<1>1. /\ reading = {}
      /\ pending[s] > 0
      /\ pending' = [pending EXCEPT ![s] = @ - 1]
      /\ UNCHANGED <<kvmHosts, listed, stored, notifying, twin, skipped>>
  BY DEF AdapterReads, connectors
<1>2. \/ reading' = {[source |-> s, raw |-> stored[s]]} /\ dropped' = dropped \ {s}
                                                        /\ UNCHANGED failures
      \/ Drops(s) /\ UNCHANGED reading
  BY DEF AdapterReads
<1>3. stored[s] # Absent
  BY <1>1 DEF Announced, OnItsWay
<1>4. stored[s] \in Snapshots
  BY <1>3 DEF TypeOK
<1>5. pending'[s] \in Nat
  BY <1>1 DEF TypeOK
<1>6. TypeOK'
  <2>1. pending' \in [Sources -> Nat]
    BY <1>1, <1>5 DEF TypeOK
  <2>2. reading' \subseteq [source : Sources, raw : Snapshots]
    BY <1>2, <1>4, <1>1
  <2>3. dropped' \subseteq Sources /\ failures' \in Nat
    BY <1>2 DEF TypeOK, Drops
  <2> QED
    BY <1>1, <2>1, <2>2, <2>3 DEF TypeOK, twin
<1>7. Listings'
  BY <1>1, <1>2, <1>3 DEF Listings, twin
<1>8. Announced'
  <2> SUFFICES ASSUME NEW t \in Sources, OnItsWay(t)' PROVE OnItsWay(t)
    BY <1>1 DEF Announced
  <2>1. CASE t = s
    BY <2>1, <1>1 DEF OnItsWay
  <2>2. CASE t # s
    BY <2>2, <1>1, <1>2 DEF OnItsWay, TypeOK
  <2> QED
    BY <2>1, <2>2
<1>9. OneAtATime'
  BY <1>1, <1>2 DEF OneAtATime
<1> QED
  BY <1>6, <1>7, <1>8, <1>9

\* What the adapter reconciles: one source, with what was read of it.
LEMMA ReconciledRecord ==
  ASSUME IInv, AdapterReconciles
  PROVE  \E s \in Sources, raw \in Snapshots :
           /\ reading = {[source |-> s, raw |-> raw]}
           /\ Reconcile(s[1], s[2], raw)
           /\ s[1] = "vagrant" => raw \in (SUBSET Guests(s[2])) \cup {NoData}
<1>1. PICK r \in reading : Reconcile(r.source[1], r.source[2], r.raw)
  BY DEF AdapterReconciles
<1>2. /\ r.source \in Sources
      /\ r.raw \in Snapshots
      /\ r = [source |-> r.source, raw |-> r.raw]
  BY DEF IInv, TypeOK
<1>3. reading = {r}
  BY DEF IInv, OneAtATime
<1>4. r.source[1] = "vagrant" => r.raw \in (SUBSET Guests(r.source[2])) \cup {NoData}
  BY DEF IInv, Listings
<1> QED
  BY <1>1, <1>2, <1>3, <1>4

LEMMA ShowIsTyped ==
  ASSUME IInv, NEW s \in Sources, NEW raw \in Snapshots
  PROVE  /\ Show(s, raw) \in [Sources -> Snapshots \cup {Absent}]
         /\ \A t \in Sources : t # s => Show(s, raw)[t] = shown[t]
         /\ raw # NoData => Show(s, raw)[s] = raw
BY DEF Show, IInv, TypeOK

LEMMA StepReconcile ==
  ASSUME IInv, AdapterReconciles
  PROVE  IInv'
<1> USE DEF IInv
<1>1. PICK s \in Sources, raw \in Snapshots :
        /\ reading = {[source |-> s, raw |-> raw]}
        /\ Reconcile(s[1], s[2], raw)
        /\ s[1] = "vagrant" => raw \in (SUBSET Guests(s[2])) \cup {NoData}
  BY ReconciledRecord
<1>2. reading' = {} /\ UNCHANGED <<connectors, pending, excuses>>
  BY DEF AdapterReconciles
<1>3. /\ servers' \subseteq Hosts
      /\ hypervisors' \subseteq Hosts
      /\ machines' \subseteq VMs
      /\ linked' \subseteq Hosts \X VMs
      /\ vmCount' \in [Hosts -> Nat]
      /\ partial' \subseteq Hosts
      /\ skipped' \subseteq Sources
      /\ shown' \in [Sources -> Snapshots \cup {Absent}]
      /\ \A t \in Sources : t[1] = "vagrant" => shown'[t] \in (SUBSET Guests(t[2])) \cup {Absent}
  <2>1. CASE s[1] = "server_lshw" /\ ReconcileLshwServer(s[2], raw)
    <3>1. s = <<"server_lshw", s[2]>> /\ s[2] \in Hosts
      BY <2>1, SourceParts DEF HostFunctions
    <3>2. shown' = Show(s, raw)
      BY <2>1, <3>1 DEF ReconcileLshwServer
    <3>3. shown' \in [Sources -> Snapshots \cup {Absent}]
      BY <3>2, ShowIsTyped
    <3>4. \A t \in Sources : t[1] = "vagrant" => shown'[t] = shown[t]
      BY <2>1, <3>2, ShowIsTyped
    <3> QED
      BY <2>1, <3>1, <3>3, <3>4 DEF ReconcileLshwServer, TypeOK, Listings
  <2>2. CASE s[1] = "lsmod" /\ ReconcileLsmod(s[2], raw)
    <3>1. s = <<"lsmod", s[2]>> /\ s[2] \in Hosts
      BY <2>2, SourceParts DEF HostFunctions
    <3>2. shown' = Show(s, raw) \/ shown' = shown
      BY <2>2, <3>1 DEF ReconcileLsmod, twin
    <3> QED
      BY <2>2, <3>1, <3>2, ShowIsTyped DEF ReconcileLsmod, TypeOK, Listings, twin
  <2>3. CASE s[1] = "vagrant" /\ ReconcileVagrant(s[2], raw)
    <3>1. s = <<"vagrant", s[2]>> /\ s[2] \in Hosts
      BY <2>3, SourceParts DEF HostFunctions
    <3>2. CASE UNCHANGED <<machines, linked, vmCount, shown, partial>>
      BY <2>3, <3>1, <3>2 DEF ReconcileVagrant, TypeOK, Listings, twin
    <3>3. CASE /\ raw # NoData
               /\ s[2] \in hypervisors
               /\ servers' = servers \cup {s[2]}
               /\ skipped' = skipped \ {s}
               /\ UNCHANGED hypervisors
               /\ machines' = (machines \cup raw) \ Stale(s[2], raw)
               /\ linked' = {e \in linked : e[2] \notin Stale(s[2], raw)} \cup ({s[2]} \X raw)
               /\ vmCount' = [vmCount EXCEPT ![s[2]] = Cardinality(raw)]
               /\ shown' = [t \in Sources |->
                    CASE t = s -> raw
                      [] t[1] = "vm_lshw" /\ t[2] \in Stale(s[2], raw) -> NoData
                      [] OTHER -> shown[t]]
               /\ partial' = partial \ {s[2]}
      <4>1. /\ raw \in SUBSET Guests(s[2])
            /\ raw \in SUBSET VMs
            /\ Cardinality(raw) \in Nat
        BY <1>1, <2>3, <3>3, ListingIsFinite DEF Guests
      <4>2. /\ \A t \in Sources : shown'[t] \in {raw, NoData, shown[t]}
            /\ NoData \in Snapshots
        BY <3>3 DEF Snapshots
      <4>3. \A t \in Sources : t[1] = "vagrant" => shown'[t] \in {raw, shown[t]}
        BY <3>3, SourceParts
      <4> QED
        BY <3>1, <3>3, <4>1, <4>2, <4>3 DEF TypeOK, Listings
    <3> QED
      BY <2>3, <3>1, <3>2, <3>3 DEF ReconcileVagrant, twin
  <2>4. CASE s[1] = "vm_lshw" /\ ReconcileLshwVM(s[2], raw)
    <3>1. s = <<"vm_lshw", s[2]>> /\ s[2] \in VMs
      BY <2>4, SourceParts DEF HostFunctions
    <3>2. shown' = Show(s, raw)
      BY <2>4, <3>1 DEF ReconcileLshwVM
    <3>3. shown' \in [Sources -> Snapshots \cup {Absent}]
      BY <3>2, ShowIsTyped
    <3>4. \A t \in Sources : t[1] = "vagrant" => shown'[t] = shown[t]
      BY <2>4, <3>2, ShowIsTyped
    <3> QED
      BY <2>4, <3>1, <3>3, <3>4 DEF ReconcileLshwVM, TypeOK, Listings
  <2> QED
    BY <1>1, <2>1, <2>2, <2>3, <2>4 DEF Reconcile
<1>4. TypeOK'
  BY <1>2, <1>3 DEF TypeOK, connectors, excuses
<1>5. Listings'
  BY <1>2, <1>3 DEF Listings, connectors
<1>6. Announced'
  BY <1>2 DEF Announced, OnItsWay, connectors
<1>7. OneAtATime'
  BY <1>2 DEF OneAtATime, connectors
<1> QED
  BY <1>4, <1>5, <1>6, <1>7

\* What is reconciled in part is one source, as what is reconciled whole.
LEMMA RecordInPart ==
  ASSUME IInv, AdapterReconcilesInPart
  PROVE  \E s \in Sources, raw \in Snapshots :
           /\ reading = {[source |-> s, raw |-> raw]}
           /\ InPart(s[1], s[2], raw)
           /\ Drops(s)
           /\ skipped' = skipped \ {s}
           /\ s[1] = "vagrant" => raw \in (SUBSET Guests(s[2])) \cup {NoData}
<1>1. PICK r \in reading : /\ InPart(r.source[1], r.source[2], r.raw)
                           /\ Drops(r.source)
                           /\ skipped' = skipped \ {r.source}
  BY DEF AdapterReconcilesInPart
<1>2. /\ r.source \in Sources
      /\ r.raw \in Snapshots
      /\ r = [source |-> r.source, raw |-> r.raw]
  BY DEF IInv, TypeOK
<1>3. reading = {r}
  BY DEF IInv, OneAtATime
<1>4. r.source[1] = "vagrant" => r.raw \in (SUBSET Guests(r.source[2])) \cup {NoData}
  BY DEF IInv, Listings
<1> QED
  BY <1>1, <1>2, <1>3, <1>4

\* A failing call leaves another source's snapshot shown, or its machine deleted.
LEMMA ShownInPart ==
  ASSUME IInv, NEW s \in Sources, NEW raw \in Snapshots, InPart(s[1], s[2], raw)
  PROVE  /\ \A t \in Sources :
              \/ shown'[t] = shown[t]
              \/ t[1] = "vm_lshw" /\ shown'[t] = NoData
              \/ t = s /\ shown'[t] = raw /\ raw # NoData
         /\ shown' \in [Sources -> Snapshots \cup {Absent}]
<1>0. NoData \in Snapshots
  BY DEF Snapshots
<1>1. CASE shown' \in {shown, Show(s, raw)}
  BY <1>1 DEF Show, IInv, TypeOK
<1>2. CASE s[1] = "server_lshw" /\ LshwServerInPart(s[2], raw)
  BY <1>1, <1>2, SourceParts DEF LshwServerInPart, Updated
<1>3. CASE s[1] = "lsmod" /\ LsmodInPart(s[2], raw)
  BY <1>1, <1>3, SourceParts DEF LsmodInPart, Updated
<1>4. CASE s[1] = "vagrant" /\ VagrantInPart(s[2], raw)
  <2>1. s = <<"vagrant", s[2]>>
    BY <1>4, SourceParts
  <2>2. CASE raw = NoData
    BY <1>4, <2>2 DEF VagrantInPart, IInv, TypeOK
  <2>3. CASE raw # NoData
    <3>1. PICK gone \in SUBSET Stale(s[2], raw), updated \in BOOLEAN :
            shown' = [t \in Sources |->
              CASE t = s /\ updated -> raw
                [] t[1] = "vm_lshw" /\ t[2] \in gone -> NoData
                [] OTHER -> shown[t]]
      <4>1. PICK gone \in SUBSET Stale(s[2], raw), made \in SUBSET raw :
              \E updated \in BOOLEAN :
                shown' = [t \in Sources |->
                  CASE t = <<"vagrant", s[2]>> /\ updated -> raw
                    [] t[1] = "vm_lshw" /\ t[2] \in gone -> NoData
                    [] OTHER -> shown[t]]
        BY <1>4, <2>3 DEF VagrantInPart
      <4> QED
        BY <2>1, <4>1
    <3>2. \A t \in Sources :
            \/ shown'[t] = shown[t]
            \/ t[1] = "vm_lshw" /\ shown'[t] = NoData
            \/ t = s /\ shown'[t] = raw /\ raw # NoData
      BY <2>3, <3>1
    <3>3. DOMAIN shown' = Sources /\ shown' = [t \in Sources |-> shown'[t]]
      BY <3>1
    <3> QED
      BY <1>0, <3>2, <3>3 DEF IInv, TypeOK
  <2> QED
    BY <2>2, <2>3
<1>5. CASE s[1] = "vm_lshw" /\ LshwVMInPart(s[2], raw)
  BY <1>1, <1>5, SourceParts DEF LshwVMInPart, Updated
<1> QED
  BY <1>2, <1>3, <1>4, <1>5 DEF InPart

LEMMA StepInPart ==
  ASSUME IInv, AdapterReconcilesInPart
  PROVE  IInv'
<1> USE DEF IInv
<1>1. PICK s \in Sources, raw \in Snapshots :
        /\ reading = {[source |-> s, raw |-> raw]}
        /\ InPart(s[1], s[2], raw)
        /\ Drops(s)
        /\ skipped' = skipped \ {s}
        /\ s[1] = "vagrant" => raw \in (SUBSET Guests(s[2])) \cup {NoData}
  BY RecordInPart
<1>2. /\ reading' = {}
      /\ dropped' \subseteq Sources
      /\ failures' \in Nat
      /\ skipped' \subseteq Sources
      /\ UNCHANGED <<connectors, pending>>
  BY <1>1 DEF AdapterReconcilesInPart, Drops, TypeOK
<1>3. /\ servers' \subseteq Hosts
      /\ hypervisors' \subseteq Hosts
      /\ machines' \subseteq VMs
      /\ linked' \subseteq Hosts \X VMs
      /\ vmCount' \in [Hosts -> Nat]
      /\ partial' \subseteq Hosts
  <2>1. CASE s[1] = "server_lshw" /\ LshwServerInPart(s[2], raw)
    <3>1. s[2] \in Hosts
      BY <2>1, SourceParts DEF HostFunctions
    <3> QED
      BY <2>1, <3>1 DEF LshwServerInPart, Ensured, TypeOK
  <2>2. CASE s[1] = "lsmod" /\ LsmodInPart(s[2], raw)
    <3>1. s[2] \in Hosts
      BY <2>2, SourceParts DEF HostFunctions
    <3> QED
      BY <2>2, <3>1 DEF LsmodInPart, Ensured, TypeOK
  <2>3. CASE s[1] = "vagrant" /\ VagrantInPart(s[2], raw)
    <3>1. s[2] \in Hosts
      BY <2>3, SourceParts DEF HostFunctions
    <3>2. servers' \subseteq Hosts /\ hypervisors' \subseteq Hosts
      BY <2>3, <3>1 DEF VagrantInPart, Ensured, TypeOK
    <3>3. CASE raw = NoData
      BY <2>3, <3>2, <3>3 DEF VagrantInPart, TypeOK
    <3>4. CASE raw # NoData
      <4>1. raw \in SUBSET VMs /\ Cardinality(raw) \in Nat
        BY <1>1, <2>3, <3>4, ListingIsFinite DEF Guests
      <4>2. PICK gone \in SUBSET Stale(s[2], raw), made \in SUBSET raw :
              /\ machines' = (machines \cup made) \ gone
              /\ \E ends \in SUBSET (raw \cap machines') :
                   linked' = {e \in linked : e[2] \notin gone} \cup ({s[2]} \X ends)
        BY <2>3, <3>4 DEF VagrantInPart
      <4>3. machines' \subseteq VMs /\ linked' \subseteq Hosts \X VMs
        BY <3>1, <4>1, <4>2 DEF TypeOK
      <4>4. /\ vmCount' \in {vmCount, [vmCount EXCEPT ![s[2]] = Cardinality(raw)]}
            /\ partial' = partial \cup {s[2]}
        BY <2>3, <3>4 DEF VagrantInPart
      <4> QED
        BY <3>1, <3>2, <4>1, <4>3, <4>4 DEF TypeOK
    <3> QED
      BY <3>3, <3>4
  <2>4. CASE s[1] = "vm_lshw" /\ LshwVMInPart(s[2], raw)
    <3>1. s[2] \in VMs
      BY <2>4, SourceParts DEF HostFunctions
    <3> QED
      BY <2>4, <3>1 DEF LshwVMInPart, Ensured, TypeOK
  <2> QED
    BY <1>1, <2>1, <2>2, <2>3, <2>4 DEF InPart
<1>4. TypeOK'
  BY <1>1, <1>2, <1>3, ShownInPart DEF TypeOK, connectors
<1>5. Listings'
  <2>1. \A t \in Sources : t[1] = "vagrant" => shown'[t] \in (SUBSET Guests(t[2])) \cup {Absent}
    BY <1>1, ShownInPart DEF Listings
  <2> QED
    BY <1>2, <2>1 DEF Listings, connectors
<1>6. Announced'
  BY <1>2 DEF Announced, OnItsWay, connectors
<1>7. OneAtATime'
  BY <1>2 DEF OneAtATime, connectors
<1> QED
  BY <1>4, <1>5, <1>6, <1>7

LEMMA StepProbeFails ==
  ASSUME IInv, ProbeFails
  PROVE  IInv'
<1>1. /\ reading' = {}
      /\ dropped' \subseteq dropped \cup Sources
      /\ failures' \in Nat
      /\ UNCHANGED <<connectors, pending, twin, skipped>>
  BY DEF ProbeFails, Drops, IInv, TypeOK
<1> QED
  BY <1>1 DEF IInv, TypeOK, Listings, Announced, OnItsWay, OneAtATime, connectors, twin

LEMMA StepIInv == IInv /\ [Next]_vars => IInv'
<1> SUFFICES ASSUME IInv, [Next]_vars PROVE IInv'
  OBVIOUS
<1>1. ASSUME NEW s \in Sources, IngestSource(s) PROVE IInv'
  BY <1>1, StepIngest
<1>2. ASSUME NEW s \in Sources, AdapterReads(s) PROVE IInv'
  BY <1>2, StepRead
<1>3. ASSUME NEW f \in Functions, NotifyAdapters(f) PROVE IInv'
  BY <1>3, StepNotify
<1>4. CASE AdapterReconciles
  BY <1>4, StepReconcile
<1>5. CASE ProbeFails
  BY <1>5, StepProbeFails
<1>6. CASE AdapterReconcilesInPart
  BY <1>6, StepInPart
<1>7. CASE UNCHANGED vars
  BY <1>7 DEF vars, connectors, twin, excuses, IInv, TypeOK, Listings, Announced,
              OnItsWay, OneAtATime
<1> QED
  BY <1>1, <1>2, <1>3, <1>4, <1>5, <1>6, <1>7 DEF Next

LEMMA Invariance == Spec => []IInv
<1>1. Init => IInv
  BY InitIInv
<1>2. IInv /\ [Next]_vars => IInv'
  BY StepIInv
<1> QED
  BY <1>1, <1>2, PTL DEF Spec

\* Every variable keeps its type.
THEOREM TypeCorrect == Spec => []TypeOK
<1>1. IInv => TypeOK
  BY DEF IInv
<1> QED
  BY <1>1, Invariance, PTL

-----------------------------------------------------------------------------
(* The latest snapshot is shown.                                           *)

\* What the adapter has read is what is stored, or the source is on its way.
FreshReading ==
  \A r \in reading :
    \/ r.raw = stored[r.source]
    \/ r.source \in notifying[r.source[1]]
    \/ pending[r.source] > 0
    \/ r.source \in dropped

\* Nothing more is to come of s.
Settled(s) ==
  \/ s \in dropped \/ s \in skipped
  \/ stored[s] \in {Absent, NoData, shown[s]}
  \/ s[1] = "lsmod" /\ ~LsmodDetectKVM(stored[s])
  \/ s[1] = "vm_lshw" /\ shown[s] = NoData

ShownInv == FreshReading /\ \A s \in Sources : OnItsWay(s) \/ Settled(s)

LEMMA InitShown == Init => ShownInv
BY DEF Init, ShownInv, FreshReading, Settled

LEMMA IngestShown ==
  ASSUME IInv, ShownInv, NEW s \in Sources, IngestSource(s)
  PROVE  ShownInv'
<1>1. PICK c \in Output(s) : IngestReturns(s, c) \/ IngestStores(s, c)
  BY DEF IngestSource
<1>2. UNCHANGED <<pending, reading, shown, skipped>> /\ notifying[s[1]] = {}
  BY DEF IngestSource, twin
<1>3. CASE IngestReturns(s, c)
  <2>1. UNCHANGED <<stored, notifying>> /\ dropped \subseteq dropped'
    BY <1>3 DEF IngestReturns, Drops, excuses
  <2> QED
    BY <1>2, <2>1 DEF ShownInv, FreshReading, OnItsWay, Settled
<1>4. CASE IngestStores(s, c)
  <2>1. /\ stored' = [stored EXCEPT ![s] = c]
        /\ notifying' = [notifying EXCEPT ![s[1]] = {s}]
        /\ dropped' = dropped
    BY <1>4 DEF IngestStores
  <2>2. s[1] \in Functions /\ s \in notifying'[s[1]]
    BY <2>1, SourceParts DEF IInv, TypeOK
  <2>3. \A t \in Sources \ {s} :
        /\ stored'[t] = stored[t]
        /\ t \in notifying[t[1]] => t \in notifying'[t[1]]
    BY <1>2, <2>1, SourceParts DEF IInv, TypeOK
  <2>4. \A t \in Sources : (OnItsWay(t) \/ Settled(t)) => (OnItsWay(t) \/ Settled(t))'
    BY <1>2, <2>1, <2>2, <2>3 DEF OnItsWay, Settled
  <2>5. FreshReading'
    <3> SUFFICES ASSUME NEW r \in reading
                 PROVE  \/ r.raw = stored'[r.source]
                        \/ r.source \in notifying'[r.source[1]]
                        \/ pending[r.source] > 0
                        \/ r.source \in dropped
      BY <1>2, <2>1 DEF FreshReading
    <3>1. r.source \in Sources
      BY DEF IInv, TypeOK
    <3>2. CASE r.source = s
      BY <3>2, <2>2
    <3>3. CASE r.source # s
      <4>1. /\ stored'[r.source] = stored[r.source]
            /\ r.source \in notifying[r.source[1]] => r.source \in notifying'[r.source[1]]
        BY <3>1, <3>3, <2>3
      <4>2. \/ r.raw = stored[r.source]
            \/ r.source \in notifying[r.source[1]]
            \/ pending[r.source] > 0
            \/ r.source \in dropped
        BY DEF ShownInv, FreshReading
      <4> QED
        BY <4>1, <4>2
    <3> QED
      BY <3>2, <3>3
  <2> QED
    BY <2>4, <2>5 DEF ShownInv
<1> QED
  BY <1>1, <1>3, <1>4

LEMMA NotifyShown ==
  ASSUME IInv, ShownInv, NEW f \in Functions, NotifyAdapters(f)
  PROVE  ShownInv'
<1>1. PICK s \in notifying[f] :
        \/ pending' = [pending EXCEPT ![s] = @ + 1] /\ UNCHANGED excuses
        \/ Drops(s) /\ UNCHANGED pending
  BY DEF NotifyAdapters
<1>2. /\ notifying' = [notifying EXCEPT ![f] = {}]
      /\ UNCHANGED <<stored, reading, shown, skipped>>
  BY DEF NotifyAdapters, twin
<1>3. s \in Sources /\ s[1] = f
  BY <1>1 DEF IInv, TypeOK, OneAtATime
<1>4. pending'[s] > 0 \/ s \in dropped'
  BY <1>1, <1>3 DEF Drops, IInv, TypeOK
<1>5. \A t \in Sources \ {s} :
        /\ pending'[t] = pending[t]
        /\ t \in notifying[t[1]] => t \in notifying'[t[1]]
  BY <1>1, <1>2, <1>3, SourceParts DEF IInv, TypeOK, OneAtATime
<1>6. dropped \subseteq dropped'
  BY <1>1 DEF Drops, excuses
<1>7. \A t \in Sources : (OnItsWay(t) \/ Settled(t)) => (OnItsWay(t) \/ Settled(t))'
  <2> SUFFICES ASSUME NEW t \in Sources, OnItsWay(t) \/ Settled(t)
               PROVE  (OnItsWay(t) \/ Settled(t))'
    OBVIOUS
  <2>1. CASE t = s
    BY <2>1, <1>4 DEF OnItsWay, Settled
  <2>2. CASE t # s /\ OnItsWay(t)
    <3>1. /\ pending'[t] = pending[t]
          /\ t \in notifying[t[1]] => t \in notifying'[t[1]]
      BY <2>2, <1>5
    <3>2. reading' = reading
      BY <1>2
    <3> QED
      BY <2>2, <3>1, <3>2 DEF OnItsWay
  <2>3. CASE Settled(t)
    BY <2>3, <1>2, <1>6 DEF Settled
  <2> QED
    BY <2>1, <2>2, <2>3
<1>8. FreshReading'
  <2> SUFFICES ASSUME NEW r \in reading
               PROVE  \/ r.raw = stored[r.source]
                      \/ r.source \in notifying'[r.source[1]]
                      \/ pending'[r.source] > 0
                      \/ r.source \in dropped'
    BY <1>2 DEF FreshReading
  <2>1. r.source \in Sources
    BY DEF IInv, TypeOK
  <2>2. CASE r.source = s
    BY <2>2, <1>4
  <2>3. CASE r.source # s
    <3>1. /\ pending'[r.source] = pending[r.source]
          /\ r.source \in notifying[r.source[1]] => r.source \in notifying'[r.source[1]]
      BY <2>1, <2>3, <1>5
    <3>2. \/ r.raw = stored[r.source]
          \/ r.source \in notifying[r.source[1]]
          \/ pending[r.source] > 0
          \/ r.source \in dropped
      BY DEF ShownInv, FreshReading
    <3> QED
      BY <3>1, <3>2, <1>6
  <2> QED
    BY <2>2, <2>3
<1> QED
  BY <1>7, <1>8 DEF ShownInv

LEMMA ReadShown ==
  ASSUME IInv, ShownInv, NEW s \in Sources, AdapterReads(s)
  PROVE  ShownInv'
<1>1. /\ reading = {}
      /\ pending' = [pending EXCEPT ![s] = @ - 1]
      /\ UNCHANGED <<stored, notifying, shown, skipped>>
  BY DEF AdapterReads, connectors, twin
<1>2. CASE reading' = {[source |-> s, raw |-> stored[s]]} /\ dropped' = dropped \ {s}
  <2>1. \A t \in Sources : t # s => pending'[t] = pending[t]
    BY <1>1 DEF IInv, TypeOK
  <2>2. OnItsWay(s)'
    BY <1>2 DEF OnItsWay
  <2>3. \A t \in Sources : (OnItsWay(t) \/ Settled(t))'
    BY <1>1, <1>2, <2>1, <2>2 DEF ShownInv, OnItsWay, Settled
  <2>4. FreshReading'
    BY <1>1, <1>2 DEF FreshReading
  <2> QED
    BY <2>3, <2>4 DEF ShownInv
<1>3. CASE Drops(s) /\ UNCHANGED reading
  <2>1. \A t \in Sources : t # s => pending'[t] = pending[t]
    BY <1>1 DEF IInv, TypeOK
  <2>2. dropped' = dropped \cup {s}
    BY <1>3 DEF Drops
  <2>3. \A t \in Sources : (OnItsWay(t) \/ Settled(t))'
    BY <1>1, <1>3, <2>1, <2>2 DEF ShownInv, OnItsWay, Settled
  <2> QED
    BY <1>1, <1>3, <2>3 DEF ShownInv, FreshReading
<1> QED
  BY <1>2, <1>3 DEF AdapterReads

LEMMA ReconcileShown ==
  ASSUME IInv, ShownInv, AdapterReconciles
  PROVE  ShownInv'
<1>1. PICK s \in Sources, raw \in Snapshots :
        /\ reading = {[source |-> s, raw |-> raw]}
        /\ Reconcile(s[1], s[2], raw)
        /\ s[1] = "vagrant" => raw \in (SUBSET Guests(s[2])) \cup {NoData}
  BY ReconciledRecord
<1>2. /\ reading' = {}
      /\ UNCHANGED <<stored, notifying, pending, dropped>>
  BY DEF AdapterReconciles, connectors, excuses
<1>3. \/ raw = stored[s] \/ s \in notifying[s[1]] \/ pending[s] > 0 \/ s \in dropped
  BY <1>1 DEF ShownInv, FreshReading
<1>4. FreshReading'
  BY <1>2 DEF FreshReading
<1>5. /\ \A t \in Sources \ {s} :
           /\ shown'[t] = shown[t] \/ (t[1] = "vm_lshw" /\ shown'[t] = NoData)
           /\ t \in skipped => t \in skipped'
      /\ \/ raw = NoData \/ shown'[s] = raw \/ s \in skipped'
         \/ s[1] = "lsmod" /\ ~LsmodDetectKVM(raw)
  <2>1. CASE s[1] = "server_lshw" /\ ReconcileLshwServer(s[2], raw)
    <3>1. s = <<"server_lshw", s[2]>>
      BY <2>1, SourceParts
    <3>2. shown' = Show(s, raw) /\ skipped' = skipped
      BY <2>1, <3>1 DEF ReconcileLshwServer
    <3> QED
      BY <3>2, ShowIsTyped
  <2>2. CASE s[1] = "lsmod" /\ ReconcileLsmod(s[2], raw)
    <3>1. s = <<"lsmod", s[2]>>
      BY <2>2, SourceParts
    <3>2. CASE LsmodDetectKVM(raw)
      <4>1. shown' = Show(s, raw) /\ skipped' = skipped
        BY <2>2, <3>1, <3>2 DEF ReconcileLsmod
      <4> QED
        BY <4>1, ShowIsTyped
    <3>3. CASE ~LsmodDetectKVM(raw)
      BY <2>2, <3>3 DEF ReconcileLsmod, twin
    <3> QED
      BY <3>2, <3>3
  <2>3. CASE s[1] = "vagrant" /\ ReconcileVagrant(s[2], raw)
    <3>1. s = <<"vagrant", s[2]>>
      BY <2>3, SourceParts
    <3>2. CASE s[2] \notin hypervisors
      BY <2>3, <3>1, <3>2 DEF ReconcileVagrant, twin
    <3>3. CASE s[2] \in hypervisors /\ raw = NoData
      <4>1. skipped' = skipped \ {s} /\ shown' = shown
        BY <2>3, <3>1, <3>3 DEF ReconcileVagrant
      <4> QED
        BY <3>3, <4>1
    <3>4. CASE s[2] \in hypervisors /\ raw # NoData
      <4>1. /\ skipped' = skipped \ {s}
            /\ shown' = [t \in Sources |->
                 CASE t = s -> raw
                   [] t[1] = "vm_lshw" /\ t[2] \in Stale(s[2], raw) -> NoData
                   [] OTHER -> shown[t]]
        BY <2>3, <3>1, <3>4 DEF ReconcileVagrant
      <4>2. shown'[s] = raw
        BY <2>3, <4>1
      <4>3. \A t \in Sources \ {s} :
              shown'[t] = shown[t] \/ (t[1] = "vm_lshw" /\ shown'[t] = NoData)
        BY <4>1
      <4> QED
        BY <4>1, <4>2, <4>3
    <3> QED
      BY <3>2, <3>3, <3>4
  <2>4. CASE s[1] = "vm_lshw" /\ ReconcileLshwVM(s[2], raw)
    <3>1. s = <<"vm_lshw", s[2]>>
      BY <2>4, SourceParts
    <3>2. shown' = Show(s, raw) /\ skipped' = skipped
      BY <2>4, <3>1 DEF ReconcileLshwVM
    <3> QED
      BY <3>2, ShowIsTyped
  <2> QED
    BY <1>1, <2>1, <2>2, <2>3, <2>4 DEF Reconcile
<1>6. ASSUME NEW t \in Sources PROVE (OnItsWay(t) \/ Settled(t))'
  <2>1. CASE t = s
    BY <2>1, <1>2, <1>3, <1>5 DEF OnItsWay, Settled
  <2>2. CASE t # s
    <3>1. OnItsWay(t) \/ Settled(t)
      BY DEF ShownInv
    <3>2. /\ shown'[t] = shown[t] \/ (t[1] = "vm_lshw" /\ shown'[t] = NoData)
          /\ t \in skipped => t \in skipped'
      BY <2>2, <1>5
    <3>3. CASE OnItsWay(t)
      BY <3>3, <2>2, <1>1, <1>2 DEF OnItsWay
    <3>4. CASE Settled(t)
      BY <3>4, <3>2, <1>2 DEF Settled
    <3> QED
      BY <3>1, <3>3, <3>4
  <2> QED
    BY <2>1, <2>2
<1> QED
  BY <1>4, <1>6 DEF ShownInv

LEMMA ProbeFailsShown ==
  ASSUME IInv, ShownInv, ProbeFails
  PROVE  ShownInv'
<1>1. PICK r \in reading : Drops(r.source)
  BY DEF ProbeFails
<1>2. /\ reading = {r}
      /\ r.source \in Sources
  BY <1>1 DEF IInv, OneAtATime, TypeOK
<1>3. /\ reading' = {}
      /\ dropped' = dropped \cup {r.source}
      /\ UNCHANGED <<stored, notifying, pending, shown, skipped>>
  BY <1>1 DEF ProbeFails, Drops, connectors, twin
<1>4. \A t \in Sources : (OnItsWay(t) \/ Settled(t)) => (OnItsWay(t) \/ Settled(t))'
  BY <1>2, <1>3 DEF OnItsWay, Settled
<1> QED
  BY <1>3, <1>4 DEF ShownInv, FreshReading

LEMMA InPartShown ==
  ASSUME IInv, ShownInv, AdapterReconcilesInPart
  PROVE  ShownInv'
<1>1. PICK s \in Sources, raw \in Snapshots :
        /\ reading = {[source |-> s, raw |-> raw]}
        /\ InPart(s[1], s[2], raw)
        /\ Drops(s)
        /\ skipped' = skipped \ {s}
  BY RecordInPart
<1>2. /\ reading' = {}
      /\ dropped' = dropped \cup {s}
      /\ UNCHANGED <<stored, notifying, pending>>
  BY <1>1 DEF AdapterReconcilesInPart, Drops, connectors
<1>3. FreshReading'
  BY <1>2 DEF FreshReading
<1>4. ASSUME NEW t \in Sources PROVE (OnItsWay(t) \/ Settled(t))'
  <2>1. CASE t = s
    BY <2>1, <1>2 DEF Settled
  <2>2. CASE t # s
    <3>1. OnItsWay(t) \/ Settled(t)
      BY DEF ShownInv
    <3>2. /\ shown'[t] = shown[t] \/ (t[1] = "vm_lshw" /\ shown'[t] = NoData)
          /\ t \in skipped => t \in skipped'
      BY <1>1, <2>2, ShownInPart
    <3>3. CASE OnItsWay(t)
      BY <3>3, <2>2, <1>1, <1>2 DEF OnItsWay
    <3>4. CASE Settled(t)
      BY <3>4, <3>2, <1>2 DEF Settled
    <3> QED
      BY <3>1, <3>3, <3>4
  <2> QED
    BY <2>1, <2>2
<1> QED
  BY <1>3, <1>4 DEF ShownInv

LEMMA StepShown == IInv /\ ShownInv /\ [Next]_vars => ShownInv'
<1> SUFFICES ASSUME IInv, ShownInv, [Next]_vars PROVE ShownInv'
  OBVIOUS
<1>1. ASSUME NEW s \in Sources, IngestSource(s) PROVE ShownInv'
  BY <1>1, IngestShown
<1>2. ASSUME NEW s \in Sources, AdapterReads(s) PROVE ShownInv'
  BY <1>2, ReadShown
<1>3. ASSUME NEW f \in Functions, NotifyAdapters(f) PROVE ShownInv'
  BY <1>3, NotifyShown
<1>4. CASE AdapterReconciles
  BY <1>4, ReconcileShown
<1>5. CASE ProbeFails
  BY <1>5, ProbeFailsShown
<1>6. CASE AdapterReconcilesInPart
  BY <1>6, InPartShown
<1>7. CASE UNCHANGED vars
  BY <1>7 DEF vars, connectors, twin, excuses, ShownInv, FreshReading, OnItsWay, Settled
<1> QED
  BY <1>1, <1>2, <1>3, <1>4, <1>5, <1>6, <1>7 DEF Next

\* However signals overtake each other, the twin is left with the latest
\* snapshot of each source that no failure, skip or deletion has cost it.
THEOREM LatestWins == Spec => []LatestSnapshotShown
<1>1. Init => ShownInv
  BY InitShown
<1>2. IInv /\ ShownInv /\ [Next]_vars => ShownInv'
  BY StepShown
<1>3. ShownInv => LatestSnapshotShown
  BY DEF ShownInv, Settled, LatestSnapshotShown
<1> QED
  BY <1>1, <1>2, <1>3, Invariance, PTL DEF Spec

-----------------------------------------------------------------------------
(* Hypervisors are made from lsmod only.                                   *)

KvmInv ==
  /\ HypervisorsNeedKvm
  /\ \A s \in Sources : s[1] = "lsmod" /\ stored[s] \in Snapshots /\ LsmodDetectKVM(stored[s])
        => s[2] \in kvmHosts
  /\ \A r \in reading : r.source[1] = "lsmod" /\ LsmodDetectKVM(r.raw)
        => r.source[2] \in kvmHosts

LEMMA StepKvm == IInv /\ KvmInv /\ [Next]_vars => KvmInv'
<1> SUFFICES ASSUME IInv, KvmInv, [Next]_vars PROVE KvmInv'
  OBVIOUS
<1> USE DEF KvmInv, HypervisorsNeedKvm, LsmodDetectKVM
<1>1. ASSUME NEW s \in Sources, IngestSource(s) PROVE KvmInv'
  <2>1. PICK c \in Output(s) : stored' = stored \/ stored' = [stored EXCEPT ![s] = c]
    BY <1>1 DEF IngestSource, IngestReturns, IngestStores
  <2>2. UNCHANGED <<kvmHosts, reading, hypervisors>>
    BY <1>1 DEF IngestSource, twin
  <2>3. s[1] = "lsmod" /\ "kvm" \in c => s[2] \in kvmHosts
    BY DEF Output
  <2>4. stored' = [stored EXCEPT ![s] = c] =>
          \A t \in Sources : stored'[t] = IF t = s THEN c ELSE stored[t]
    BY DEF IInv, TypeOK
  <2> QED
    BY <2>1, <2>2, <2>3, <2>4
<1>2. ASSUME NEW s \in Sources, AdapterReads(s) PROVE KvmInv'
  <2>1. UNCHANGED <<kvmHosts, stored, hypervisors>> /\ pending[s] > 0
    BY <1>2 DEF AdapterReads, connectors, twin
  <2>2. \/ reading' = {[source |-> s, raw |-> stored[s]]}
        \/ reading' = reading
    BY <1>2 DEF AdapterReads
  <2>3. stored[s] \in Snapshots
    BY <2>1 DEF IInv, TypeOK, Announced, OnItsWay
  <2> QED
    BY <2>1, <2>2, <2>3
<1>3. ASSUME NEW f \in Functions, NotifyAdapters(f) PROVE KvmInv'
  BY <1>3 DEF NotifyAdapters, twin
<1>4. CASE AdapterReconciles
  <2>1. PICK s \in Sources, raw \in Snapshots :
          /\ reading = {[source |-> s, raw |-> raw]}
          /\ Reconcile(s[1], s[2], raw)
    BY <1>4, ReconciledRecord
  <2>2. reading' = {} /\ stored' = stored /\ kvmHosts' = kvmHosts
    BY <1>4 DEF AdapterReconciles, connectors
  <2>3. hypervisors' = hypervisors \/
          (hypervisors' = hypervisors \cup {s[2]} /\ s[1] = "lsmod" /\ LsmodDetectKVM(raw))
    BY <2>1 DEF Reconcile, ReconcileLshwServer, ReconcileLsmod, ReconcileVagrant,
                ReconcileLshwVM, twin
  <2>4. s[1] = "lsmod" /\ LsmodDetectKVM(raw) => s[2] \in kvmHosts
    BY <2>1
  <2> QED
    BY <2>2, <2>3, <2>4
<1>5. CASE ProbeFails
  BY <1>5 DEF ProbeFails, connectors, twin
<1>6. CASE AdapterReconcilesInPart
  <2>1. PICK s \in Sources, raw \in Snapshots :
          /\ reading = {[source |-> s, raw |-> raw]}
          /\ InPart(s[1], s[2], raw)
    BY <1>6, RecordInPart
  <2>2. reading' = {} /\ stored' = stored /\ kvmHosts' = kvmHosts
    BY <1>6 DEF AdapterReconcilesInPart, connectors
  <2>3. hypervisors' = hypervisors \/
          (hypervisors' = hypervisors \cup {s[2]} /\ s[1] = "lsmod" /\ LsmodDetectKVM(raw))
    BY <2>1 DEF InPart, LshwServerInPart, LsmodInPart, VagrantInPart, LshwVMInPart, Ensured
  <2>4. s[1] = "lsmod" /\ LsmodDetectKVM(raw) => s[2] \in kvmHosts
    BY <2>1
  <2> QED
    BY <2>2, <2>3, <2>4
<1>7. CASE UNCHANGED vars
  BY <1>7 DEF vars, connectors, twin
<1> QED
  BY <1>1, <1>2, <1>3, <1>4, <1>5, <1>6, <1>7 DEF Next

\* A host without KVM modules never gets a hypervisor.
THEOREM NoKvmNoHypervisor == Spec => []HypervisorsNeedKvm
<1>1. Init => KvmInv
  BY AbsentIsNoSnapshot DEF Init, KvmInv, HypervisorsNeedKvm
<1>2. KvmInv => HypervisorsNeedKvm
  BY DEF KvmInv
<1> QED
  BY <1>1, <1>2, StepKvm, Invariance, PTL DEF Spec

-----------------------------------------------------------------------------
(* The links of a hypervisor are those of its listing.                     *)

\* A host that was reconciled in part is linked to machines of its own as well.
LinksInv ==
  /\ LinksMatchListing
  /\ \A e \in linked : e[2] \in Guests(e[1])

LEMMA StaleAreGuests ==
  ASSUME LinksInv, NEW h, NEW raw
  PROVE  Stale(h, raw) \subseteq Guests(h)
BY DEF LinksInv, Stale

LEMMA StepLinks == IInv /\ LinksInv /\ [Next]_vars => LinksInv'
<1> SUFFICES ASSUME IInv, LinksInv, [Next]_vars PROVE LinksInv'
  OBVIOUS
<1> USE DEF LinksInv
<1> DEFINE LinkVars == <<hypervisors, servers, machines, linked, vmCount, shown, partial>>
<1>1. ASSUME UNCHANGED LinkVars PROVE LinksInv'
  BY <1>1 DEF LinksMatchListing
<1>2. ASSUME NEW s \in Sources, IngestSource(s) \/ AdapterReads(s) PROVE UNCHANGED LinkVars
  BY <1>2 DEF IngestSource, AdapterReads, twin
<1>3. ASSUME NEW f \in Functions, NotifyAdapters(f) PROVE UNCHANGED LinkVars
  BY <1>3 DEF NotifyAdapters, twin
<1>4. CASE AdapterReconciles
  <2>1. PICK s \in Sources, raw \in Snapshots :
          /\ Reconcile(s[1], s[2], raw)
          /\ s[1] = "vagrant" => raw \in (SUBSET Guests(s[2])) \cup {NoData}
    BY <1>4, ReconciledRecord
  <2>2. s = <<s[1], s[2]>>
    BY SourceParts
  <2>3. CASE /\ \A h \in Hosts : <<"vagrant", h>> \in Sources =>
                    shown'[<<"vagrant", h>>] = shown[<<"vagrant", h>>]
             /\ UNCHANGED <<linked, vmCount, partial>>
             /\ machines \subseteq machines' /\ hypervisors \subseteq hypervisors'
             /\ hypervisors' \ partial' \subseteq servers'
    <3>1. \A h \in Hosts : "vagrant" \in Functions => <<"vagrant", h>> \in Sources
      BY DEF Sources, HostFunctions
    <3> QED
      BY <2>3, <3>1 DEF LinksMatchListing
  <2>4. CASE s[1] = "server_lshw" /\ ReconcileLshwServer(s[2], raw)
    <3>1. shown' = Show(s, raw)
      BY <2>2, <2>4 DEF ReconcileLshwServer
    <3>2. \A h \in Hosts : <<"vagrant", h>> \in Sources =>
                    shown'[<<"vagrant", h>>] = shown[<<"vagrant", h>>]
      BY <2>2, <2>4, <3>1, ShowIsTyped
    <3> QED
      BY <2>3, <2>4, <3>2 DEF ReconcileLshwServer, LinksMatchListing
  <2>5. CASE s[1] = "lsmod" /\ ReconcileLsmod(s[2], raw)
    <3>1. shown' = Show(s, raw) \/ shown' = shown
      BY <2>2, <2>5 DEF ReconcileLsmod, twin
    <3>2. \A h \in Hosts : <<"vagrant", h>> \in Sources =>
                    shown'[<<"vagrant", h>>] = shown[<<"vagrant", h>>]
      BY <2>2, <2>5, <3>1, ShowIsTyped
    <3> QED
      BY <2>3, <2>5, <3>2 DEF ReconcileLsmod, twin, LinksMatchListing
  <2>6. CASE s[1] = "vm_lshw" /\ ReconcileLshwVM(s[2], raw)
    <3>1. shown' = Show(s, raw)
      BY <2>2, <2>6 DEF ReconcileLshwVM
    <3>2. \A h \in Hosts : <<"vagrant", h>> \in Sources =>
                    shown'[<<"vagrant", h>>] = shown[<<"vagrant", h>>]
      BY <2>2, <2>6, <3>1, ShowIsTyped
    <3> QED
      BY <2>3, <2>6, <3>2 DEF ReconcileLshwVM, LinksMatchListing
  <2>7. CASE s[1] = "vagrant" /\ ReconcileVagrant(s[2], raw)
    <3> DEFINE h == s[2]
    <3>1. s = <<"vagrant", h>> /\ h \in Hosts /\ "vagrant" \in Functions
      BY <2>2, <2>7, SourceParts DEF HostFunctions
    <3>2. CASE h \notin hypervisors
      BY <1>1, <2>7, <3>2 DEF ReconcileVagrant, twin
    <3>3. CASE h \in hypervisors /\ raw = NoData
      <4>1. /\ servers' = servers \cup {h}
            /\ UNCHANGED <<hypervisors, machines, linked, vmCount, shown, partial>>
        BY <2>7, <3>3 DEF ReconcileVagrant
      <4> QED
        BY <4>1 DEF LinksMatchListing
    <3>4. CASE h \in hypervisors /\ raw # NoData
      <4>1. /\ hypervisors' = hypervisors
            /\ servers' = servers \cup {h}
            /\ machines' = (machines \cup raw) \ Stale(h, raw)
            /\ linked' = {e \in linked : e[2] \notin Stale(h, raw)} \cup ({h} \X raw)
            /\ vmCount' = [vmCount EXCEPT ![h] = Cardinality(raw)]
            /\ shown' = [t \in Sources |->
                 CASE t = s -> raw
                   [] t[1] = "vm_lshw" /\ t[2] \in Stale(h, raw) -> NoData
                   [] OTHER -> shown[t]]
            /\ partial' = partial \ {h}
        BY <2>7, <3>1, <3>4 DEF ReconcileVagrant
      <4>2. raw \in SUBSET Guests(h) /\ raw \subseteq VMs /\ raw # Absent
        BY <2>1, <2>7, <3>4, AbsentIsNoSnapshot DEF Guests
      <4>3. Stale(h, raw) = {v \in VMs : <<h, v>> \in linked} \ raw
        BY DEF Stale
      <4>4. \A e \in linked' : e[1] \in hypervisors' /\ e[2] \in machines'
        BY <3>4, <4>1, <4>3 DEF LinksMatchListing
      <4>5. hypervisors' \ partial' \subseteq servers'
        BY <4>1 DEF LinksMatchListing
      <4>6. ASSUME NEW g \in Hosts \ partial'
            PROVE  LET listing == shown'[<<"vagrant", g>>]
                       guests  == {v \in VMs : <<g, v>> \in linked'} IN
                   /\ guests = IF listing = Absent THEN {} ELSE listing
                   /\ vmCount'[g] = Cardinality(guests)
        <5>1. <<"vagrant", g>> \in Sources
          BY <3>1 DEF Sources, HostFunctions
        <5>2. CASE g = h
          <6>1. {v \in VMs : <<h, v>> \in linked'} = raw
            BY <4>1, <4>2, <4>3 DEF IInv, TypeOK
          <6>2. shown'[s] = raw /\ vmCount'[h] = Cardinality(raw)
            BY <3>1, <4>1 DEF IInv, TypeOK
          <6> QED
            BY <3>1, <4>2, <5>2, <6>1, <6>2
        <5>3. CASE g # h
          <6>1. {v \in VMs : <<g, v>> \in linked} \subseteq Guests(g)
            OBVIOUS
          <6>2. Stale(h, raw) \subseteq Guests(h)
            BY StaleAreGuests
          <6>3. {v \in VMs : <<g, v>> \in linked'} = {v \in VMs : <<g, v>> \in linked}
            BY <4>1, <5>3, <6>1, <6>2 DEF Guests
          <6>4. shown'[<<"vagrant", g>>] = shown[<<"vagrant", g>>] /\ vmCount'[g] = vmCount[g]
            BY <3>1, <4>1, <5>1, <5>3 DEF IInv, TypeOK
          <6>5. g \in Hosts \ partial
            BY <4>1, <5>3
          <6> QED
            BY <3>1, <6>3, <6>4, <6>5 DEF LinksMatchListing
        <5> QED
          BY <5>2, <5>3
      <4>7. \A e \in linked' : e[2] \in Guests(e[1])
        BY <4>1, <4>2
      <4> QED
        BY <4>4, <4>5, <4>6, <4>7 DEF LinksMatchListing
    <3> QED
      BY <3>2, <3>3, <3>4
  <2> QED
    BY <2>1, <2>4, <2>5, <2>6, <2>7 DEF Reconcile
<1>5. CASE ProbeFails
  BY <1>1, <1>5 DEF ProbeFails, twin
<1>6. CASE AdapterReconcilesInPart
  <2>1. PICK s \in Sources, raw \in Snapshots :
          /\ InPart(s[1], s[2], raw)
          /\ s[1] = "vagrant" => raw \in (SUBSET Guests(s[2])) \cup {NoData}
    BY <1>6, RecordInPart
  <2>2. s = <<s[1], s[2]>>
    BY SourceParts
  <2>3. ASSUME s[1] # "vagrant"
        PROVE  \A h \in Hosts : "vagrant" \in Functions =>
                 shown'[<<"vagrant", h>>] = shown[<<"vagrant", h>>]
    <3>1. \A h \in Hosts : "vagrant" \in Functions => <<"vagrant", h>> \in Sources
      BY DEF Sources, HostFunctions
    <3> QED
      BY <2>1, <2>3, <3>1, ShownInPart
  <2>4. CASE s[1] = "server_lshw" /\ LshwServerInPart(s[2], raw)
    BY <2>3, <2>4 DEF LshwServerInPart, Ensured, LinksMatchListing
  <2>5. CASE s[1] = "lsmod" /\ LsmodInPart(s[2], raw)
    BY <2>3, <2>5 DEF LsmodInPart, Ensured, LinksMatchListing
  <2>6. CASE s[1] = "vm_lshw" /\ LshwVMInPart(s[2], raw)
    BY <2>3, <2>6 DEF LshwVMInPart, Ensured, LinksMatchListing
  <2>7. CASE s[1] = "vagrant" /\ VagrantInPart(s[2], raw)
    <3> DEFINE h == s[2]
    <3>1. s = <<"vagrant", h>> /\ h \in Hosts /\ "vagrant" \in Functions
      BY <2>2, <2>7, SourceParts DEF HostFunctions
    <3>2. /\ h \in hypervisors
          /\ servers' \in Ensured(servers, h)
          /\ hypervisors' = hypervisors
      BY <2>7 DEF VagrantInPart
    <3>3. CASE raw = NoData
      BY <2>7, <3>2, <3>3 DEF VagrantInPart, Ensured, LinksMatchListing
    <3>4. CASE raw # NoData
      <4>1. PICK gone \in SUBSET Stale(h, raw), made \in SUBSET raw :
              /\ machines' = (machines \cup made) \ gone
              /\ \E ends \in SUBSET (raw \cap machines') :
                   linked' = {e \in linked : e[2] \notin gone} \cup ({h} \X ends)
        BY <2>7, <3>4 DEF VagrantInPart
      <4>2. PICK ends \in SUBSET (raw \cap machines') :
              linked' = {e \in linked : e[2] \notin gone} \cup ({h} \X ends)
        BY <4>1
      <4>3. /\ vmCount' \in {vmCount, [vmCount EXCEPT ![h] = Cardinality(raw)]}
            /\ partial' = partial \cup {h}
        BY <2>7, <3>4 DEF VagrantInPart
      <4>4. raw \subseteq Guests(h)
        BY <2>1, <2>7, <3>4
      <4>5. \A e \in linked' : e[1] \in hypervisors' /\ e[2] \in machines' /\ e[2] \in Guests(e[1])
        BY <3>2, <4>1, <4>2, <4>4 DEF LinksMatchListing
      <4>6. hypervisors' \ partial' \subseteq servers'
        BY <3>2, <4>3 DEF Ensured, LinksMatchListing
      <4>7. ASSUME NEW g \in Hosts \ partial'
            PROVE  LET listing == shown'[<<"vagrant", g>>]
                       guests  == {v \in VMs : <<g, v>> \in linked'} IN
                   /\ guests = IF listing = Absent THEN {} ELSE listing
                   /\ vmCount'[g] = Cardinality(guests)
        <5>1. g # h /\ g \in Hosts \ partial
          BY <4>3
        <5>2. <<"vagrant", g>> \in Sources
          BY <3>1 DEF Sources, HostFunctions
        <5>3. gone \subseteq Guests(h)
          BY <4>1, StaleAreGuests
        <5>4. {v \in VMs : <<g, v>> \in linked'} = {v \in VMs : <<g, v>> \in linked}
          BY <4>2, <5>1, <5>3 DEF Guests
        <5>5. shown'[<<"vagrant", g>>] = shown[<<"vagrant", g>>]
          BY <2>1, <3>1, <5>1, <5>2, ShownInPart
        <5>6. vmCount'[g] = vmCount[g]
          BY <4>3, <5>1 DEF IInv, TypeOK
        <5> QED
          BY <3>1, <5>1, <5>4, <5>5, <5>6 DEF LinksMatchListing
      <4> QED
        BY <4>5, <4>6, <4>7 DEF LinksMatchListing
    <3> QED
      BY <3>3, <3>4
  <2> QED
    BY <2>1, <2>4, <2>5, <2>6, <2>7 DEF InPart
<1>7. CASE UNCHANGED vars
  BY <1>1, <1>7 DEF vars, twin
<1> QED
  BY <1>1, <1>2, <1>3, <1>4, <1>5, <1>6, <1>7 DEF Next

\* The machines linked under a hypervisor, and their count, are those of the
\* snapshot it carries, unless a call failed in its last reconciliation.
THEOREM LinksCorrect == Spec => []LinksMatchListing
<1>1. Init => LinksInv
  <2> SUFFICES ASSUME Init PROVE LinksInv
    OBVIOUS
  <2>1. \A h \in Hosts : {v \in VMs : <<h, v>> \in linked} = {} /\ vmCount[h] = 0
    BY DEF Init
  <2>2. Cardinality({}) = 0
    BY FS_EmptySet
  <2>3. \A h \in Hosts : "vagrant" \in Functions => shown[<<"vagrant", h>>] = Absent
    BY DEF Init, Sources, HostFunctions
  <2> QED
    BY <2>1, <2>2, <2>3 DEF Init, LinksInv, LinksMatchListing
<1>2. LinksInv => LinksMatchListing
  BY DEF LinksInv
<1> QED
  BY <1>1, <1>2, StepLinks, Invariance, PTL DEF Spec
=============================================================================
