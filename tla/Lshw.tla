-------------------------------- MODULE Lshw --------------------------------
(***************************************************************************)
(* The hardware of one server or machine: reconcileLshwGeneric, which      *)
(* keeps an object for each component that the walk of a tree finds        *)
(* (LshwTree).  One step is one snapshot: the adapter handles one signal   *)
(* at a time and nobody else writes these objects.  The update of a        *)
(* component, or its link, may fail; the code ignores it and goes on.      *)
(*                                                                         *)
(* A component is <<kind, place>>: disks, RAM sticks and network adapters  *)
(* are named by their place among their kind.                              *)
(***************************************************************************)
EXTENDS Naturals, Sequences, SequencesExt

CONSTANTS
  Snapshots,     \* what agents may publish
  MaxSnapshots,  \* bound on the snapshots that are handled
  MaxFailing,    \* bound on the calls that fail for one snapshot
  MaxFailures,   \* bound on the snapshots for which calls fail
  Found(_),      \* what the walk finds in a snapshot: LshwTree, Components
  There(_)       \* what is there: LshwTree, DevicesIn

Lists == {"disk", "ram", "nic"}
Firsts == {"cpu", "bios"}

\* The server's own entries have no object of their own.
Server == <<"server", 0>>
OfServer == {Server, <<"virt", 0>>}
Kinds == Lists \cup Firsts \cup {"server", "virt", "sn"}
Fields == {"product", "size", "serial", "ip", "uuid", "virt"}

\* The fields of each component that is found, for each snapshot.
Hardware == [p \in Snapshots |-> Found(p)]

\* Of each device of a snapshot what it states, and the serials below it.
Devices == [p \in Snapshots |-> There(p)]

ASSUME BoundAssumption ==
  MaxSnapshots \in Nat /\ MaxFailing \in Nat /\ MaxFailures \in Nat
ASSUME HardwareAssumption ==
  \A p \in Snapshots : \A c \in DOMAIN Hardware[p] :
    c \in Kinds \X Nat /\ DOMAIN Hardware[p][c] \subseteq Fields
ASSUME DevicesAssumption ==
  \A p \in Snapshots : DOMAIN Devices[p] \subseteq (Lists \cup Firsts) \X Nat

VARIABLES
  objects,  \* the component objects, and what each shows
  linked,   \* components linked from the server
  history,  \* the snapshots handled so far
  missed,   \* components a call for which failed in the last step
  failures  \* number of snapshots for which calls failed

vars == <<objects, linked, history, missed, failures>>

-----------------------------------------------------------------------------
Init ==
  /\ objects = [c \in {Server} |-> <<>>]
  /\ linked = {}
  /\ history = <<>>
  /\ missed = {}
  /\ failures = 0

\* Faulty variant: what is shown already wins.
MergeKeeping(old, new) ==
  [f \in DOMAIN old \cup DOMAIN new |-> IF f \in DOMAIN old THEN old[f] ELSE new[f]]

\* ObjectUpdate(..., false, ...): new fields win, fields that are not stated stay.
Merge(old, new) ==
  [f \in DOMAIN old \cup DOMAIN new |-> IF f \in DOMAIN new THEN new[f] ELSE old[f]]

\* Faulty variant: a link is made whether or not its object is there.
LinkedAnyway(names, objs) == names

\* ObjectsLinkUpdate fails when there is no such object.
Linked(names, objs) == names \cap DOMAIN objs

\* The calls that may fail together: none, or up to MaxFailing of them.
Failing ==
  [p \in Snapshots |->
    {{}} \cup {Range(calls) : calls \in
                [1 .. MaxFailing -> {"update", "link"} \X DOMAIN Hardware[p]]}]

\* The components that calls of one kind are for.
Of(call, failing) == {d[2] : d \in {e \in failing : e[1] = call}}

\* A snapshot is handled; the updates of some components and the links to
\* others fail.
reconcileLshwGeneric(p, noUpdate, noLink) ==
  LET new == Hardware[p]
      written == DOMAIN new \ noUpdate
  IN  /\ objects' = [c \in DOMAIN objects \cup written |->
                       IF c \notin written THEN objects[c]
                       ELSE IF c \in DOMAIN objects THEN Merge(objects[c], new[c])
                       ELSE new[c]]
      /\ linked' = linked \cup Linked(DOMAIN new \ (OfServer \cup noLink), objects')
      /\ missed' = noUpdate \cup noLink
      /\ history' = Append(history, p)

Next ==
  /\ Len(history) < MaxSnapshots
  /\ \E p \in Snapshots : \E failing \in Failing[p] :
       /\ reconcileLshwGeneric(p, Of("update", failing), Of("link", failing))
       /\ \/ failing = {} /\ UNCHANGED failures
          \/ failing # {} /\ failures < MaxFailures /\ failures' = failures + 1

Spec == Init /\ [][Next]_vars

-----------------------------------------------------------------------------
\* What an object of a kind shows of a node that states it itself.
FieldsOf(kind) ==
  CASE kind \in Firsts -> {"product"}
    [] kind = "nic" -> {"product", "serial", "ip"}
    [] OTHER -> {"product", "size", "serial"}

\* Of processors and firmware only the first is looked for.
IsLookedFor(c) == c[1] \in Lists \/ c[2] = 0

\* The walk finds every device of a snapshot, at whatever depth of the tree, with
\* what the device itself states, ...
EveryDeviceIsFound(p) ==
  \A c \in DOMAIN Devices[p] : IsLookedFor(c) =>
    /\ c \in DOMAIN Hardware[p]
    /\ \A f \in FieldsOf(c[1]) \cap DOMAIN Devices[p][c].says :
         /\ f \in DOMAIN Hardware[p][c]
         /\ Hardware[p][c][f] = Devices[p][c].says[f]

\* A device states a value of a field: itself, or for a serial number of a disk
\* or RAM stick, by a node below it.
States(p, c, f, value) ==
  /\ c \in DOMAIN Devices[p]
  /\ \/ f \in DOMAIN Devices[p][c].says /\ value = Devices[p][c].says[f]
     \/ c[1] # "nic" /\ f = "serial" /\ value \in Devices[p][c].serials

\* ... and no disk, RAM stick or adapter that is not there, nor a value that is
\* another's.
OnlyDevicesAreFound(p) ==
  \A c \in DOMAIN Hardware[p] : c[1] \in Lists =>
    \A f \in DOMAIN Hardware[p][c] : States(p, c, f, Hardware[p][c][f])

IsWalkedRight(p) == EveryDeviceIsFound(p) /\ OnlyDevicesAreFound(p)

-----------------------------------------------------------------------------
TypeOK ==
  /\ history \in Seq(Snapshots)
  /\ Len(history) <= MaxSnapshots
  /\ Server \in DOMAIN objects
  /\ linked \subseteq DOMAIN objects \ OfServer
  /\ \A c \in DOMAIN objects : DOMAIN objects[c] \subseteq Fields
  /\ failures \in Nat

\* Functional correctness: what walkLshw and the searches built on it find in the
\* tree of a snapshot is what its paths in document order say is there, each
\* device under its place among its kind.
WalkIsRight == history # <<>> => IsWalkedRight(Last(history))

\* Safety: every device the last snapshot names, at whatever depth of the tree,
\* has its object, linked, with all the device itself states; processors and
\* firmware the first of them.  A failing call costs its own component only.
EveryDeviceIsShown ==
  history # <<>> =>
    LET devices == Devices[Last(history)]
    IN  \A c \in DOMAIN devices : IsLookedFor(c) /\ c \notin missed =>
          /\ c \in linked
          /\ \A f \in FieldsOf(c[1]) \cap DOMAIN devices[c].says :
               objects[c][f] = devices[c].says[f]

\* Safety: an object mixes what the devices at its place stated over time, and
\* nothing of any other device.
NothingIsInvented ==
  \A c \in DOMAIN objects : c[1] \in Lists =>
    \A f \in DOMAIN objects[c] :
      \E i \in DOMAIN history : States(history[i], c, f, objects[c][f])
=============================================================================
