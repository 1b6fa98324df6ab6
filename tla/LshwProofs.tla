----------------------------- MODULE LshwProofs -----------------------------
(***************************************************************************)
(* Proofs about Lshw, for any snapshots, any number of them and any walk.  *)
(* What the walk finds in a tree is recursive and stays with TLC: that     *)
(* every snapshot IsWalkedRight is a hypothesis where it is needed, and    *)
(* the run Lshw checks it of its trees (WalkIsRight).                      *)
(***************************************************************************)
EXTENDS Lshw, TLAPS

\* A snapshot is taken note of: the last one is it, the others keep their place.
LEMMA HistoryGrows ==
  ASSUME history \in Seq(Snapshots), NEW p \in Snapshots, history' = Append(history, p)
  PROVE  /\ history' \in Seq(Snapshots)
         /\ history' # <<>>
         /\ Len(history') = Len(history) + 1
         /\ Last(history') = p
         /\ Len(history') \in DOMAIN history' /\ history'[Len(history')] = p
         /\ \A i \in DOMAIN history : i \in DOMAIN history' /\ history'[i] = history[i]
  BY DEF Last

\* What one snapshot writes: a component found and written shows all that was
\* found; every value shown is one that was found or was shown before.
LEMMA WhatIsWritten ==
  ASSUME NEW p \in Snapshots, NEW noUpdate, NEW noLink,
         reconcileLshwGeneric(p, noUpdate, noLink)
  PROVE  /\ DOMAIN objects \subseteq DOMAIN objects'
         /\ DOMAIN objects' \subseteq DOMAIN objects \cup DOMAIN Hardware[p]
         /\ \A c \in DOMAIN Hardware[p] \ noUpdate :
              /\ c \in DOMAIN objects'
              /\ \A f \in DOMAIN Hardware[p][c] : objects'[c][f] = Hardware[p][c][f]
         /\ \A c \in DOMAIN objects' : \A f \in DOMAIN objects'[c] :
              \/ /\ c \in DOMAIN Hardware[p] /\ f \in DOMAIN Hardware[p][c]
                 /\ objects'[c][f] = Hardware[p][c][f]
              \/ /\ c \in DOMAIN objects /\ f \in DOMAIN objects[c]
                 /\ objects'[c][f] = objects[c][f]
<1> DEFINE new == Hardware[p]
           written == DOMAIN new \ noUpdate
<1>1. DOMAIN objects' = DOMAIN objects \cup written
  BY DEF reconcileLshwGeneric
<1>2. \A c \in DOMAIN objects' :
        objects'[c] = IF c \notin written THEN objects[c]
                      ELSE IF c \in DOMAIN objects THEN Merge(objects[c], new[c])
                      ELSE new[c]
  BY DEF reconcileLshwGeneric
<1> HIDE DEF new
<1>3. ASSUME NEW c \in written
      PROVE  \A f \in DOMAIN new[c] : objects'[c][f] = new[c][f]
  <2>1. objects'[c] = IF c \in DOMAIN objects THEN Merge(objects[c], new[c]) ELSE new[c]
    BY <1>1, <1>2, <1>3
  <2> QED
    BY <2>1 DEF Merge
<1>4. ASSUME NEW c \in DOMAIN objects', NEW f \in DOMAIN objects'[c]
      PROVE  \/ /\ c \in DOMAIN new /\ f \in DOMAIN new[c]
                /\ objects'[c][f] = new[c][f]
             \/ /\ c \in DOMAIN objects /\ f \in DOMAIN objects[c]
                /\ objects'[c][f] = objects[c][f]
  <2>1. CASE c \notin written
    BY <1>1, <1>2, <2>1
  <2>2. CASE c \in written /\ c \notin DOMAIN objects
    BY <1>2, <2>2
  <2>3. CASE c \in written /\ c \in DOMAIN objects
    <3>1. objects'[c] = Merge(objects[c], new[c])
      BY <1>2, <2>3
    <3> QED
      BY <1>4, <2>3, <3>1 DEF Merge
  <2> QED
    BY <2>1, <2>2, <2>3
<1> QED
  BY <1>1, <1>3, <1>4 DEF new

-----------------------------------------------------------------------------
(* Types: the history only has snapshots, and a link leads to an object of *)
(* its own.                                                                *)

LEMMA InitTypeOK == Init => TypeOK
  BY BoundAssumption DEF Init, TypeOK, OfServer, Server

\* One snapshot, whatever fails, keeps the types.
LEMMA ReconcileTypeOK ==
  ASSUME TypeOK, NEW p \in Snapshots, NEW noUpdate, NEW noLink,
         Len(history) < MaxSnapshots,
         reconcileLshwGeneric(p, noUpdate, noLink), failures' \in Nat
  PROVE  TypeOK'
<1>1. history \in Seq(Snapshots) /\ history' = Append(history, p)
  BY DEF TypeOK, reconcileLshwGeneric
<1>2. history' \in Seq(Snapshots) /\ Len(history') <= MaxSnapshots
  BY <1>1, HistoryGrows, BoundAssumption
<1>3. Server \in DOMAIN objects' /\ DOMAIN objects \subseteq DOMAIN objects'
  BY WhatIsWritten DEF TypeOK
<1>4. linked' \subseteq DOMAIN objects' \ OfServer
  BY <1>3 DEF TypeOK, reconcileLshwGeneric, Linked
<1>5. \A c \in DOMAIN objects' : DOMAIN objects'[c] \subseteq Fields
  BY WhatIsWritten, HardwareAssumption DEF TypeOK
<1> QED
  BY <1>2, <1>3, <1>4, <1>5 DEF TypeOK

\* Every step of the next-state relation is one snapshot, some calls for which
\* may fail.
LEMMA EveryStepIsASnapshot ==
  ASSUME Next
  PROVE  \E p \in Snapshots : \E noUpdate, noLink :
           /\ Len(history) < MaxSnapshots /\ reconcileLshwGeneric(p, noUpdate, noLink)
           /\ failures' \in {failures, failures + 1}
  BY DEF Next

\* Type correctness, and every component linked from the server has its object:
\* no failing call of a snapshot leaves a link that leads nowhere.
THEOREM TypeCorrect == Spec => []TypeOK
<1>1. ASSUME TypeOK, [Next]_vars
      PROVE  TypeOK'
  <2>1. CASE Next
    <3>1. failures' \in Nat
      BY <1>1, <2>1, EveryStepIsASnapshot DEF TypeOK
    <3> QED
      BY <1>1, <2>1, <3>1, EveryStepIsASnapshot, ReconcileTypeOK
  <2>2. CASE UNCHANGED vars
    BY <1>1, <2>2 DEF TypeOK, vars
  <2> QED
    BY <1>1, <2>1, <2>2
<1> QED
  BY InitTypeOK, <1>1, PTL DEF Spec

-----------------------------------------------------------------------------
(* Every device of the last snapshot is shown.                             *)

\* Whatever the state before, after a snapshot all its devices are shown but for
\* those a call for which failed.
LEMMA ReconcileShows ==
  ASSUME TypeOK, NEW p \in Snapshots, EveryDeviceIsFound(p), NEW noUpdate, NEW noLink,
         reconcileLshwGeneric(p, noUpdate, noLink)
  PROVE  EveryDeviceIsShown'
<1>1. Last(history') = p /\ missed' = noUpdate \cup noLink
  BY HistoryGrows DEF TypeOK, reconcileLshwGeneric
<1> SUFFICES ASSUME NEW c \in DOMAIN Devices[p], IsLookedFor(c),
                    c \notin noUpdate, c \notin noLink
             PROVE  /\ c \in linked'
                    /\ \A f \in FieldsOf(c[1]) \cap DOMAIN Devices[p][c].says :
                         objects'[c][f] = Devices[p][c].says[f]
  BY <1>1 DEF EveryDeviceIsShown, Devices
<1>2. /\ c \in DOMAIN Hardware[p]
      /\ \A f \in FieldsOf(c[1]) \cap DOMAIN Devices[p][c].says :
           f \in DOMAIN Hardware[p][c] /\ Hardware[p][c][f] = Devices[p][c].says[f]
  BY DEF EveryDeviceIsFound
<1>3. /\ c \in DOMAIN objects'
      /\ \A f \in DOMAIN Hardware[p][c] : objects'[c][f] = Hardware[p][c][f]
  BY <1>2, WhatIsWritten
<1>4. c \notin OfServer
  BY DevicesAssumption DEF OfServer, Server, Lists, Firsts
<1>5. c \in linked'
  BY <1>2, <1>3, <1>4 DEF reconcileLshwGeneric, Linked
<1> QED
  BY <1>2, <1>3, <1>5

\* Every device the last snapshot names has its object, linked, with what it
\* states: neither an earlier snapshot nor the failures of other calls of this
\* one can hide it.
THEOREM EveryDeviceShown ==
  ASSUME \A p \in Snapshots : IsWalkedRight(p)
  PROVE  Spec => []EveryDeviceIsShown
<1>1. Init => EveryDeviceIsShown
  BY DEF Init, EveryDeviceIsShown
<1>2. ASSUME TypeOK, EveryDeviceIsShown, [Next]_vars
      PROVE  EveryDeviceIsShown'
  <2>1. CASE Next
    BY <1>2, <2>1, EveryStepIsASnapshot, ReconcileShows DEF IsWalkedRight
  <2>2. CASE UNCHANGED vars
    BY <1>2, <2>2 DEF EveryDeviceIsShown, vars
  <2> QED
    BY <1>2, <2>1, <2>2
<1> QED
  BY TypeCorrect, <1>1, <1>2, PTL DEF Spec

-----------------------------------------------------------------------------
(* Nothing is invented.                                                    *)

\* A snapshot adds only what it states itself.
LEMMA ReconcileInventsNothing ==
  ASSUME TypeOK, NothingIsInvented,
         NEW p \in Snapshots, OnlyDevicesAreFound(p), NEW noUpdate, NEW noLink,
         reconcileLshwGeneric(p, noUpdate, noLink)
  PROVE  NothingIsInvented'
<1>1. /\ Len(history') \in DOMAIN history' /\ history'[Len(history')] = p
      /\ \A i \in DOMAIN history : i \in DOMAIN history' /\ history'[i] = history[i]
  BY HistoryGrows DEF TypeOK, reconcileLshwGeneric
<1> SUFFICES ASSUME NEW c \in DOMAIN objects', c[1] \in Lists, NEW f \in DOMAIN objects'[c]
             PROVE  \E i \in DOMAIN history' : States(history'[i], c, f, objects'[c][f])
  BY DEF NothingIsInvented, States, Devices
<1>2. CASE /\ c \in DOMAIN Hardware[p] /\ f \in DOMAIN Hardware[p][c]
           /\ objects'[c][f] = Hardware[p][c][f]
  <2>1. States(p, c, f, objects'[c][f])
    BY <1>2 DEF OnlyDevicesAreFound
  <2> QED
    BY <1>1, <2>1
<1>3. CASE /\ c \in DOMAIN objects /\ f \in DOMAIN objects[c]
           /\ objects'[c][f] = objects[c][f]
  <2>1. PICK i \in DOMAIN history : States(history[i], c, f, objects[c][f])
    BY <1>3 DEF NothingIsInvented
  <2> QED
    BY <1>1, <1>3, <2>1
<1> QED
  BY <1>2, <1>3, WhatIsWritten

\* Whatever the order of the snapshots and whichever calls fail, an object shows
\* of a field only what a device at its place stated at some time.
THEOREM NothingInvented ==
  ASSUME \A p \in Snapshots : IsWalkedRight(p)
  PROVE  Spec => []NothingIsInvented
<1>1. Init => NothingIsInvented
  BY DEF Init, NothingIsInvented, Server, Lists
<1>2. ASSUME TypeOK, NothingIsInvented, [Next]_vars
      PROVE  NothingIsInvented'
  <2>1. CASE Next
    BY <1>2, <2>1, EveryStepIsASnapshot, ReconcileInventsNothing DEF IsWalkedRight
  <2>2. CASE UNCHANGED vars
    BY <1>2, <2>2 DEF NothingIsInvented, States, Devices, vars
  <2> QED
    BY <1>2, <2>1, <2>2
<1> QED
  BY TypeCorrect, <1>1, <1>2, PTL DEF Spec
=============================================================================
