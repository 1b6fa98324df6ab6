----------------------------- MODULE Datacenter -----------------------------
(***************************************************************************)
(* The data centre model m4 (m4/adapters/dc/main.go).  Its post-process    *)
(* goes through the leaf models in their order: it lists the root objects  *)
(* of a model in that model's domain, makes a shadow of what it finds and  *)
(* links it under the data centre, or deletes the shadows of the model     *)
(* when the listing is empty or fails; at the end it writes which models   *)
(* are ready.  A failing call is logged, and the pass goes on.             *)
(*                                                                         *)
(* The heartbeat signals the post-process at the object "datacenter", the  *)
(* other models at the adapter's own object.  Signals to one object are    *)
(* handled one at a time, those to different objects are not, so that two  *)
(* passes interleave.                                                      *)
(***************************************************************************)
EXTENDS Naturals, Sequences, FiniteSets

CONSTANTS
  LinkedIDs,   \* the leaf models, in the order of initLeafModelsList
  Heartbeat,   \* the object the heartbeat signals
  Notified,    \* the object the other models signal
  MaxFailures  \* bound on the calls that fail and on the restarts

ASSUME LinkedIDsAssumption == LinkedIDs \in Seq(STRING)
ASSUME HandlersAssumption == Heartbeat # Notified
ASSUME MaxFailuresAssumption == MaxFailures \in Nat

Models == {LinkedIDs[i] : i \in DOMAIN LinkedIDs}
Handlers == {Heartbeat, Notified}

VARIABLES
  visible,    \* models whose root exists and can be listed
  stage,      \* where the pass of a handler stands
  at,         \* position of the model it is at
  found,      \* models it has found a root of (isReady)
  shadows,    \* models with a shadow of their root in m4
  linked,     \* models whose shadow is linked under the data centre
  ready,      \* models the status of the data centre calls ready
  alone,      \* handlers whose pass nothing has disturbed since it began
  failures    \* number of calls that failed, and of restarts

pass == <<stage, at, found>>
graph == <<shadows, linked, ready>>
vars == <<visible, pass, graph, alone, failures>>

Init ==
  /\ visible \in SUBSET Models
  /\ stage = [h \in Handlers |-> "idle"]
  /\ at = [h \in Handlers |-> 1]
  /\ found = [h \in Handlers |-> {}]
  /\ shadows = {}
  /\ linked = {}
  /\ ready = {}
  /\ alone = {}
  /\ failures = 0

-----------------------------------------------------------------------------
(* The other models: a root comes, goes, or cannot be reached for a while. *)
RootChanges ==
  /\ \E m \in Models : visible' = IF m \in visible THEN visible \ {m} ELSE visible \cup {m}
  /\ alone' = {}
  /\ UNCHANGED <<pass, graph, failures>>

-----------------------------------------------------------------------------
(* datacenterPostProcess.                                                  *)

Model(h) == LinkedIDs[at[h]]

\* The next leaf model, or the status after the last one.
Advance(h) ==
  IF at[h] < Len(LinkedIDs)
    THEN at' = [at EXCEPT ![h] = @ + 1] /\ stage' = [stage EXCEPT ![h] = "list"]
    ELSE stage' = [stage EXCEPT ![h] = "status"] /\ UNCHANGED at

Fail(h) ==
  /\ failures < MaxFailures
  /\ failures' = failures + 1
  /\ alone' = alone \ {h}

Succeed == UNCHANGED <<alone, failures>>

\* A pass begins.  It is alone if no other one is under way.
Start(h) ==
  /\ stage[h] = "idle"
  /\ stage' = [stage EXCEPT ![h] = IF Len(LinkedIDs) = 0 THEN "status" ELSE "list"]
  /\ at' = [at EXCEPT ![h] = 1]
  /\ found' = [found EXCEPT ![h] = {}]
  /\ alone' = IF \A g \in Handlers \ {h} : stage[g] = "idle" THEN {h} ELSE {}
  /\ UNCHANGED <<visible, graph, failures>>

\* Faulty variant: nothing is deleted when nothing is listed.
ListSkipsEmpty(h) ==
  /\ stage[h] = "list"
  /\ IF Model(h) \in visible
       THEN stage' = [stage EXCEPT ![h] = "shadow"] /\ UNCHANGED at
       ELSE Advance(h)
  /\ UNCHANGED <<visible, found, graph, alone, failures>>

\* The roots of the model are listed in its domain; a model that cannot be
\* reached looks like one without roots.
List(h) ==
  /\ stage[h] = "list"
  /\ stage' = [stage EXCEPT ![h] = IF Model(h) \in visible THEN "shadow" ELSE "clear"]
  /\ UNCHANGED <<visible, at, found, graph, alone, failures>>

\* Faulty variant: isReady still holds what it was for the model before.
ClearKeepsReady(h) ==
  /\ stage[h] = "clear"
  /\ shadows' = shadows \ {Model(h)}
  /\ linked' = linked \ {Model(h)}
  /\ found' = [found EXCEPT ![h] = IF @ = {} THEN {} ELSE @ \cup {Model(h)}]
  /\ Succeed
  /\ Advance(h)
  /\ UNCHANGED <<visible, ready>>

\* The shadows of the model are looked up and deleted; with a shadow goes its
\* link.
Clear(h) ==
  /\ stage[h] = "clear"
  /\ \/ /\ shadows' = shadows \ {Model(h)}
        /\ linked' = linked \ {Model(h)}
        /\ Succeed
     \/ Fail(h) /\ UNCHANGED <<shadows, linked>>
  /\ Advance(h)
  /\ UNCHANGED <<visible, found, ready>>

MakeShadow(h) ==
  /\ stage[h] = "shadow"
  /\ stage' = [stage EXCEPT ![h] = "link"]
  /\ \/ shadows' = shadows \cup {Model(h)} /\ Succeed
     \/ Fail(h) /\ UNCHANGED shadows
  /\ UNCHANGED <<visible, at, found, linked, ready>>

\* Faulty variant: the link is made without looking for its end.
LinkAnyway(h) ==
  /\ stage[h] = "link"
  /\ linked' = linked \cup {Model(h)}
  /\ Succeed
  /\ found' = [found EXCEPT ![h] = @ \cup {Model(h)}]
  /\ Advance(h)
  /\ UNCHANGED <<visible, shadows, ready>>

\* The link fails if the shadow has not been made, or is gone again.  The model
\* counts as ready whether or not the calls have failed.
LinkShadow(h) ==
  /\ stage[h] = "link"
  /\ \/ Model(h) \in shadows /\ linked' = linked \cup {Model(h)} /\ Succeed
     \/ Model(h) \notin shadows /\ UNCHANGED linked /\ Succeed
     \/ Fail(h) /\ UNCHANGED linked
  /\ found' = [found EXCEPT ![h] = @ \cup {Model(h)}]
  /\ Advance(h)
  /\ UNCHANGED <<visible, shadows, ready>>

\* adapterUpdateStatus writes the readiness of all models at once.
WriteStatus(h) ==
  /\ stage[h] = "status"
  /\ stage' = [stage EXCEPT ![h] = "idle"]
  /\ \/ ready' = found[h] /\ Succeed
     \/ Fail(h) /\ UNCHANGED ready
  /\ UNCHANGED <<visible, at, found, shadows, linked>>

\* The service goes down and up again: the passes are gone, the graph stays.
\* onAfterStart writes the models it has been told of by then as not ready.
Restart ==
  /\ failures < MaxFailures
  /\ failures' = failures + 1
  /\ stage' = [h \in Handlers |-> "idle"]
  /\ alone' = {}
  /\ ready' \in SUBSET ready
  /\ UNCHANGED <<visible, at, found, shadows, linked>>

PassStep(h) ==
  List(h) \/ Clear(h) \/ MakeShadow(h) \/ LinkShadow(h) \/ WriteStatus(h)

Next ==
  \/ RootChanges
  \/ Restart
  \/ \E h \in Handlers : Start(h) \/ PassStep(h)

\* The heartbeat goes on for ever and calls return.  The other models may never
\* signal, and need not come back.
Fairness ==
  /\ WF_vars(Start(Heartbeat))
  /\ \A h \in Handlers : WF_vars(PassStep(h))

Spec == Init /\ [][Next]_vars /\ Fairness

-----------------------------------------------------------------------------
PassTypeOK ==
  /\ stage \in [Handlers -> {"idle", "list", "clear", "shadow", "link", "status"}]
  /\ at \in [Handlers -> 1 .. Len(LinkedIDs) + 1]
  /\ found \in [Handlers -> SUBSET Models]
  /\ failures \in 0 .. MaxFailures

\* Every link ends in a shadow.
GraphTypeOK ==
  /\ visible \subseteq Models
  /\ shadows \subseteq Models
  /\ linked \subseteq shadows
  /\ ready \subseteq Models
  /\ alone \subseteq Handlers

TypeOK == PassTypeOK /\ GraphTypeOK

\* Action property: one pass is enough.  Whatever earlier passes, overlaps,
\* failures and restarts have left, a pass during which no other ran, no root changed and no
\* call failed ends with shadows, links and status as the models are.
OnePassSuffices ==
  [][\A h \in Handlers :
       (stage[h] = "status" /\ stage'[h] = "idle" /\ h \in alone /\ alone' = alone)
         => shadows' = visible /\ linked' = visible /\ ready' = visible]_vars

\* Liveness: a model that stays is shown and called ready for good, one that
\* stays away is neither, whatever the other models do meanwhile and however
\* the passes of heartbeat and notifications overlap.
ModelsAreFollowed ==
  \A m \in Models :
    /\ <>[](m \in visible) => <>[](m \in linked /\ m \in ready)
    /\ <>[](m \notin visible) => <>[](m \notin shadows /\ m \notin ready)
=============================================================================
