-------------------------- MODULE DatacenterProofs --------------------------
(***************************************************************************)
(* Proofs about the data centre, for every list of leaf models and every   *)
(* number of failures: types, and that one undisturbed pass is enough.     *)
(* The argument: while a pass is undisturbed it is the only one            *)
(* (AloneIsAlone), and shadows, links and what it found are right for      *)
(* every model it is done with (DoneIsRight).                              *)
(***************************************************************************)
EXTENDS Datacenter, TLAPS

AtAModel ==
  \A h \in Handlers :
    stage[h] \in {"list", "clear", "shadow", "link"} => at[h] \in 1 .. Len(LinkedIDs)

AloneIsAlone ==
  \A h \in alone : \A g \in Handlers \ {h} : stage[g] = "idle"

\* What a pass knows of the model it is at.
StageIsRight(h) ==
  /\ stage[h] = "clear" => Model(h) \notin visible
  /\ stage[h] \in {"shadow", "link"} => Model(h) \in visible
  /\ stage[h] = "link" => Model(h) \in shadows

\* Shadows, links and findings are right for a model.
Right(m, h) ==
  /\ m \in visible => m \in shadows /\ m \in linked /\ m \in found[h]
  /\ m \notin visible => m \notin shadows /\ m \notin linked /\ m \notin found[h]

DoneIsRight(h) ==
  \A i \in DOMAIN LinkedIDs : (stage[h] = "status" \/ i < at[h]) => Right(LinkedIDs[i], h)

\* Nothing is found that is not there.
FoundIsRight(h) == found[h] \subseteq visible

PassIsRight ==
  \A h \in alone : stage[h] # "idle" => StageIsRight(h) /\ FoundIsRight(h) /\ DoneIsRight(h)

DcInv == TypeOK /\ AtAModel /\ AloneIsAlone /\ PassIsRight

LEMMA Positions == Len(LinkedIDs) \in Nat /\ DOMAIN LinkedIDs = 1 .. Len(LinkedIDs)
BY LinkedIDsAssumption

LEMMA ModelIsModel ==
  ASSUME NEW h \in Handlers, at[h] \in 1 .. Len(LinkedIDs)
  PROVE  Model(h) \in Models
BY Positions DEF Model, Models

LEMMA InitInv == Init => DcInv
<1> SUFFICES ASSUME Init PROVE DcInv
  OBVIOUS
<1>1. PassTypeOK
  BY Positions, MaxFailuresAssumption DEF Init, PassTypeOK
<1>2. GraphTypeOK /\ AtAModel /\ AloneIsAlone /\ PassIsRight
  BY DEF Init, GraphTypeOK, AtAModel, AloneIsAlone, PassIsRight
<1> QED
  BY <1>1, <1>2 DEF DcInv, TypeOK

\* Going on to the next model or to the status.
LEMMA AdvanceType ==
  ASSUME PassTypeOK, AtAModel, NEW h \in Handlers, Advance(h),
         stage[h] \in {"list", "clear", "shadow", "link"}
  PROVE  /\ stage' \in [Handlers -> {"idle", "list", "clear", "shadow", "link", "status"}]
         /\ at' \in [Handlers -> 1 .. Len(LinkedIDs) + 1]
         /\ AtAModel'
<1>1. at[h] \in 1 .. Len(LinkedIDs)
  BY DEF AtAModel
<1> USE Positions DEF PassTypeOK, AtAModel, Advance
<1>2. CASE at[h] < Len(LinkedIDs)
  <2>1. at[h] + 1 \in 1 .. Len(LinkedIDs) /\ at[h] + 1 \in 1 .. Len(LinkedIDs) + 1
    BY <1>1, <1>2
  <2> QED
    BY <1>2, <2>1
<1>3. CASE ~(at[h] < Len(LinkedIDs))
  BY <1>3
<1> QED
  BY <1>2, <1>3

LEMMA PassTypeNext ==
  ASSUME TypeOK, AtAModel, [Next]_vars
  PROVE  PassTypeOK' /\ AtAModel'
<1> USE Positions, MaxFailuresAssumption
    DEF TypeOK, PassTypeOK, AtAModel, pass, Fail, Succeed
<1>1. CASE UNCHANGED vars
  BY <1>1 DEF vars
<1>2. CASE RootChanges
  BY <1>2 DEF RootChanges
<1>3. CASE Restart
  BY <1>3 DEF Restart
<1>4. ASSUME NEW h \in Handlers, Start(h) PROVE PassTypeOK' /\ AtAModel'
  BY <1>4 DEF Start
<1>5. ASSUME NEW h \in Handlers, List(h) \/ MakeShadow(h) \/ WriteStatus(h)
      PROVE  PassTypeOK' /\ AtAModel'
  <2>1. CASE List(h)
    BY <2>1 DEF List
  <2>2. CASE MakeShadow(h)
    BY <2>2 DEF MakeShadow
  <2>3. CASE WriteStatus(h)
    BY <2>3 DEF WriteStatus
  <2> QED
    BY <1>5, <2>1, <2>2, <2>3
<1>6. ASSUME NEW h \in Handlers, Clear(h) PROVE PassTypeOK' /\ AtAModel'
  <2>1. AtAModel' /\ stage' \in [Handlers -> {"idle", "list", "clear", "shadow", "link", "status"}]
        /\ at' \in [Handlers -> 1 .. Len(LinkedIDs) + 1]
    BY <1>6, AdvanceType DEF Clear
  <2>2. found' = found /\ failures' \in 0 .. MaxFailures
    BY <1>6 DEF Clear
  <2> QED
    BY <2>1, <2>2
<1>7. ASSUME NEW h \in Handlers, LinkShadow(h) PROVE PassTypeOK' /\ AtAModel'
  <2>1. Model(h) \in Models
    BY <1>7, ModelIsModel DEF LinkShadow
  <2> QED
    BY <1>7, <2>1, AdvanceType DEF LinkShadow
<1> QED
  BY <1>1, <1>2, <1>3, <1>4, <1>5, <1>6, <1>7 DEF Next, PassStep

LEMMA GraphTypeNext ==
  ASSUME TypeOK, AtAModel, [Next]_vars
  PROVE  GraphTypeOK'
<1> USE DEF TypeOK, GraphTypeOK, graph, Fail, Succeed
<1>1. CASE UNCHANGED vars
  BY <1>1 DEF vars
<1>2. CASE RootChanges
  BY <1>2 DEF RootChanges
<1>3. CASE Restart
  BY <1>3 DEF Restart
<1>4. ASSUME NEW h \in Handlers, Start(h) \/ List(h) PROVE GraphTypeOK'
  BY <1>4 DEF Start, List
<1>5. ASSUME NEW h \in Handlers, Clear(h) \/ LinkShadow(h) PROVE GraphTypeOK'
  BY <1>5 DEF Clear, LinkShadow
<1>6. ASSUME NEW h \in Handlers, MakeShadow(h) PROVE GraphTypeOK'
  BY <1>6, ModelIsModel DEF MakeShadow, AtAModel
<1>7. ASSUME NEW h \in Handlers, WriteStatus(h) PROVE GraphTypeOK'
  BY <1>7 DEF WriteStatus, PassTypeOK
<1> QED
  BY <1>1, <1>2, <1>3, <1>4, <1>5, <1>6, <1>7 DEF Next, PassStep

LEMMA AloneNext ==
  ASSUME TypeOK, AloneIsAlone, [Next]_vars
  PROVE  AloneIsAlone'
<1> USE DEF AloneIsAlone, TypeOK, PassTypeOK, GraphTypeOK, pass
<1>1. CASE UNCHANGED vars
  BY <1>1 DEF vars
<1>2. CASE RootChanges \/ Restart
  BY <1>2 DEF RootChanges, Restart
<1>3. ASSUME NEW h \in Handlers, Start(h) PROVE AloneIsAlone'
  BY <1>3 DEF Start
<1>4. ASSUME NEW h \in Handlers, PassStep(h) PROVE AloneIsAlone'
  <2>1. stage[h] # "idle" /\ alone' \subseteq alone
    BY <1>4 DEF PassStep, List, Clear, MakeShadow, LinkShadow, WriteStatus, Fail, Succeed
  <2>2. \A g \in Handlers \ {h} : stage'[g] = stage[g]
    BY <1>4 DEF PassStep, List, Clear, MakeShadow, LinkShadow, WriteStatus, Advance
  <2> QED
    BY <2>1, <2>2
<1> QED
  BY <1>1, <1>2, <1>3, <1>4 DEF Next
\* The models a pass is done with after Advance.
LEMMA AdvanceDone ==
  ASSUME PassTypeOK, AtAModel, NEW h \in Handlers, Advance(h),
         stage[h] \in {"list", "clear", "shadow", "link"}
  PROVE  /\ stage'[h] \in {"list", "status"}
         /\ \A i \in DOMAIN LinkedIDs :
              (stage'[h] = "status" \/ i < at'[h]) => i < at[h] \/ LinkedIDs[i] = Model(h)
<1>1. at[h] \in 1 .. Len(LinkedIDs)
  BY DEF AtAModel
<1> USE Positions DEF PassTypeOK, Advance, Model
<1>2. CASE at[h] < Len(LinkedIDs)
  <2>1. at'[h] = at[h] + 1 /\ stage'[h] = "list"
    BY <1>2
  <2>2. \A i \in DOMAIN LinkedIDs : i < at[h] + 1 => i < at[h] \/ i = at[h]
    BY <1>1
  <2> QED
    BY <2>1, <2>2
<1>3. CASE ~(at[h] < Len(LinkedIDs))
  <2>1. stage'[h] = "status"
    BY <1>3
  <2>2. \A i \in DOMAIN LinkedIDs : i < at[h] \/ i = at[h]
    BY <1>1, <1>3
  <2> QED
    BY <2>1, <2>2
<1> QED
  BY <1>2, <1>3

\* What a step of an undisturbed pass leaves right.
LEMMA RightStep ==
  ASSUME DcInv, NEW h \in Handlers, PassStep(h), h \in alone, h \in alone'
  PROVE  /\ StageIsRight(h)'
         /\ FoundIsRight(h)'
         /\ stage'[h] # "idle" => DoneIsRight(h)'
<1>1. stage[h] # "idle"
  BY DEF PassStep, List, Clear, MakeShadow, LinkShadow, WriteStatus
<1>2. StageIsRight(h) /\ FoundIsRight(h) /\ DoneIsRight(h)
  BY <1>1 DEF DcInv, PassIsRight
<1>3. PassTypeOK /\ GraphTypeOK /\ AtAModel
  BY DEF DcInv, TypeOK
<1> DEFINE m == Model(h)
<1>4. CASE List(h)
  BY <1>2, <1>3, <1>4
     DEF List, PassTypeOK, graph, StageIsRight, FoundIsRight, DoneIsRight, Right, Model
<1>5. CASE MakeShadow(h)
  <2>1. shadows' = shadows \cup {m} /\ m \in visible /\ stage'[h] = "link"
    BY <1>2, <1>3, <1>5 DEF MakeShadow, Fail, StageIsRight, PassTypeOK
  <2> QED
    BY <1>2, <1>3, <1>5, <2>1
       DEF MakeShadow, StageIsRight, FoundIsRight, DoneIsRight, Right, Model
<1>6. CASE Clear(h)
  <2>1. shadows' = shadows \ {m} /\ linked' = linked \ {m} /\ m \notin visible
    BY <1>2, <1>6 DEF Clear, Fail, StageIsRight
  <2>2. /\ stage'[h] \in {"list", "status"}
        /\ \A i \in DOMAIN LinkedIDs :
             (stage'[h] = "status" \/ i < at'[h]) => i < at[h] \/ LinkedIDs[i] = m
    BY <1>3, <1>6, AdvanceDone DEF Clear
  <2>3. UNCHANGED <<visible, found>>
    BY <1>6 DEF Clear
  <2> QED
    BY <1>2, <2>1, <2>2, <2>3 DEF StageIsRight, FoundIsRight, DoneIsRight, Right
<1>7. CASE LinkShadow(h)
  <2>1. linked' = linked \cup {m} /\ m \in visible /\ m \in shadows
    BY <1>2, <1>7 DEF LinkShadow, Fail, StageIsRight
  <2>2. /\ stage'[h] \in {"list", "status"}
        /\ \A i \in DOMAIN LinkedIDs :
             (stage'[h] = "status" \/ i < at'[h]) => i < at[h] \/ LinkedIDs[i] = m
    BY <1>3, <1>7, AdvanceDone DEF LinkShadow
  <2>3. UNCHANGED <<visible, shadows>> /\ found'[h] = found[h] \cup {m}
    BY <1>3, <1>7 DEF LinkShadow, PassTypeOK
  <2> QED
    BY <1>2, <2>1, <2>2, <2>3 DEF StageIsRight, FoundIsRight, DoneIsRight, Right
<1>8. CASE WriteStatus(h)
  <2>1. stage'[h] = "idle" /\ UNCHANGED <<visible, found>>
    BY <1>3, <1>8 DEF WriteStatus, PassTypeOK
  <2> QED
    BY <1>2, <2>1 DEF StageIsRight, FoundIsRight
<1> QED
  BY <1>4, <1>5, <1>6, <1>7, <1>8 DEF PassStep

LEMMA RightNext ==
  ASSUME DcInv, [Next]_vars
  PROVE  PassIsRight'
<1> USE DEF DcInv, TypeOK
<1>1. CASE UNCHANGED vars
  BY <1>1 DEF vars, pass, graph, PassIsRight, StageIsRight, FoundIsRight, DoneIsRight,
              Right, Model
<1>2. CASE RootChanges \/ Restart
  BY <1>2 DEF RootChanges, Restart, PassIsRight
<1>3. ASSUME NEW h \in Handlers, Start(h) PROVE PassIsRight'
  <2>1. alone' \subseteq {h} /\ at'[h] = 1 /\ found'[h] = {}
    BY <1>3 DEF Start, PassTypeOK
  <2>2. stage'[h] = "list" \/ (stage'[h] = "status" /\ DOMAIN LinkedIDs = {})
    BY <1>3, Positions DEF Start, PassTypeOK
  <2>3. \A i \in DOMAIN LinkedIDs : ~(stage'[h] = "status" \/ i < at'[h])
    BY <2>1, <2>2, Positions
  <2> QED
    BY <2>1, <2>2, <2>3 DEF PassIsRight, StageIsRight, FoundIsRight, DoneIsRight
<1>4. ASSUME NEW h \in Handlers, PassStep(h) PROVE PassIsRight'
  <2> SUFFICES ASSUME NEW g \in alone', stage'[g] # "idle"
               PROVE  StageIsRight(g)' /\ FoundIsRight(g)' /\ DoneIsRight(g)'
    BY DEF PassIsRight
  <2>1. alone' \subseteq alone /\ stage[h] # "idle"
    BY <1>4 DEF PassStep, List, Clear, MakeShadow, LinkShadow, WriteStatus, Fail, Succeed
  <2>2. g = h
    BY <2>1 DEF AloneIsAlone
  <2> QED
    BY <1>4, <2>1, <2>2, RightStep
<1> QED
  BY <1>1, <1>2, <1>3, <1>4 DEF Next

LEMMA DcInvariant == Spec => []DcInv
<1>1. DcInv /\ [Next]_vars => DcInv'
  <2> SUFFICES ASSUME DcInv, [Next]_vars PROVE DcInv'
    OBVIOUS
  <2>1. TypeOK' /\ AtAModel'
    BY PassTypeNext, GraphTypeNext DEF DcInv, TypeOK
  <2>2. AloneIsAlone' /\ PassIsRight'
    BY AloneNext, RightNext DEF DcInv
  <2> QED
    BY <2>1, <2>2 DEF DcInv
<1> QED
  BY InitInv, <1>1, PTL DEF Spec

\* The variables keep their types; every link ends in a shadow, also when the
\* other pass deletes it (main.go:90-94).
THEOREM TypeCorrect == Spec => []TypeOK
<1>1. DcInv => TypeOK
  BY DEF DcInv
<1> QED
  BY DcInvariant, <1>1, PTL

\* One undisturbed pass repairs whatever came before it: the heartbeat heals the
\* data centre (main.go:60-106 and 108-119).
THEOREM OnePassHeals == Spec => OnePassSuffices
<1>1. ASSUME DcInv, [Next]_vars, NEW h \in Handlers,
             stage[h] = "status", stage'[h] = "idle", h \in alone, alone' = alone
      PROVE  shadows' = visible /\ linked' = visible /\ ready' = visible
  <2> USE <1>1 DEF DcInv, TypeOK
  <2>1. WriteStatus(h)
    <3>1. CASE UNCHANGED vars
      BY <3>1 DEF vars, pass
    <3>2. CASE RootChanges \/ Restart
      BY <3>2 DEF RootChanges, Restart
    <3>3. ASSUME NEW g \in Handlers, Start(g) PROVE g = h
      BY <3>3 DEF Start, PassTypeOK
    <3>4. ASSUME NEW g \in Handlers, PassStep(g) PROVE g = h
      <4>1. stage[g] # "idle"
        BY <3>4 DEF PassStep, List, Clear, MakeShadow, LinkShadow, WriteStatus
      <4> QED
        BY <4>1 DEF AloneIsAlone
    <3>5. ~Start(h)
      BY DEF Start
    <3> QED
      BY <3>1, <3>2, <3>3, <3>4, <3>5
         DEF Next, PassStep, List, Clear, MakeShadow, LinkShadow
  <2>2. ready' = found[h] /\ UNCHANGED <<shadows, linked>>
    BY <2>1 DEF WriteStatus, Fail
  <2>3. FoundIsRight(h) /\ \A i \in DOMAIN LinkedIDs : Right(LinkedIDs[i], h)
    BY DEF PassIsRight, DoneIsRight
  <2>4. \A m \in Models : Right(m, h)
    BY <2>3 DEF Models
  <2> QED
    BY <2>2, <2>3, <2>4 DEF Right, FoundIsRight, GraphTypeOK
<1>2. DcInv /\ [Next]_vars =>
        \A h \in Handlers :
          (stage[h] = "status" /\ stage'[h] = "idle" /\ h \in alone /\ alone' = alone)
            => shadows' = visible /\ linked' = visible /\ ready' = visible
  BY <1>1
<1> QED
  BY DcInvariant, <1>2, PTL DEF Spec, OnePassSuffices
=============================================================================
