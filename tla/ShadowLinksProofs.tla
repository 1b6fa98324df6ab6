------------------------- MODULE ShadowLinksProofs -------------------------
(***************************************************************************)
(* Proofs about ShadowLinks, for any objects, matches and bounds.          *)
(***************************************************************************)
EXTENDS ShadowLinks, TLAPS

(* A pass belongs to a model and reads objects. *)
LEMMA PassFacts ==
  ASSUME NEW p \in Passes
  PROVE  /\ ModelOf(p) \in Models
         /\ Own(p) \subseteq Objects
         /\ Foreign(p) \subseteq Objects
         /\ First(p) \in Steps /\ AfterOwn(p) \in Steps /\ AfterDelete(p) \in Steps
BY DEF Passes, ModelOf, Models, Own, Foreign, Objects, First, AfterOwn, AfterDelete, Steps

(* What a pass links are pairs of an own and a foreign object. *)
LEMMA PairFacts ==
  ASSUME NEW p, NEW L, NEW F
  PROVE  Pairs(p, L, F) \subseteq L \X F
BY DEF Pairs

(* What a pass guesses is among what it has read. *)
LEMMA GuessFacts ==
  ASSUME NEW p \in Passes, NEW G \in Guesses(p)
  PROVE  Found(p) \cup G \subseteq own[p] \X foreign[p]
<1>1. G \subseteq Mentioned(p)
  BY DEF Guesses
<1>2. Mentioned(p) \subseteq own[p] \X foreign[p]
  BY DEF Mentioned
<1>3. Found(p) \subseteq own[p] \X foreign[p]
  BY PairFacts DEF Found
<1> QED
  BY <1>1, <1>2, <1>3

-----------------------------------------------------------------------------
(* A read, a return and an end keep the types of what they write. *)
LEMMA EndedType ==
  ASSUME step \in [Passes -> Steps], NEW p \in Passes
  PROVE  Ended(p) \in [Passes -> Steps]
BY PassFacts DEF Ended, Steps

LEMMA FailType ==
  ASSUME TypeOK, NEW S \in SUBSET Passes, Fail(S)
  PROVE  spoiled' \subseteq Passes /\ failures' \in Nat
BY DEF Fail, TypeOK

LEMMA GotType ==
  ASSUME TypeOK, NEW p \in Passes, NEW all, NEW got, Got(p, all, got)
  PROVE  spoiled' \subseteq Passes /\ failures' \in Nat
BY DEF Got, Fail, excuses, TypeOK

LEMMA ReturnsType ==
  ASSUME TypeOK, NEW p \in Passes, Returns(p),
         UNCHANGED <<present, evicting, unannounced, signals, changes>>, late' \subseteq late
  PROVE  TypeOK'
<1>1. spoiled' \subseteq Passes /\ failures' \in Nat
  BY FailType DEF Returns
<1>2. step' \in [Passes -> Steps]
  BY EndedType DEF Returns, Forgets, TypeOK
<1> QED
  BY <1>1, <1>2 DEF Returns, Forgets, TypeOK

(* Reading the workloads makes nothing late. *)
LEMMA ReadLate ==
  ASSUME NEW p \in Passes, ReadForeign(p)
  PROVE  late' \subseteq late
BY DEF ReadForeign

(* A deletion takes links away and leaves the rest of a pass alone. *)
LEMMA DeletesType ==
  ASSUME TypeOK, NEW o, Deletes(o)
  PROVE  /\ present' \subseteq Objects
         /\ links' \in [Passes -> SUBSET (Objects \X Objects)]
         /\ \A p \in Passes : links'[p] \subseteq Own(p) \X shadows[p]
         /\ UNCHANGED <<signals, step, own, foreign, shadows>>
<1>1. \A p \in Passes : links'[p] \subseteq links[p]
  BY DEF Deletes
<1>2. links' \in [Passes -> SUBSET (Objects \X Objects)]
  BY DEF Deletes, TypeOK
<1> QED
  BY <1>1, <1>2 DEF Deletes, TypeOK

(* Init establishes the types. *)
LEMMA InitType ==
  ASSUME Init
  PROVE  TypeOK
<1>1. \A p \in Passes : /\ links[p] \subseteq (present \cap Own(p)) \X (present \cap Foreign(p))
                        /\ shadows[p] = {e[2] : e \in links[p]}
  BY PairFacts DEF Init
<1>2. \A p \in Passes : links[p] \subseteq Own(p) \X shadows[p] /\ shadows[p] \subseteq Foreign(p)
  <2> SUFFICES ASSUME NEW p \in Passes
               PROVE  links[p] \subseteq Own(p) \X shadows[p] /\ shadows[p] \subseteq Foreign(p)
    OBVIOUS
  <2>1. \A e \in links[p] : /\ e = <<e[1], e[2]>> /\ e[1] \in Own(p) /\ e[2] \in Foreign(p)
                            /\ e[2] \in shadows[p]
    BY <1>1
  <2> QED
    BY <2>1, <1>1
<1>3. links \in [Passes -> SUBSET (Objects \X Objects)] /\ shadows \in [Passes -> SUBSET Objects]
  <2>1. links = [p \in Passes |-> links[p]] /\ shadows = [p \in Passes |-> shadows[p]]
    BY DEF Init
  <2>2. \A p \in Passes : links[p] \in SUBSET (Objects \X Objects) /\ shadows[p] \in SUBSET Objects
    BY <1>2, PassFacts
  <2> QED
    BY <2>1, <2>2
<1>4. "idle" \in Steps
  BY DEF Steps
<1> QED
  BY <1>2, <1>3, <1>4 DEF Init, TypeOK

(* A step of a pass keeps the types, one lemma per step. *)
LEMMA ReadOwnType ==
  ASSUME TypeOK, NEW p \in Passes, ReadOwn(p)
  PROVE  TypeOK'
<1>1. CASE Returns(p)
  BY <1>1, ReturnsType DEF ReadOwn, pods
<1>2. CASE ~Returns(p)
  <2>1. PICK got \in SUBSET (present \cap Own(p)) :
          Got(p, present \cap Own(p), got) /\ own' = [own EXCEPT ![p] = got]
    BY <1>2 DEF ReadOwn
  <2>2. spoiled' \subseteq Passes /\ failures' \in Nat
    BY <2>1, GotType
  <2>3. step' \in [Passes -> Steps] /\ UNCHANGED <<foreign, shadows, links>>
    BY <1>2, PassFacts DEF ReadOwn, TypeOK
  <2> QED
    BY <2>1, <2>2, <2>3, PassFacts DEF ReadOwn, pods, TypeOK
<1> QED
  BY <1>1, <1>2

LEMMA ReadForeignType ==
  ASSUME TypeOK, NEW p \in Passes, ReadForeign(p)
  PROVE  TypeOK'
<1>1. CASE Returns(p)
  BY <1>1, ReturnsType, ReadLate DEF ReadForeign
<1>2. CASE ~Returns(p)
  <2>1. PICK got \in SUBSET (present \cap Foreign(p)) :
          Got(p, present \cap Foreign(p), got) /\ foreign' = [foreign EXCEPT ![p] = got]
    BY <1>2 DEF ReadForeign
  <2>2. spoiled' \subseteq Passes /\ failures' \in Nat
    BY <2>1, GotType
  <2>3. step' \in [Passes -> Steps] /\ UNCHANGED <<own, shadows, links>>
    BY <1>2 DEF ReadForeign, TypeOK, Steps
  <2> QED
    BY <2>1, <2>2, <2>3, PassFacts, ReadLate DEF ReadForeign, TypeOK
<1> QED
  BY <1>1, <1>2

LEMMA DeleteShadowsType ==
  ASSUME TypeOK, NEW p \in Passes, DeleteShadows(p)
  PROVE  TypeOK'
<1>1. CASE Returns(p)
  BY <1>1, ReturnsType DEF DeleteShadows, pods
<1>2. CASE ~Returns(p)
  <2>1. PICK gone \in SUBSET ToDelete(p) :
          /\ Got(p, ToDelete(p), gone)
          /\ shadows' = [shadows EXCEPT ![p] = @ \ gone]
          /\ links' = [links EXCEPT ![p] = {e \in @ : e[2] \notin gone}]
    BY <1>2 DEF DeleteShadows
  <2>2. spoiled' \subseteq Passes /\ failures' \in Nat
    BY <2>1, GotType
  <2>3. step' \in [Passes -> Steps] /\ UNCHANGED <<own, foreign>>
    BY <1>2, PassFacts DEF DeleteShadows, TypeOK
  <2>4. {e \in links[p] : e[2] \notin gone} \subseteq Own(p) \X (shadows[p] \ gone)
    <3>1. \A e \in links[p] : e = <<e[1], e[2]>> /\ e[1] \in Own(p) /\ e[2] \in shadows[p]
      BY DEF TypeOK
    <3> QED
      BY <3>1
  <2>5. shadows' \in [Passes -> SUBSET Objects] /\ links' \in [Passes -> SUBSET (Objects \X Objects)]
    BY <2>1 DEF TypeOK
  <2>6. \A q \in Passes : links'[q] \subseteq Own(q) \X shadows'[q] /\ shadows'[q] \subseteq Foreign(q)
    BY <2>1, <2>4 DEF TypeOK
  <2> QED
    BY <2>2, <2>3, <2>5, <2>6 DEF DeleteShadows, pods, TypeOK
<1> QED
  BY <1>1, <1>2

(* What LinkShadows does once it has chosen what to link. *)
Links(p, G, made, linked) ==
  /\ Got(p, <<Found(p) \cup G, {e \in made : e[1] \in present}>>, <<made, linked>>)
  /\ shadows' = [shadows EXCEPT ![p] = @ \cup {e[2] : e \in made}]
  /\ links' = [links EXCEPT ![p] = @ \cup linked]

LEMMA LinkShadowsType ==
  ASSUME TypeOK, NEW p \in Passes, LinkShadows(p)
  PROVE  TypeOK'
<1>10. PICK G \in Guesses(p) : \E made \in SUBSET (Found(p) \cup G) :
        \E linked \in SUBSET {e \in made : e[1] \in present} : Links(p, G, made, linked)
  BY DEF LinkShadows, Links
<1>11. PICK made \in SUBSET (Found(p) \cup G) :
        \E linked \in SUBSET {e \in made : e[1] \in present} : Links(p, G, made, linked)
  BY <1>10
<1>12. PICK linked \in SUBSET {e \in made : e[1] \in present} : Links(p, G, made, linked)
  BY <1>11
<1>1. /\ Got(p, <<Found(p) \cup G, {e \in made : e[1] \in present}>>, <<made, linked>>)
      /\ shadows' = [shadows EXCEPT ![p] = @ \cup {e[2] : e \in made}]
      /\ links' = [links EXCEPT ![p] = @ \cup linked]
  BY <1>12 DEF Links
<1>2. spoiled' \subseteq Passes /\ failures' \in Nat
  BY <1>1, GotType
<1>3. \A e \in made : e = <<e[1], e[2]>> /\ e[1] \in Own(p) /\ e[2] \in Foreign(p)
  BY GuessFacts DEF TypeOK
<1>4. {e[2] : e \in made} \subseteq Foreign(p) /\ linked \subseteq Own(p) \X {e[2] : e \in made}
  BY <1>3
<1>5. step' \in [Passes -> Steps]
  BY EndedType DEF LinkShadows, Forgets, TypeOK
<1>6. own' \in [Passes -> SUBSET Objects] /\ foreign' \in [Passes -> SUBSET Objects]
      /\ \A q \in Passes : own'[q] \subseteq Own(q) /\ foreign'[q] \subseteq Foreign(q)
  BY DEF LinkShadows, Forgets, TypeOK
<1>7. shadows' \in [Passes -> SUBSET Objects] /\ links' \in [Passes -> SUBSET (Objects \X Objects)]
  <2>1. {e[2] : e \in made} \subseteq Objects /\ linked \subseteq Objects \X Objects
    BY <1>4, PassFacts
  <2> QED
    BY <1>1, <2>1 DEF TypeOK
<1>8. \A q \in Passes : links'[q] \subseteq Own(q) \X shadows'[q] /\ shadows'[q] \subseteq Foreign(q)
  <2>1. links[p] \subseteq Own(p) \X shadows[p] /\ shadows[p] \subseteq Foreign(p)
    BY DEF TypeOK
  <2>2. links[p] \cup linked \subseteq Own(p) \X (shadows[p] \cup {e[2] : e \in made})
    BY <2>1, <1>4
  <2> QED
    BY <1>1, <1>4, <2>1, <2>2 DEF TypeOK
<1> QED
  BY <1>2, <1>5, <1>6, <1>7, <1>8 DEF LinkShadows, pods, TypeOK

LEMMA NextType ==
  ASSUME TypeOK, [Next]_vars
  PROVE  TypeOK'
<1>1. ASSUME NEW m \in Models, NEW o \in Kept(m), ObjectAppears(m, o)
      PROVE  TypeOK'
  <2>1. o \in Objects
    BY <1>1 DEF Kept, Models, Objects
  <2> QED
    BY <1>1, <2>1 DEF ObjectAppears, TypeOK, pods, pass, excuses
<1>2. ASSUME NEW m \in Models, NEW o \in Kept(m), ObjectGoes(m, o)
      PROVE  TypeOK'
  <2>1. evicting' \subseteq present' \cap Pods
    BY <1>2 DEF ObjectGoes, Deletes, pods, TypeOK
  <2> QED
    BY <1>2, <2>1, DeletesType DEF ObjectGoes, TypeOK, pods, excuses
<1>7. ASSUME NEW o \in Pods, PodEvicted(o)
      PROVE  TypeOK'
  BY <1>7 DEF PodEvicted, TypeOK, Models, pass, excuses
<1>8. ASSUME NEW o \in Pods, EvictionHandled(o)
      PROVE  TypeOK'
  <2>1. CASE Deletes(o) /\ late' = late \cup {o} /\ UNCHANGED excuses
    <3>1. evicting' \subseteq present' \cap Pods
      BY <1>8, <2>1 DEF EvictionHandled, Deletes, TypeOK
    <3> QED
      BY <1>8, <2>1, <3>1, DeletesType DEF EvictionHandled, TypeOK, excuses
  <2>2. CASE /\ Fail({})
             /\ UNCHANGED <<present, links, late, signals, step, own, foreign, shadows>>
    <3>1. spoiled' \subseteq Passes /\ failures' \in Nat
      BY <2>2, FailType
    <3> QED
      BY <1>8, <2>2, <3>1 DEF EvictionHandled, TypeOK
  <2> QED
    BY <1>8, <2>1, <2>2 DEF EvictionHandled
<1>3. ASSUME NEW m \in Models, PostProcessNotifier(m)
      PROVE  TypeOK'
  <2>1. signals' \in [Models -> Nat]
    BY <1>3 DEF PostProcessNotifier, TypeOK
  <2>2. spoiled' \subseteq Passes /\ failures' \in Nat
    BY <1>3 DEF PostProcessNotifier, Fail, excuses, TypeOK
  <2> QED
    BY <1>3, <2>1, <2>2 DEF PostProcessNotifier, TypeOK, pods, pass
<1>4. ASSUME NEW m \in Models, PostProcess(m)
      PROVE  TypeOK'
  <2>1. signals' \in [Models -> Nat]
    BY <1>4 DEF PostProcess, TypeOK
  <2>2. Begun(m) \in [Passes -> Steps]
    <3>1. \A p \in Passes : /\ step[p] \in Steps /\ First(p) \in Steps /\ "waiting" \in Steps
      BY PassFacts DEF TypeOK, Steps
    <3> QED
      BY <3>1 DEF Begun
  <2>3. spoiled' \subseteq Passes /\ failures' \in Nat
    BY <1>4 DEF PostProcess, Fail, PassesOf, TypeOK
  <2>4. step' \in [Passes -> Steps]
    BY <1>4, <2>2 DEF PostProcess, TypeOK
  <2> QED
    BY <1>4, <2>1, <2>3, <2>4 DEF PostProcess, pods, TypeOK
<1>5. ASSUME NEW p \in Passes, Advance(p)
      PROVE  TypeOK'
  BY <1>5, ReadOwnType, ReadForeignType, DeleteShadowsType, LinkShadowsType DEF Advance
<1>6. CASE UNCHANGED vars
  BY <1>6 DEF vars, pods, pass, excuses, TypeOK
<1> QED
  BY <1>1, <1>2, <1>3, <1>4, <1>5, <1>6, <1>7, <1>8 DEF Next

(* The variables keep their types; every link ends in a shadow.  (The        *)
(* variables of all post-processes, post_process.go of m1, m2 and m3.)       *)
THEOREM TypeCorrect == Spec => []TypeOK
BY InitType, NextType, PTL DEF Spec

-----------------------------------------------------------------------------
(* What a pass has done so far. *)
OwnRead(p) ==
  \/ step[p] = "link"
  \/ ModelOf(p) # "m2" /\ step[p] \in {"foreign", "delete"}
ForeignRead(p) ==
  \/ step[p] \in {"delete", "link"}
  \/ ModelOf(p) = "m2" /\ step[p] = "own"
Deleted(p) ==
  \/ step[p] = "link"
  \/ ModelOf(p) = "m2" /\ step[p] = "own"

\* What the pass has read is still so, but for pods that were deleted since,
\* and what it has done need not be redone.
UpToDate(p) ==
  /\ OwnRead(p) => present \cap Own(p) \subseteq own[p]
  /\ ForeignRead(p) => /\ present \cap Foreign(p) \subseteq foreign[p]
                       /\ foreign[p] \ present \subseteq late
  /\ Deleted(p) /\ p # "m2_blocks" => Obsolete(p) \subseteq late
  /\ step[p] = "idle" => Settled(p)

Excused(p) == Asked(ModelOf(p)) \/ p \in spoiled

\* Whoever is not to run again has missed nothing.
IInv == \A p \in Passes : Excused(p) \/ UpToDate(p)

(* Init establishes the invariant: an earlier run has left everything settled. *)
LEMMA InitUpToDate ==
  ASSUME Init
  PROVE  IInv
<1> SUFFICES ASSUME NEW p \in Passes
             PROVE  UpToDate(p)
  BY DEF IInv
<1>1. step[p] = "idle"
  BY DEF Init
<1>2. Linked(p)
  BY DEF Init, Linked
<1>3. Obsolete(p) = {}
  <2>1. \A e \in links[p] : e[2] \in present
    <3>1. links[p] \subseteq (present \cap Own(p)) \X (present \cap Foreign(p))
      BY PairFacts DEF Init
    <3> QED
      BY <3>1
  <2> QED
    BY <2>1 DEF Init, Obsolete
<1> QED
  BY <1>1, <1>2, <1>3 DEF UpToDate, OwnRead, ForeignRead, Deleted, Settled

(* Only m3 reads pods in another model: no other pass has missed a deletion. *)
LEMMA LateIsOfM3 ==
  ASSUME TypeOK, NEW p \in Passes \ {"m3_workloads"}
  PROVE  (foreign[p] \cup shadows[p]) \cap late = {}
<1>1. Foreign(p) \cap Pods = {}
  BY PodsAssumption DEF Foreign, Passes
<1> QED
  BY <1>1 DEF TypeOK

(* A pass that stands where it stood, with nothing changed, stays up to date, *)
(* also when m3 reads the workloads again.                                    *)
LEMMA Undisturbed ==
  ASSUME TypeOK, NEW p \in Passes, UpToDate(p), step'[p] = step[p], present' = present,
         own'[p] = own[p], foreign'[p] = foreign[p],
         shadows'[p] = shadows[p], links'[p] = links[p],
         p # "m3_workloads" \/ late' = late
  PROVE  UpToDate(p)'
<1>1. CASE late' = late
  BY <1>1 DEF UpToDate, OwnRead, ForeignRead, Deleted, Settled, Linked, Obsolete
<1>2. CASE p # "m3_workloads"
  <2>1. (foreign[p] \cup shadows[p]) \cap late = {}
    BY <1>2, LateIsOfM3
  <2> QED
    BY <2>1 DEF UpToDate, OwnRead, ForeignRead, Deleted, Settled, Linked, Obsolete
<1> QED
  BY <1>1, <1>2

(* A deletion that no one announces leaves a pass up to date: what it has      *)
(* read too much is late, and the deletion takes the links that are too many.  *)
LEMMA EvictionUpToDate ==
  ASSUME NEW p \in Passes, UpToDate(p), NEW o, Deletes(o), late' = late \cup {o}
  PROVE  UpToDate(p)'
<1>1. /\ present' = present \ {o} /\ links'[p] = {e \in links[p] : e[1] # o}
      /\ UNCHANGED <<step, own, foreign, shadows>>
  BY DEF Deletes
<1>2. Linked(p) => Linked(p)'
  BY <1>1 DEF Linked, Pairs
<1>3. Obsolete(p) \subseteq late => Obsolete(p)' \subseteq late'
  BY <1>1 DEF Obsolete
<1>4. foreign[p] \ present \subseteq late => foreign'[p] \ present' \subseteq late'
  BY <1>1
<1> QED
  BY <1>1, <1>2, <1>3, <1>4 DEF UpToDate, OwnRead, ForeignRead, Deleted, Settled

(* A pass at its first step has nothing to be out of date. *)
LEMMA JustBegun ==
  ASSUME NEW p \in Passes, step'[p] \in {"waiting", First(p)}
  PROVE  UpToDate(p)'
BY DEF UpToDate, OwnRead, ForeignRead, Deleted, First

(* When p ends, the pass that follows it begins and the others stay. *)
LEMMA OthersAtEnd ==
  ASSUME TypeOK, IInv, NEW p \in Passes, NEW q \in Passes, q # p,
         step' = Ended(p), present' = present, late' = late, Excused(q) => Excused(q)',
         own'[q] = own[q], foreign'[q] = foreign[q],
         shadows'[q] = shadows[q], links'[q] = links[q]
  PROVE  Excused(q)' \/ UpToDate(q)'
<1>1. CASE step'[q] = First(q)
  BY <1>1, JustBegun
<1>2. CASE step'[q] # First(q)
  <2>1. step'[q] = step[q]
    BY <1>2 DEF Ended
  <2> QED
    BY <2>1, Undisturbed DEF IInv
<1> QED
  BY <1>1, <1>2

(* A step of a pass leaves the signals alone, and only adds failures. *)
LEMMA AdvanceExcuses ==
  ASSUME TypeOK, NEW p \in Passes, Advance(p), NEW q \in Passes, Excused(q)
  PROVE  Excused(q)'
<1>1. UNCHANGED <<unannounced, signals>>
  BY DEF Advance, ReadOwn, ReadForeign, DeleteShadows, LinkShadows
<1>2. spoiled \subseteq spoiled'
  BY DEF Advance, ReadOwn, ReadForeign, DeleteShadows, LinkShadows, Returns, Got, Fail, excuses
<1> QED
  BY <1>1, <1>2 DEF Excused, Asked

(* Who returns early is excused. *)
LEMMA ReturnsUpToDate ==
  ASSUME TypeOK, IInv, NEW p \in Passes, Advance(p), Returns(p), present' = present,
         late' = late
  PROVE  IInv'
<1> SUFFICES ASSUME NEW q \in Passes
             PROVE  Excused(q)' \/ UpToDate(q)'
  BY DEF IInv
<1>1. CASE q = p
  BY <1>1 DEF Returns, Fail, Excused
<1>2. CASE q # p
  <2>1. own'[q] = own[q] /\ foreign'[q] = foreign[q] /\ shadows' = shadows /\ links' = links
    BY <1>2 DEF Returns, Forgets, TypeOK
  <2>2. step' = Ended(p)
    BY DEF Returns, Forgets
  <2> QED
    BY <1>2, <2>1, <2>2, OthersAtEnd, AdvanceExcuses
<1> QED
  BY <1>1, <1>2

(* A call that got all there is, or else excuses the pass. *)
LEMMA GotFacts ==
  ASSUME NEW p \in Passes, NEW all, NEW got, Got(p, all, got)
  PROVE  got = all \/ p \in spoiled'
BY DEF Got, Fail

LEMMA ReadOwnUpToDate ==
  ASSUME TypeOK, IInv, NEW p \in Passes, ReadOwn(p)
  PROVE  IInv'
<1>0. Advance(p) /\ present' = present /\ late' = late
  BY DEF Advance, ReadOwn, pods
<1>1. CASE Returns(p)
  BY <1>0, <1>1, ReturnsUpToDate
<1>2. CASE ~Returns(p)
  <2>1. PICK got \in SUBSET (present \cap Own(p)) :
          Got(p, present \cap Own(p), got) /\ own' = [own EXCEPT ![p] = got]
    BY <1>2 DEF ReadOwn
  <2>2. /\ step[p] = "own" /\ step' = [step EXCEPT ![p] = AfterOwn(p)]
        /\ UNCHANGED <<present, foreign, shadows, links>>
    BY <1>2 DEF ReadOwn
  <2> SUFFICES ASSUME NEW q \in Passes
               PROVE  Excused(q)' \/ UpToDate(q)'
    BY DEF IInv
  <2>3. CASE q # p
    BY <1>0, <2>1, <2>2, <2>3, Undisturbed, AdvanceExcuses DEF IInv, TypeOK
  <2>4. CASE q = p /\ got # present \cap Own(p)
    BY <2>1, <2>4, GotFacts DEF Excused
  <2>5. CASE q = p /\ got = present \cap Own(p) /\ ~Excused(p)
    <3>1. UpToDate(p)
      BY <2>5 DEF IInv
    <3>2. own'[p] = present \cap Own(p) /\ step'[p] = AfterOwn(p)
      BY <2>1, <2>2, <2>5 DEF TypeOK
    <3> QED
      BY <1>0, <2>2, <2>5, <3>1, <3>2
      DEF UpToDate, OwnRead, ForeignRead, Deleted, Obsolete, AfterOwn
  <2> QED
    BY <1>0, <2>3, <2>4, <2>5, AdvanceExcuses
<1> QED
  BY <1>1, <1>2

LEMMA ReadForeignUpToDate ==
  ASSUME TypeOK, IInv, NEW p \in Passes, ReadForeign(p)
  PROVE  IInv'
<1>0. Advance(p) /\ present' = present
  BY DEF Advance, ReadForeign
<1>3. late' = IF p = "m3_workloads" THEN {} ELSE late
  BY DEF ReadForeign
<1>1. CASE Returns(p) /\ p = "m2_blocks"
  BY <1>0, <1>1, <1>3, ReturnsUpToDate
<1>2. CASE ~(Returns(p) /\ p = "m2_blocks")
  <2>1. PICK got \in SUBSET (present \cap Foreign(p)) :
          Got(p, present \cap Foreign(p), got) /\ foreign' = [foreign EXCEPT ![p] = got]
    BY <1>2 DEF ReadForeign
  <2>2. /\ step[p] = "foreign" /\ step' = [step EXCEPT ![p] = "delete"]
        /\ UNCHANGED <<present, own, shadows, links>>
    BY <1>2 DEF ReadForeign
  <2> SUFFICES ASSUME NEW q \in Passes
               PROVE  Excused(q)' \/ UpToDate(q)'
    BY DEF IInv
  <2>3. CASE q # p
    <3>1. q # "m3_workloads" \/ late' = late
      BY <1>3, <2>3
    <3> QED
      BY <1>0, <2>1, <2>2, <2>3, <3>1, Undisturbed, AdvanceExcuses DEF IInv, TypeOK
  <2>4. CASE q = p /\ got # present \cap Foreign(p)
    BY <2>1, <2>4, GotFacts DEF Excused
  <2>5. CASE q = p /\ got = present \cap Foreign(p) /\ ~Excused(p)
    <3>1. UpToDate(p)
      BY <2>5 DEF IInv
    <3>2. foreign'[p] = present \cap Foreign(p) /\ step'[p] = "delete"
      BY <2>1, <2>2, <2>5 DEF TypeOK
    <3> QED
      BY <2>2, <2>5, <3>1, <3>2 DEF UpToDate, OwnRead, ForeignRead, Deleted, Obsolete
  <2> QED
    BY <1>0, <2>3, <2>4, <2>5, AdvanceExcuses
<1> QED
  BY <1>1, <1>2

LEMMA DeleteShadowsUpToDate ==
  ASSUME TypeOK, IInv, NEW p \in Passes, DeleteShadows(p)
  PROVE  IInv'
<1>0. Advance(p) /\ present' = present /\ late' = late
  BY DEF Advance, DeleteShadows, pods
<1>1. CASE Returns(p)
  BY <1>0, <1>1, ReturnsUpToDate
<1>2. CASE ~Returns(p)
  <2>1. PICK gone \in SUBSET ToDelete(p) :
          /\ Got(p, ToDelete(p), gone)
          /\ shadows' = [shadows EXCEPT ![p] = @ \ gone]
          /\ links' = [links EXCEPT ![p] = {e \in @ : e[2] \notin gone}]
    BY <1>2 DEF DeleteShadows
  <2>2. /\ step[p] = "delete" /\ step' = [step EXCEPT ![p] = AfterDelete(p)]
        /\ UNCHANGED <<present, own, foreign>>
    BY <1>2 DEF DeleteShadows
  <2> SUFFICES ASSUME NEW q \in Passes
               PROVE  Excused(q)' \/ UpToDate(q)'
    BY DEF IInv
  <2>3. CASE q # p
    BY <1>0, <2>1, <2>2, <2>3, Undisturbed, AdvanceExcuses DEF IInv, TypeOK
  <2>4. CASE q = p /\ gone # ToDelete(p)
    BY <2>1, <2>4, GotFacts DEF Excused
  <2>5. CASE q = p /\ gone = ToDelete(p) /\ ~Excused(p)
    <3>1. UpToDate(p)
      BY <2>5 DEF IInv
    <3>2. step'[p] = AfterDelete(p) /\ shadows'[p] = shadows[p] \ ToDelete(p)
      BY <2>1, <2>2, <2>5 DEF TypeOK
    <3>3. present \cap Foreign(p) \subseteq foreign[p] /\ foreign[p] \ present \subseteq late
      BY <2>2, <3>1 DEF UpToDate, ForeignRead
    <3>4. p # "m2_blocks" => shadows'[p] \ present \subseteq late
      BY <3>2, <3>3 DEF ToDelete, Seen
    <3>5. OwnRead(p)' => OwnRead(p)
      BY <2>2, <3>2 DEF OwnRead, AfterDelete
    <3>6. step'[p] # "idle"
      BY <3>2 DEF AfterDelete
    <3> QED
      BY <1>0, <2>2, <2>5, <3>1, <3>3, <3>4, <3>5, <3>6 DEF UpToDate, Obsolete
  <2> QED
    BY <1>0, <2>3, <2>4, <2>5, AdvanceExcuses
<1> QED
  BY <1>1, <1>2

LEMMA LinkShadowsUpToDate ==
  ASSUME TypeOK, IInv, NEW p \in Passes, LinkShadows(p)
  PROVE  IInv'
<1>0. Advance(p) /\ present' = present /\ late' = late
  BY DEF Advance, LinkShadows, pods
<1>10. PICK G \in Guesses(p) : \E made \in SUBSET (Found(p) \cup G) :
        \E linked \in SUBSET {e \in made : e[1] \in present} : Links(p, G, made, linked)
  BY DEF LinkShadows, Links
<1>11. PICK made \in SUBSET (Found(p) \cup G) :
        \E linked \in SUBSET {e \in made : e[1] \in present} : Links(p, G, made, linked)
  BY <1>10
<1>12. PICK linked \in SUBSET {e \in made : e[1] \in present} : Links(p, G, made, linked)
  BY <1>11
<1>1. /\ Got(p, <<Found(p) \cup G, {e \in made : e[1] \in present}>>, <<made, linked>>)
      /\ shadows' = [shadows EXCEPT ![p] = @ \cup {e[2] : e \in made}]
      /\ links' = [links EXCEPT ![p] = @ \cup linked]
  BY <1>12 DEF Links
<1>2. step[p] = "link" /\ Forgets(p)
  BY DEF LinkShadows
<1> SUFFICES ASSUME NEW q \in Passes
             PROVE  Excused(q)' \/ UpToDate(q)'
  BY DEF IInv
<1>3. CASE q # p
  <2>1. own'[q] = own[q] /\ foreign'[q] = foreign[q] /\ shadows'[q] = shadows[q] /\ links'[q] = links[q]
    BY <1>1, <1>2, <1>3 DEF Forgets, TypeOK
  <2> QED
    BY <1>0, <1>2, <1>3, <2>1, OthersAtEnd, AdvanceExcuses DEF Forgets
<1>4. CASE q = p /\ <<made, linked>> # <<Found(p) \cup G, {e \in made : e[1] \in present}>>
  BY <1>1, <1>4, GotFacts DEF Excused
<1>5. CASE q = p /\ <<made, linked>> = <<Found(p) \cup G, {e \in made : e[1] \in present}>>
           /\ ~Excused(p)
  <2>1. UpToDate(p)
    BY <1>5 DEF IInv
  <2>2. /\ present \cap Own(p) \subseteq own[p] /\ present \cap Foreign(p) \subseteq foreign[p]
        /\ foreign[p] \ present \subseteq late
        /\ p # "m2_blocks" => shadows[p] \ present \subseteq late
    BY <1>2, <2>1 DEF UpToDate, OwnRead, ForeignRead, Deleted, Obsolete
  <2>3. made = Found(p) \cup G /\ linked = {e \in made : e[1] \in present}
    BY <1>5
  <2>4. made \subseteq own[p] \X foreign[p]
    BY <2>3, GuessFacts
  <2>5. {e[2] : e \in made} \ present \subseteq late
    BY <2>2, <2>4
  <2>6. shadows'[p] = shadows[p] \cup {e[2] : e \in made} /\ links'[p] = links[p] \cup linked
    BY <1>1 DEF TypeOK
  <2>7. p # "m2_blocks" => shadows'[p] \ present \subseteq late
    BY <2>2, <2>5, <2>6
  <2>8. Pairs(p, present \cap Own(p), present \cap Foreign(p)) \subseteq links'[p]
    <3>1. Pairs(p, present \cap Own(p), present \cap Foreign(p)) \subseteq Found(p)
      BY <2>2 DEF Found, Pairs
    <3>2. \A e \in Pairs(p, present \cap Own(p), present \cap Foreign(p)) : e[1] \in present
      BY PairFacts
    <3> QED
      BY <2>3, <2>6, <3>1, <3>2
  <2>9. Settled(p)'
    BY <1>0, <2>7, <2>8 DEF Settled, Linked, Obsolete, Pairs
  <2>10. step'[p] = "idle"
    BY <1>2 DEF Forgets, Ended
  <2> QED
    BY <1>5, <2>9, <2>10 DEF UpToDate, OwnRead, ForeignRead, Deleted
<1> QED
  BY <1>0, <1>3, <1>4, <1>5, AdvanceExcuses

(* Every step keeps the invariant: a change asks everyone to run again, a    *)
(* signal starts from nothing, and a pass works on what is still so.         *)
LEMMA NextUpToDate ==
  ASSUME TypeOK, IInv, [Next]_vars
  PROVE  IInv'
<1>1. ASSUME NEW m \in Models, NEW o \in Kept(m), ObjectAppears(m, o) \/ ObjectGoes(m, o)
      PROVE  IInv'
  <2>1. unannounced' # {}
    BY <1>1 DEF ObjectAppears, ObjectGoes
  <2> QED
    BY <2>1 DEF IInv, Excused, Asked
<1>6. ASSUME NEW o \in Pods, PodEvicted(o)
      PROVE  IInv'
  <2>1. unannounced' # {}
    BY <1>6 DEF PodEvicted
  <2> QED
    BY <2>1 DEF IInv, Excused, Asked
<1>7. ASSUME NEW o \in Pods, EvictionHandled(o)
      PROVE  IInv'
  <2> SUFFICES ASSUME NEW p \in Passes
               PROVE  Excused(p)' \/ UpToDate(p)'
    BY DEF IInv
  <2>1. Excused(p) => Excused(p)'
    BY <1>7 DEF EvictionHandled, Deletes, Fail, excuses, Excused, Asked
  <2>2. CASE Deletes(o) /\ late' = late \cup {o}
    BY <2>1, <2>2, EvictionUpToDate DEF IInv
  <2>3. CASE UNCHANGED <<present, links, late, signals, step, own, foreign, shadows>>
    BY <2>1, <2>3, Undisturbed DEF IInv
  <2> QED
    BY <1>7, <2>2, <2>3 DEF EvictionHandled
<1>2. ASSUME NEW m \in Models, PostProcessNotifier(m)
      PROVE  IInv'
  <2>1. PICK lost \in SUBSET Models :
          /\ signals' = [n \in Models |-> IF n \in lost THEN signals[n] ELSE signals[n] + 1]
          /\ lost # {} => Fail({p \in Passes : ModelOf(p) \in lost})
    BY <1>2 DEF PostProcessNotifier
  <2> SUFFICES ASSUME NEW p \in Passes
               PROVE  Excused(p)'
    BY DEF IInv
  <2>2. CASE ModelOf(p) \in lost
    BY <2>1, <2>2 DEF Fail, Excused
  <2>3. CASE ModelOf(p) \notin lost
    BY <2>1, <2>3, PassFacts DEF Excused, Asked, TypeOK
  <2> QED
    BY <2>2, <2>3
<1>3. ASSUME NEW m \in Models, PostProcess(m)
      PROVE  IInv'
  <2> SUFFICES ASSUME NEW p \in Passes
               PROVE  Excused(p)' \/ UpToDate(p)'
    BY DEF IInv
  <2>1. UNCHANGED <<present, late, unannounced, own, foreign, shadows, links>>
    BY <1>3 DEF PostProcess, pods
  <2>2. CASE ModelOf(p) = m /\ step' = Begun(m)
    <3>1. step'[p] \in {"waiting", First(p)}
      BY <2>2 DEF Begun, ModelOf
    <3> QED
      BY <3>1, JustBegun
  <2>3. CASE ModelOf(p) = m /\ Fail(PassesOf(m))
    BY <2>3 DEF Fail, PassesOf, Excused
  <2>4. CASE ModelOf(p) # m
    <3>1. step'[p] = step[p]
      BY <1>3, <2>4 DEF PostProcess, Begun, ModelOf
    <3>2. signals'[ModelOf(p)] = signals[ModelOf(p)]
      BY <1>3, <2>4, PassFacts DEF PostProcess, TypeOK
    <3>3. p \in spoiled => p \in spoiled'
      BY <1>3, <2>4 DEF PostProcess, Fail, PassesOf
    <3> QED
      BY <2>1, <3>1, <3>2, <3>3, Undisturbed DEF IInv, Excused, Asked
  <2> QED
    BY <1>3, <2>2, <2>3, <2>4 DEF PostProcess
<1>4. ASSUME NEW p \in Passes, Advance(p)
      PROVE  IInv'
  BY <1>4, ReadOwnUpToDate, ReadForeignUpToDate, DeleteShadowsUpToDate, LinkShadowsUpToDate
  DEF Advance
<1>5. CASE UNCHANGED vars
  <2> SUFFICES ASSUME NEW p \in Passes
               PROVE  Excused(p)' \/ UpToDate(p)'
    BY DEF IInv
  <2>1. Excused(p)' <=> Excused(p)
    BY <1>5 DEF vars, excuses, Excused, Asked
  <2>2. UpToDate(p) => UpToDate(p)'
    BY <1>5, Undisturbed DEF vars, pods, pass
  <2> QED
    BY <2>1, <2>2 DEF IInv
<1> QED
  BY <1>1, <1>2, <1>3, <1>4, <1>5, <1>6, <1>7 DEF Next

LEMMA Invariance == Spec => [](TypeOK /\ IInv)
<1>1. Init => TypeOK /\ IInv
  BY InitType, InitUpToDate
<1>2. TypeOK /\ IInv /\ [Next]_vars => (TypeOK /\ IInv)'
  BY NextType, NextUpToDate
<1> QED
  BY <1>1, <1>2, PTL DEF Spec

(* Once a post-process (post_process.go of m1, m2 and m3) has nothing more    *)
(* to do, its shadows and links are right, unless a call failed: whatever     *)
(* came, went and was announced while it was between its queries.             *)
THEOREM SettleCorrect == Spec => []ShadowsSettle
<1>1. TypeOK /\ IInv => ShadowsSettle
  <2> SUFFICES ASSUME TypeOK, IInv, NEW p \in Passes, Idle(ModelOf(p))
               PROVE  Excused(p) \/ Settled(p)
    BY DEF ShadowsSettle, Excused
  <2>1. step[p] = "idle"
    BY DEF Idle, PassesOf
  <2> QED
    BY <2>1 DEF IInv, UpToDate
<1> QED
  BY <1>1, Invariance, PTL

(* The deletions of a post-process (reconcile, reconcileShadowNodes) spare    *)
(* the shadow of every object that is there, unless it runs again or failed.  *)
THEOREM LiveShadowsKept == Spec => LiveShadowsStay
<1>1. TypeOK /\ IInv /\ [Next]_vars =>
        [\A p \in Passes : \A f \in shadows[p] \cap present :
           f \in shadows'[p] \/ Asked(ModelOf(p)) \/ p \in spoiled]_vars
  <2> SUFFICES ASSUME TypeOK, IInv, Next, NEW p \in Passes, NEW f \in shadows[p] \cap present,
                      f \notin shadows'[p], ~Excused(p)
               PROVE  FALSE
    BY DEF Excused
  <2>1. ~UNCHANGED shadows
    OBVIOUS
  <2>2. PICK q \in Passes : Advance(q)
    BY <2>1 DEF Next, ObjectAppears, ObjectGoes, PodEvicted, EvictionHandled, Deletes,
       PostProcessNotifier, PostProcess, pass
  <2>3. CASE DeleteShadows(q) /\ ~Returns(q)
    <3>1. PICK gone \in SUBSET ToDelete(q) : shadows' = [shadows EXCEPT ![q] = @ \ gone]
      BY <2>3 DEF DeleteShadows
    <3>2. q = p /\ f \in gone
      BY <3>1 DEF TypeOK
    <3>3. present \cap Foreign(p) \subseteq foreign[p]
      BY <2>3, <3>2 DEF IInv, UpToDate, ForeignRead, DeleteShadows
    <3>4. f \in Foreign(p)
      BY DEF TypeOK
    <3> QED
      BY <3>2, <3>3, <3>4 DEF ToDelete
  <2>4. CASE LinkShadows(q)
    <3>1. \E S : shadows' = [shadows EXCEPT ![q] = @ \cup S]
      BY <2>4 DEF LinkShadows
    <3> QED
      BY <3>1 DEF TypeOK
  <2>5. CASE Returns(q)
    BY <2>1, <2>5 DEF Returns
  <2> QED
    BY <2>1, <2>2, <2>3, <2>4, <2>5 DEF Advance, ReadOwn, ReadForeign
<1> QED
  BY <1>1, Invariance, PTL DEF Spec, LiveShadowsStay
=============================================================================
