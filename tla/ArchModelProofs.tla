-------------------------- MODULE ArchModelProofs --------------------------
(***************************************************************************)
(* Proofs about the architecture model, for every set of blocks and of     *)
(* documents and every bound: once everything is handled, the graph is the *)
(* one of the stored document, no block is lost sight of, and the other    *)
(* models are told of whole documents only.                                *)
(*                                                                         *)
(* The argument: whatever the last stored document is, it is still to be   *)
(* announced to the adapter, or still to be read by it, or being built, or *)
(* built (SourceIsUnderway); and at each phase of a build the graph is     *)
(* where the phase says (BuildIsOnTrack).                                  *)
(***************************************************************************)
EXTENDS ArchModel, TLAPS

\* Nobody is told of a source before there is one.
SourceIsStored == source = NoDoc => connector = "idle" /\ pushes = 0

BuildsADoc == phase # "idle" => doc \in Docs

\* The others are told at the end of a build only.
BuildIsQuiet == phase \notin {"idle", "query"} => unannounced

\* While it deletes, the adapter has every block still linked in its list, or
\* has failed to delete or to find it.
OnTrackDelete == phase = "delete" => rooted \subseteq rest \cup stray

OnTrackRoot == phase = "root" => blocks \subseteq stray

OnTrackBlocks ==
  phase = "blocks" =>
    /\ root
    /\ doc.blocks \subseteq rooted \cup rest
    /\ rest \subseteq doc.blocks
    /\ blocks \subseteq doc.blocks \cup stray
    /\ downstream \subseteq stray \X stray

OnTrackLinks ==
  phase = "links" =>
    /\ root
    /\ doc.blocks \subseteq rooted
    /\ blocks \subseteq doc.blocks \cup stray
    /\ doc.downstream \subseteq downstream \cup restLinks
    /\ restLinks \subseteq doc.downstream
    /\ downstream \subseteq doc.downstream \cup (stray \X stray)

BuildIsOnTrack == OnTrackDelete /\ OnTrackRoot /\ OnTrackBlocks /\ OnTrackLinks

\* The stored document is on its way into the graph, or there.
SourceIsUnderway ==
  (source # NoDoc /\ ~dropped) =>
    \/ connector # "idle"
    \/ pushes > 0
    \/ doc = source /\ (phase # "idle" \/ (Shows(doc) /\ ~unannounced))

ArchInv ==
  /\ TypeOK
  /\ SourceIsStored
  /\ BuildsADoc
  /\ BuildIsQuiet
  /\ NoLostBlocks
  /\ BuildIsOnTrack
  /\ SourceIsUnderway

\* The documents have the shape the constants promise.
LEMMA DocFields ==
  ASSUME NEW d \in Docs
  PROVE  d.blocks \subseteq Blocks /\ d.downstream \subseteq Blocks \X Blocks /\ d.valid \in BOOLEAN
BY DocsAssumption DEF DocType

LEMMA InitInv == Init => ArchInv
<1> SUFFICES ASSUME Init PROVE ArchInv
  OBVIOUS
<1> USE DEF Init
<1>1. TypeOK
  <2>1. InputTypeOK
    BY BoundsAssumption DEF InputTypeOK
  <2>2. BuildTypeOK /\ GraphTypeOK
    BY DEF BuildTypeOK, GraphTypeOK
  <2> QED
    BY <2>1, <2>2 DEF TypeOK
<1>2. SourceIsStored /\ BuildsADoc /\ BuildIsQuiet /\ NoLostBlocks
  BY DEF SourceIsStored, BuildsADoc, BuildIsQuiet, NoLostBlocks
<1>3. BuildIsOnTrack
  BY DEF BuildIsOnTrack, OnTrackDelete, OnTrackRoot, OnTrackBlocks, OnTrackLinks
<1>4. SourceIsUnderway
  BY DEF SourceIsUnderway
<1> QED
  BY <1>1, <1>2, <1>3, <1>4 DEF ArchInv

\* The steps outside a build.
InputStep ==
  \/ FileChanges
  \/ Tick
  \/ \E d \in Docs : IngestReturns(d) \/ IngestStores(d)
  \/ LinkSource
  \/ NotifyAdapters

\* What those steps leave alone.
LEMMA InputKeepsBuild ==
  InputStep => UNCHANGED <<build, graph, unannounced, stray>>
BY DEF InputStep, FileChanges, Tick, IngestReturns, IngestStores, LinkSource, NotifyAdapters, history

LEMMA InputTypeNext == TypeOK /\ [Next]_vars => InputTypeOK'
<1> SUFFICES ASSUME TypeOK, [Next]_vars PROVE InputTypeOK'
  OBVIOUS
<1> USE BoundsAssumption DEF TypeOK, InputTypeOK, input, ingest, history, Fail, Building
<1>1. CASE UNCHANGED vars
  BY <1>1 DEF vars
<1>2. CASE InputStep
  BY <1>2 DEF InputStep, FileChanges, Tick, Received, IngestReturns, IngestStores,
              LinkSource, NotifyAdapters
<1>3. CASE AdapterReads
  BY <1>3 DEF AdapterReads
<1>4. CASE BuildStep
  BY <1>4 DEF BuildStep, QueryBlocks, DeleteBlock, DeleteRoot, CreateRoot, MakeBlock,
              BlocksMade, MakeLink, SchemaError, Announce
<1> QED
  BY <1>1, <1>2, <1>3, <1>4 DEF Next, InputStep

LEMMA BuildTypeNext == TypeOK /\ BuildsADoc /\ [Next]_vars => BuildTypeOK'
<1> SUFFICES ASSUME TypeOK, BuildsADoc, [Next]_vars PROVE BuildTypeOK'
  OBVIOUS
<1> USE DEF TypeOK, BuildTypeOK, build, GiveUp, Building
<1>1. CASE UNCHANGED vars
  BY <1>1 DEF vars, history
<1>2. CASE InputStep
  BY <1>2, InputKeepsBuild
<1>3. CASE AdapterReads
  BY <1>3 DEF AdapterReads, InputTypeOK
<1>4. CASE QueryBlocks
  BY <1>4 DEF QueryBlocks, LinkedBlocks, GraphTypeOK
<1>5. ASSUME NEW b \in Blocks, DeleteBlock(b) \/ MakeBlock(b) PROVE BuildTypeOK'
  BY <1>5 DEF DeleteBlock, MakeBlock, history
<1>6. CASE DeleteRoot \/ SchemaError \/ Announce
  BY <1>6 DEF DeleteRoot, SchemaError, Announce, history
<1>7. CASE CreateRoot \/ BlocksMade
  BY <1>7, DocFields DEF CreateRoot, BlocksMade, BuildsADoc, history
<1>8. ASSUME NEW e \in Blocks \X Blocks, MakeLink(e) PROVE BuildTypeOK'
  BY <1>8 DEF MakeLink
<1> QED
  BY <1>1, <1>2, <1>3, <1>4, <1>5, <1>6, <1>7, <1>8 DEF Next, BuildStep, InputStep

LEMMA GraphTypeNext == TypeOK /\ [Next]_vars => GraphTypeOK'
<1> SUFFICES ASSUME TypeOK, [Next]_vars PROVE GraphTypeOK'
  OBVIOUS
<1> USE DEF TypeOK, GraphTypeOK, graph, history, GiveUp, Building
<1>1. CASE UNCHANGED vars
  BY <1>1 DEF vars
<1>2. CASE InputStep
  BY <1>2 DEF InputStep, FileChanges, Tick, IngestReturns, IngestStores, LinkSource,
              NotifyAdapters
<1>3. CASE AdapterReads
  BY <1>3 DEF AdapterReads
<1>4. CASE QueryBlocks \/ DeleteRoot \/ CreateRoot \/ BlocksMade \/ SchemaError \/ Announce
  BY <1>4 DEF QueryBlocks, DeleteRoot, CreateRoot, BlocksMade, SchemaError, Announce
<1>5. ASSUME NEW b \in Blocks, DeleteBlock(b) PROVE GraphTypeOK'
  <2>1. {e \in downstream : b \notin {e[1], e[2]}} \subseteq (blocks \ {b}) \X (blocks \ {b})
    OBVIOUS
  <2> QED
    BY <1>5, <2>1 DEF DeleteBlock
<1>6. ASSUME NEW b \in Blocks, MakeBlock(b) PROVE GraphTypeOK'
  BY <1>6 DEF MakeBlock
<1>7. ASSUME NEW e \in Blocks \X Blocks, MakeLink(e) PROVE GraphTypeOK'
  <2>1. {e[1], e[2]} \subseteq blocks => e \in blocks \X blocks
    OBVIOUS
  <2> QED
    BY <1>7, <2>1 DEF MakeLink
<1> QED
  BY <1>1, <1>2, <1>3, <1>4, <1>5, <1>6, <1>7 DEF Next, BuildStep, InputStep

LEMMA SourceNext ==
  ASSUME TypeOK, SourceIsStored, BuildsADoc, [Next]_vars
  PROVE  SourceIsStored' /\ BuildsADoc'
<1> USE BoundsAssumption, NamesAssumption
    DEF SourceIsStored, BuildsADoc, TypeOK, InputTypeOK, input, ingest, build, Building
<1>1. CASE UNCHANGED vars
  BY <1>1 DEF vars
<1>2. CASE InputStep
  <2>1. BuildsADoc'
    BY <1>2, InputKeepsBuild
  <2>2. ASSUME NEW d \in Docs, IngestStores(d) PROVE source' # NoDoc
    BY <2>2 DEF IngestStores
  <2> QED
    BY <1>2, <2>1, <2>2 DEF InputStep, FileChanges, Tick, IngestReturns, LinkSource, NotifyAdapters
<1>3. CASE AdapterReads
  BY <1>3 DEF AdapterReads
<1>4. CASE BuildStep
  BY <1>4 DEF BuildStep, QueryBlocks, DeleteBlock, DeleteRoot, CreateRoot, MakeBlock,
              BlocksMade, MakeLink, SchemaError, Announce, GiveUp
<1> QED
  BY <1>1, <1>2, <1>3, <1>4 DEF Next, InputStep

LEMMA QuietNext == BuildIsQuiet /\ [Next]_vars => BuildIsQuiet'
<1> SUFFICES ASSUME BuildIsQuiet, [Next]_vars PROVE BuildIsQuiet'
  OBVIOUS
<1> USE DEF BuildIsQuiet, build, GiveUp
<1>1. CASE UNCHANGED vars
  BY <1>1 DEF vars
<1>2. CASE InputStep
  BY <1>2, InputKeepsBuild
<1>3. CASE AdapterReads
  BY <1>3 DEF AdapterReads
<1>4. CASE BuildStep
  BY <1>4 DEF BuildStep, QueryBlocks, DeleteBlock, DeleteRoot, CreateRoot, MakeBlock,
              BlocksMade, MakeLink, SchemaError, Announce
<1> QED
  BY <1>1, <1>2, <1>3, <1>4 DEF Next, InputStep

LEMMA LostNext ==
  ASSUME TypeOK, NoLostBlocks, BuildIsOnTrack, [Next]_vars
  PROVE  NoLostBlocks'
<1> USE DEF NoLostBlocks, graph, history
<1>1. CASE UNCHANGED vars
  BY <1>1 DEF vars
<1>2. CASE InputStep
  BY <1>2, InputKeepsBuild
<1>3. CASE AdapterReads \/ QueryBlocks \/ CreateRoot \/ BlocksMade \/ SchemaError \/ Announce
  BY <1>3 DEF AdapterReads, QueryBlocks, CreateRoot, BlocksMade, SchemaError, Announce
<1>4. ASSUME NEW b \in Blocks, DeleteBlock(b) \/ MakeBlock(b) PROVE NoLostBlocks'
  BY <1>4 DEF DeleteBlock, MakeBlock
<1>5. CASE DeleteRoot
  BY <1>5 DEF DeleteRoot, BuildIsOnTrack, OnTrackDelete
<1>6. ASSUME NEW e \in Blocks \X Blocks, MakeLink(e) PROVE NoLostBlocks'
  BY <1>6 DEF MakeLink
<1> QED
  BY <1>1, <1>2, <1>3, <1>4, <1>5, <1>6 DEF Next, BuildStep, InputStep

\* The list of blocks to delete: from the lookup to the last deletion.
LEMMA OnTrackDeleteNext ==
  ASSUME OnTrackDelete, [Next]_vars
  PROVE  OnTrackDelete'
<1> USE DEF OnTrackDelete, build, graph, history, GiveUp
<1>1. CASE UNCHANGED vars
  BY <1>1 DEF vars
<1>2. CASE InputStep
  BY <1>2, InputKeepsBuild
<1>3. CASE QueryBlocks
  BY <1>3 DEF QueryBlocks, LinkedBlocks
<1>4. ASSUME NEW b \in Blocks, DeleteBlock(b) PROVE OnTrackDelete'
  BY <1>4 DEF DeleteBlock
<1>5. ASSUME NEW b \in Blocks, MakeBlock(b) PROVE OnTrackDelete'
  BY <1>5 DEF MakeBlock
<1>6. CASE AdapterReads \/ DeleteRoot \/ CreateRoot \/ BlocksMade \/ SchemaError \/ Announce
  BY <1>6 DEF AdapterReads, DeleteRoot, CreateRoot, BlocksMade, SchemaError, Announce
<1>7. ASSUME NEW e \in Blocks \X Blocks, MakeLink(e) PROVE OnTrackDelete'
  BY <1>7 DEF MakeLink
<1> QED
  BY <1>1, <1>2, <1>3, <1>4, <1>5, <1>6, <1>7 DEF Next, BuildStep, InputStep

\* Once the root is gone, only blocks that failing calls left are there; the
\* blocks of the document are added to them.
LEMMA OnTrackBlocksNext ==
  ASSUME TypeOK, BuildsADoc, NoLostBlocks, BuildIsOnTrack, [Next]_vars
  PROVE  OnTrackRoot' /\ OnTrackBlocks'
<1> USE DEF OnTrackRoot, OnTrackBlocks, BuildIsOnTrack, build, graph, history, GiveUp, Building
<1>1. CASE UNCHANGED vars
  BY <1>1 DEF vars
<1>2. CASE InputStep
  BY <1>2, InputKeepsBuild
<1>3. CASE DeleteRoot
  BY <1>3 DEF DeleteRoot, OnTrackDelete, NoLostBlocks
<1>4. CASE CreateRoot
  <2>1. downstream \subseteq stray \X stray
    BY <1>4 DEF CreateRoot, TypeOK, GraphTypeOK
  <2> QED
    BY <1>4, <2>1 DEF CreateRoot
<1>5. ASSUME NEW b \in Blocks, MakeBlock(b) PROVE OnTrackRoot' /\ OnTrackBlocks'
  BY <1>5 DEF MakeBlock
<1>6. ASSUME NEW b \in Blocks, DeleteBlock(b) PROVE OnTrackRoot' /\ OnTrackBlocks'
  BY <1>6 DEF DeleteBlock
<1>7. CASE AdapterReads \/ QueryBlocks \/ BlocksMade \/ SchemaError \/ Announce
  BY <1>7 DEF AdapterReads, QueryBlocks, BlocksMade, SchemaError, Announce
<1>8. ASSUME NEW e \in Blocks \X Blocks, MakeLink(e) PROVE OnTrackRoot' /\ OnTrackBlocks'
  BY <1>8 DEF MakeLink
<1> QED
  BY <1>1, <1>2, <1>3, <1>4, <1>5, <1>6, <1>7, <1>8 DEF Next, BuildStep, InputStep

LEMMA OnTrackLinksNext ==
  ASSUME TypeOK, BuildsADoc, BuildIsOnTrack, [Next]_vars
  PROVE  OnTrackLinks'
<1> USE DEF OnTrackLinks, BuildIsOnTrack, build, graph, history, GiveUp, Building
<1>1. CASE UNCHANGED vars
  BY <1>1 DEF vars
<1>2. CASE InputStep
  BY <1>2, InputKeepsBuild
<1>3. CASE BlocksMade
  BY <1>3 DEF BlocksMade, OnTrackBlocks
<1>4. ASSUME NEW e \in Blocks \X Blocks, MakeLink(e) PROVE OnTrackLinks'
  BY <1>4 DEF MakeLink
<1>5. ASSUME NEW b \in Blocks, DeleteBlock(b) \/ MakeBlock(b) PROVE OnTrackLinks'
  BY <1>5 DEF DeleteBlock, MakeBlock
<1>6. CASE AdapterReads \/ QueryBlocks \/ DeleteRoot \/ CreateRoot \/ SchemaError \/ Announce
  BY <1>6 DEF AdapterReads, QueryBlocks, DeleteRoot, CreateRoot, SchemaError, Announce
<1> QED
  BY <1>1, <1>2, <1>3, <1>4, <1>5, <1>6 DEF Next, BuildStep, InputStep

\* A build that is announced shows its whole document.
LEMMA AnnouncedDocIsShown == Announce /\ OnTrackLinks => Shows(doc)
BY DEF Announce, OnTrackLinks, Shows

\* A source that is stored is announced, read and built.
LEMMA UnderwayNext ==
  ASSUME TypeOK, SourceIsStored, BuildIsOnTrack, SourceIsUnderway, [Next]_vars
  PROVE  SourceIsUnderway'
<1> USE DEF SourceIsUnderway, input, ingest, build, Building
<1>1. CASE UNCHANGED vars
  BY <1>1 DEF vars, graph, history, Shows
<1>2. CASE InputStep
  <2>1. UNCHANGED <<phase, doc, root, blocks, rooted, downstream, unannounced, stray>>
    BY <1>2, InputKeepsBuild DEF graph
  <2>2. Shows(doc)' <=> Shows(doc)
    BY <2>1 DEF Shows
  <2>3. CASE FileChanges \/ Tick \/ \E d \in Docs : IngestReturns(d)
    BY <2>1, <2>2, <2>3 DEF FileChanges, Tick, IngestReturns, history
  <2>4. CASE NotifyAdapters
    BY <2>1, <2>4 DEF NotifyAdapters, TypeOK, InputTypeOK
  <2>5. CASE LinkSource \/ \E d \in Docs : IngestStores(d)
    BY <2>5 DEF LinkSource, IngestStores
  <2> QED
    BY <1>2, <2>3, <2>4, <2>5 DEF InputStep
<1>3. CASE AdapterReads
  BY <1>3 DEF AdapterReads
<1>4. CASE QueryBlocks \/ DeleteRoot \/ CreateRoot \/ BlocksMade \/ SchemaError
  BY <1>4 DEF QueryBlocks, DeleteRoot, CreateRoot, BlocksMade, SchemaError, GiveUp, history
<1>5. ASSUME NEW b \in Blocks, DeleteBlock(b) \/ MakeBlock(b) PROVE SourceIsUnderway'
  BY <1>5 DEF DeleteBlock, MakeBlock, GiveUp
<1>6. ASSUME NEW e \in Blocks \X Blocks, MakeLink(e) PROVE SourceIsUnderway'
  BY <1>6 DEF MakeLink, GiveUp
<1>7. CASE Announce
  <2>1. Shows(doc)'
    BY <1>7, AnnouncedDocIsShown DEF BuildIsOnTrack, Announce, graph, history, Shows
  <2> QED
    BY <1>7, <2>1 DEF Announce, history
<1> QED
  BY <1>1, <1>2, <1>3, <1>4, <1>5, <1>6, <1>7 DEF Next, BuildStep, InputStep

LEMMA ArchInvariant == Spec => []ArchInv
<1>1. ArchInv /\ [Next]_vars => ArchInv'
  <2> SUFFICES ASSUME ArchInv, [Next]_vars PROVE ArchInv'
    OBVIOUS
  <2>1. TypeOK'
    BY InputTypeNext, BuildTypeNext, GraphTypeNext DEF ArchInv, TypeOK
  <2>2. SourceIsStored' /\ BuildsADoc' /\ BuildIsQuiet' /\ NoLostBlocks'
    BY SourceNext, QuietNext, LostNext DEF ArchInv
  <2>3. BuildIsOnTrack'
    BY OnTrackDeleteNext, OnTrackBlocksNext, OnTrackLinksNext DEF ArchInv, BuildIsOnTrack
  <2>4. SourceIsUnderway'
    BY UnderwayNext DEF ArchInv
  <2> QED
    BY <2>1, <2>2, <2>3, <2>4 DEF ArchInv
<1> QED
  BY InitInv, <1>1, PTL DEF Spec

\* The variables keep their types; in the graph every link ends in a block.
THEOREM TypeCorrect == Spec => []TypeOK
<1>1. ArchInv => TypeOK
  BY DEF ArchInv
<1> QED
  BY ArchInvariant, <1>1, PTL

\* Builds, also the ones given up on an error, leave no block unlinked from the
\* root but those of failing calls (arch_model/main.go, delete before build).
THEOREM BlocksKept == Spec => []NoLostBlocks
<1>1. ArchInv => NoLostBlocks
  BY DEF ArchInv
<1> QED
  BY ArchInvariant, <1>1, PTL

\* The last stored document is the one the graph shows, once all is handled.
THEOREM LastDocumentWins == Spec => []ArchitectureIsSource
<1>1. ArchInv => ArchitectureIsSource
  <2> SUFFICES ASSUME ArchInv, Settled, ~dropped, source # NoDoc
               PROVE  Shows(source) /\ ~unannounced
    BY DEF ArchitectureIsSource
  <2> QED
    BY DEF ArchInv, SourceIsUnderway, Settled
<1> QED
  BY ArchInvariant, <1>1, PTL

\* PostProcessNotifier is called at the end of buildArchModel only.
THEOREM WholeDocumentsAnnounced == Spec => AnnouncedIsWhole
<1>1. ArchInv /\ [Next]_vars => (unannounced /\ ~unannounced' => Shows(doc))
  <2> SUFFICES ASSUME ArchInv, [Next]_vars, unannounced, ~unannounced' PROVE Shows(doc)
    OBVIOUS
  <2>1. CASE Announce
    BY <2>1, AnnouncedDocIsShown DEF ArchInv, BuildIsOnTrack
  <2>2. CASE InputStep
    BY <2>2, InputKeepsBuild
  <2> QED
    BY <2>1, <2>2 DEF Next, BuildStep, InputStep, vars, AdapterReads, QueryBlocks,
       DeleteBlock, DeleteRoot, CreateRoot, MakeBlock, BlocksMade, MakeLink, SchemaError
<1> QED
  BY ArchInvariant, <1>1, PTL DEF Spec, AnnouncedIsWhole

-----------------------------------------------------------------------------
(* The service follows its documents (DocumentFollower).                   *)

\* What is seen of a state from outside.
due == connector # "idle" \/ pushes > 0
work == IF phase = "idle" THEN NoDoc ELSE doc

\* Steps that leave the adapter's own state alone leave work and Shown alone.
LEMMA SeenUnchanged ==
  UNCHANGED <<phase, doc, graph, unannounced, stray>> => UNCHANGED <<work, Shown>>
BY DEF graph, work, Shown, Shows

\* What reaches the connector is stored or not; what is stored is announced.
LEMMA InputSimulation ==
  ASSUME ArchInv, InputStep
  PROVE  [Follower!Next]_(Follower!vars)
<1> USE DEF due, work, Follower!vars
<1>1. UNCHANGED <<work, Shown>>
  BY InputKeepsBuild, SeenUnchanged DEF build
<1>2. pushes \in Nat
  BY BoundsAssumption DEF ArchInv, TypeOK, InputTypeOK
<1>3. CASE FileChanges \/ Tick \/ \E d \in Docs : IngestReturns(d)
  <2>1. UNCHANGED <<source, connector, pushes, dropped>>
    BY <1>3 DEF FileChanges, Tick, IngestReturns, ingest, history
  <2> QED
    BY <1>1, <2>1
<1>4. ASSUME NEW d \in Docs, IngestStores(d) PROVE Follower!Next
  <2>1. Follower!Store(d)
    BY <1>1, <1>4 DEF IngestStores, Follower!Store
  <2> QED
    BY <2>1 DEF Follower!Next
<1>5. CASE LinkSource
  <2>1. CASE connector' = "notifying"
    <3>1. UNCHANGED <<source, pushes, dropped>> /\ due /\ due'
      BY <1>5, <2>1 DEF LinkSource
    <3> QED
      BY <1>1, <3>1
  <2>2. CASE connector' = "idle" /\ dropped'
    <3>1. Follower!Lose
      BY <1>1, <1>5, <2>2 DEF LinkSource, Follower!Lose
    <3> QED
      BY <3>1 DEF Follower!Next
  <2> QED
    BY <1>5, <2>1, <2>2 DEF LinkSource
<1>6. CASE NotifyAdapters
  <2>1. CASE pushes' = pushes + 1 /\ UNCHANGED dropped
    <3>1. UNCHANGED source /\ due /\ due'
      BY <1>2, <1>6, <2>1 DEF NotifyAdapters
    <3> QED
      BY <1>1, <2>1, <3>1
  <2>2. CASE dropped'
    <3>1. Follower!Lose
      BY <1>1, <1>6, <2>2 DEF NotifyAdapters, Follower!Lose
    <3> QED
      BY <3>1 DEF Follower!Next
  <2> QED
    BY <1>6, <2>1, <2>2 DEF NotifyAdapters
<1> QED
  BY <1>3, <1>4, <1>5, <1>6 DEF InputStep


\* The adapter reads what is stored, and its old graph counts for nothing.
LEMMA ReadSimulation ==
  ASSUME ArchInv, AdapterReads
  PROVE  Follower!Next
<1> USE DEF AdapterReads, due, work
<1>1. due /\ work = NoDoc /\ source # NoDoc /\ UNCHANGED source
  BY BoundsAssumption DEF ArchInv, TypeOK, InputTypeOK, SourceIsStored
<1>2. CASE phase' = "query" /\ doc' = source /\ ~dropped'
  <2>1. work' = source /\ Shown' = NoDoc
    BY <1>2 DEF Shown
  <2>2. dropped' = FALSE
    BY <1>2
  <2>3. Follower!Read
    BY <1>1, <2>1, <2>2 DEF Follower!Read
  <2> QED
    BY <2>3 DEF Follower!Next
<1>3. CASE UNCHANGED <<phase, doc>> /\ dropped' = TRUE
  <2>1. UNCHANGED <<work, Shown>>
    BY <1>3, SeenUnchanged
  <2>2. Follower!Lose
    BY <1>1, <1>3, <2>1 DEF Follower!Lose
  <2> QED
    BY <2>2 DEF Follower!Next
<1> QED
  BY <1>2, <1>3

\* A step in the middle of a build is not seen from outside.
LEMMA MiddleOfBuild ==
  ASSUME phase # "idle", phase' # "idle", UNCHANGED <<ingest, doc, dropped>>
  PROVE  UNCHANGED Follower!vars
<1>1. work' = work /\ Shown' = NoDoc /\ Shown = NoDoc /\ due' = due
  BY DEF work, Shown, due, ingest
<1> QED
  BY <1>1 DEF Follower!vars, work, due, ingest

\* A build that is given up leaves a graph of which nobody is told.
LEMMA GivenUpBuild ==
  ASSUME ArchInv, phase \in {"root", "blocks", "links"}, GiveUp,
         UNCHANGED <<ingest, doc, unannounced>>
  PROVE  Follower!Next
<1>1. work # NoDoc /\ work' = NoDoc
  BY NamesAssumption DEF ArchInv, BuildsADoc, GiveUp, work
<1>2. Shown = NoDoc /\ Shown' = NoDoc
  BY DEF ArchInv, BuildIsQuiet, GiveUp, Shown
<1>3. due' = due /\ source' = source
  BY DEF due, ingest
<1>4. Follower!GiveUp
  BY <1>1, <1>2, <1>3 DEF GiveUp, work, due, Follower!GiveUp
<1> QED
  BY <1>4 DEF Follower!Next

\* The announced build shows its document, whole.
LEMMA AnnouncedBuild ==
  ASSUME ArchInv, Announce
  PROVE  Follower!Next
<1>1. work # NoDoc /\ work' = NoDoc /\ work = doc
  BY NamesAssumption DEF ArchInv, BuildsADoc, Announce, work
<1>2. Shows(doc)'
  BY AnnouncedDocIsShown DEF ArchInv, BuildIsOnTrack, Announce, Building, graph, history, Shows
<1>3. Shown' = doc
  BY <1>1, <1>2 DEF Announce, Building, Shown, work
<1>4. due' = due /\ UNCHANGED <<source, dropped>>
  BY DEF Announce, Building, due, ingest, history
<1>5. Follower!Install
  BY <1>1, <1>3, <1>4 DEF work, due, Follower!Install
<1> QED
  BY <1>5 DEF Follower!Next

LEMMA BuildSimulation ==
  ASSUME ArchInv, BuildStep
  PROVE  [Follower!Next]_(Follower!vars)
<1> USE DEF Building, history
<1>1. CASE QueryBlocks \/ DeleteRoot \/ BlocksMade
  BY <1>1, MiddleOfBuild DEF QueryBlocks, DeleteRoot, BlocksMade
<1>2. ASSUME NEW b \in Blocks, DeleteBlock(b) PROVE UNCHANGED Follower!vars
  BY <1>2, MiddleOfBuild DEF DeleteBlock
<1>3. CASE CreateRoot
  <2>1. CASE phase' = "blocks" /\ UNCHANGED dropped
    BY <1>3, <2>1, MiddleOfBuild DEF CreateRoot
  <2>2. CASE GiveUp
    BY <1>3, <2>2, GivenUpBuild DEF CreateRoot
  <2> QED
    BY <1>3, <2>1, <2>2 DEF CreateRoot
<1>4. ASSUME NEW b \in Blocks, MakeBlock(b) PROVE [Follower!Next]_(Follower!vars)
  <2>1. CASE UNCHANGED <<phase, dropped>>
    BY <1>4, <2>1, MiddleOfBuild DEF MakeBlock
  <2>2. CASE GiveUp
    BY <1>4, <2>2, GivenUpBuild DEF MakeBlock
  <2> QED
    BY <1>4, <2>1, <2>2 DEF MakeBlock
<1>5. ASSUME NEW e \in Blocks \X Blocks, MakeLink(e) PROVE [Follower!Next]_(Follower!vars)
  <2>1. CASE UNCHANGED <<phase, dropped>>
    BY <1>5, <2>1, MiddleOfBuild DEF MakeLink
  <2>2. CASE GiveUp
    BY <1>5, <2>2, GivenUpBuild DEF MakeLink
  <2> QED
    BY <1>5, <2>1, <2>2 DEF MakeLink
<1>6. CASE SchemaError
  BY <1>6, GivenUpBuild DEF SchemaError
<1>7. CASE Announce
  BY <1>7, AnnouncedBuild
<1> QED
  BY <1>1, <1>2, <1>3, <1>4, <1>5, <1>6, <1>7 DEF BuildStep

LEMMA FollowerStep == ArchInv /\ [Next]_vars => [Follower!Next]_(Follower!vars)
<1> SUFFICES ASSUME ArchInv, [Next]_vars PROVE [Follower!Next]_(Follower!vars)
  OBVIOUS
<1>1. CASE UNCHANGED vars
  BY <1>1 DEF vars, ingest, build, graph, history, Follower!vars, Shown, Shows
<1>2. CASE InputStep
  BY <1>2, InputSimulation
<1>3. CASE AdapterReads
  BY <1>3, ReadSimulation
<1>4. CASE BuildStep
  BY <1>4, BuildSimulation
<1> QED
  BY <1>1, <1>2, <1>3, <1>4 DEF Next, InputStep

\* The refinement: with signals, blocks and links hidden, delete and rebuild is
\* one document that is read and shown whole, or given up on an error.
THEOREM ImplementsFollower == Spec => FollowerSpec
<1>1. Init => Follower!Init
  <2> SUFFICES ASSUME Init PROVE Follower!Init
    OBVIOUS
  <2>1. Shown = NoDoc
    BY DEF Init, Shown
  <2> QED
    BY <2>1 DEF Init, Follower!Init
<1> QED
  BY ArchInvariant, <1>1, FollowerStep, PTL DEF Spec, FollowerSpec, Follower!Spec

\* What is promised is worth having: whoever does as DocumentFollower says has
\* the stored document before it, in work, or shown, but for errors.
THEOREM FollowersKeepUp == FollowerSpec => []Follower!LatestIsFollowed
<1>1. Follower!Init => Follower!LatestIsFollowed
  BY DEF Follower!Init, Follower!LatestIsFollowed
<1>2. Follower!LatestIsFollowed /\ [Follower!Next]_(Follower!vars) => Follower!LatestIsFollowed'
  BY DEF Follower!LatestIsFollowed, Follower!Next, Follower!vars, Follower!Store, Follower!Lose,
         Follower!Read, Follower!Install, Follower!GiveUp
<1> QED
  BY <1>1, <1>2, PTL DEF FollowerSpec, Follower!Spec

\* The stored document of the architecture is never forgotten.
COROLLARY DocumentsFollowed == Spec => []Follower!LatestIsFollowed
BY ImplementsFollower, FollowersKeepUp

=============================================================================
