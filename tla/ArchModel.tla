----------------------------- MODULE ArchModel ------------------------------
(***************************************************************************)
(* The architecture model m3, from the file to the graph.  A goroutine     *)
(* reads the architecture file every few seconds and signals its content   *)
(* to the connector (connector_kicker.go); the connector stores it, unless *)
(* the stored body is the same, and signals the adapter (json_file); the   *)
(* adapter reads what is stored, deletes the whole architecture and builds *)
(* it again, object by object, and tells the other models (arch_model).    *)
(*                                                                         *)
(* Each function handles one signal at a time.  The payloads of the kicker *)
(* may overtake each other; signals to the adapter carry nothing.  A       *)
(* document is the set of blocks it names and of the downstream links it   *)
(* lists; the order of its arrays is left open.  Every call may fail, and  *)
(* what the code does about it is part of the action.                      *)
(***************************************************************************)
EXTENDS Naturals, FiniteSets

CONSTANTS
  Blocks,      \* names of architecture blocks
  Docs,        \* documents the file may hold
  NotJson,     \* the file cannot be read or does not hold JSON
  NoDoc,       \* no document
  MaxPushes,   \* bound on the unhandled signals to the adapter
  MaxFailures  \* bound on the calls that fail

\* valid is FALSE for a document that does not follow the schema.
DocType == [blocks : SUBSET Blocks, downstream : SUBSET (Blocks \X Blocks), valid : BOOLEAN]

ASSUME DocsAssumption == Docs \subseteq DocType
ASSUME NamesAssumption == NotJson \notin Docs /\ NoDoc \notin Docs
ASSUME BoundsAssumption == MaxPushes \in Nat \ {0} /\ MaxFailures \in Nat

VARIABLES
  file,         \* what the architecture file holds
  kicker,       \* "running", or "stopped" when its goroutine has returned
  kicks,        \* documents on their way to the connector
  source,       \* the stored source object
  connector,    \* where pushUpdate of the connector stands
  pushes,       \* signals on their way to the adapter
  phase,        \* where pushUpdate of the adapter stands
  doc,          \* the document it builds
  rest,         \* blocks it has still to delete or to make
  restLinks,    \* downstream links it has still to make
  root,         \* the root object of the architecture exists
  blocks,       \* block objects
  rooted,       \* blocks linked from the root
  downstream,   \* links between blocks
  unannounced,  \* the architecture changed and the other models have not been told
  stray,        \* blocks that some failing call has left behind, now or earlier
  dropped,      \* the last push was dropped, or its build given up, on an error
  failures      \* number of calls that failed

input == <<file, kicker, kicks>>
ingest == <<source, connector, pushes>>
build == <<phase, doc, rest, restLinks>>
graph == <<root, blocks, rooted, downstream>>
history == <<stray, dropped, failures>>
vars == <<input, ingest, build, graph, unannounced, history>>

Init ==
  /\ file \in Docs
  /\ kicker = "running"
  /\ kicks = {}
  /\ source = NoDoc
  /\ connector = "idle"
  /\ pushes = 0
  /\ phase = "idle"
  /\ doc = NoDoc
  /\ rest = {}
  /\ restLinks = {}
  /\ root = FALSE
  /\ blocks = {}
  /\ rooted = {}
  /\ downstream = {}
  /\ unannounced = FALSE
  /\ stray = {}
  /\ dropped = FALSE
  /\ failures = 0

Fail == failures < MaxFailures /\ failures' = failures + 1

-----------------------------------------------------------------------------
(* The file and the goroutine that reads it.                               *)

\* Somebody edits the file; while it is written it may not be JSON.
FileChanges ==
  /\ file' \in (Docs \cup {NotJson}) \ {file}
  /\ UNCHANGED <<kicker, kicks, ingest, build, graph, unannounced, history>>

\* The next tick: the content is signalled, or the goroutine returns.
Tick ==
  /\ kicker = "running"
  /\ IF file = NotJson
       THEN kicker' = "stopped" /\ UNCHANGED kicks
       ELSE kicks' = kicks \cup {file} /\ UNCHANGED kicker
  /\ UNCHANGED <<file, ingest, build, graph, unannounced, history>>

-----------------------------------------------------------------------------
(* pushUpdate of the connector.                                            *)

Received(d) ==
  /\ d \in kicks
  /\ connector = "idle"
  /\ kicks' = kicks \ {d}

\* The stored body is the same, or it cannot be replaced.
IngestReturns(d) ==
  /\ Received(d)
  /\ \/ d = source /\ UNCHANGED failures
     \/ Fail
  /\ UNCHANGED <<file, kicker, ingest, build, graph, unannounced, stray, dropped>>

\* Faulty variant: a document that comes in during a build is not announced.
IngestWhileIdle(d) ==
  /\ Received(d)
  /\ d # source
  /\ source' = d
  /\ connector' = IF phase = "idle" THEN "linking" ELSE "idle"
  /\ UNCHANGED <<file, kicker, pushes, build, graph, unannounced, history>>

\* The body differs, or cannot be read for the comparison.
IngestStores(d) ==
  /\ Received(d)
  /\ \/ d # source /\ UNCHANGED failures
     \/ d = source /\ Fail
  /\ source' = d
  /\ connector' = "linking"
  /\ UNCHANGED <<file, kicker, pushes, build, graph, unannounced, stray, dropped>>

\* The source is linked to the connector; if that fails, nobody is told.
LinkSource ==
  /\ connector = "linking"
  /\ \/ /\ connector' = "notifying"
        /\ UNCHANGED <<dropped, failures>>
     \/ /\ connector' = "idle"
        /\ Fail
        /\ dropped' = TRUE
  /\ UNCHANGED <<input, source, pushes, build, graph, unannounced, stray>>

\* notifyAdapters ignores what fails: the query, the adapter's object, Signal.
NotifyAdapters ==
  /\ connector = "notifying"
  /\ pushes < MaxPushes
  /\ connector' = "idle"
  /\ \/ pushes' = pushes + 1 /\ UNCHANGED <<dropped, failures>>
     \/ Fail /\ dropped' = TRUE /\ UNCHANGED pushes
  /\ UNCHANGED <<input, source, build, graph, unannounced, stray>>

-----------------------------------------------------------------------------
(* pushUpdate of the adapter: deleteArchModel, then buildArchModel.        *)

\* Every step of a build leaves the input, the connector and its signals alone.
Building == UNCHANGED <<input, ingest, doc>>

\* An error: buildArchModel returns it, pushUpdate logs it.
GiveUp ==
  /\ phase' = "idle"
  /\ rest' = {}
  /\ restLinks' = {}
  /\ dropped' = TRUE

\* The adapter reads the source, or cannot.
AdapterReads ==
  /\ phase = "idle"
  /\ pushes > 0
  /\ pushes' = pushes - 1
  /\ \/ /\ phase' = "query"
        /\ doc' = source
        /\ dropped' = FALSE
        /\ UNCHANGED failures
     \/ /\ Fail
        /\ dropped' = TRUE
        /\ UNCHANGED <<phase, doc>>
  /\ UNCHANGED <<input, source, connector, rest, restLinks, graph, unannounced, stray>>

\* Faulty variant: only the blocks the new document names are looked up.
LinkedBlocksKnown == rooted \cap doc.blocks

LinkedBlocks == rooted

\* The blocks are looked up by their links from the root, or not at all.
QueryBlocks ==
  /\ phase = "query"
  /\ phase' = "delete"
  /\ \/ rest' = LinkedBlocks /\ UNCHANGED <<stray, failures>>
     \/ rest' = {} /\ stray' = stray \cup rooted /\ Fail
  /\ unannounced' = TRUE
  /\ Building
  /\ UNCHANGED <<restLinks, graph, dropped>>

\* ObjectDelete takes the links of the block with it.  A failure is logged.
DeleteBlock(b) ==
  /\ phase = "delete"
  /\ b \in rest
  /\ rest' = rest \ {b}
  /\ \/ /\ blocks' = blocks \ {b}
        /\ rooted' = rooted \ {b}
        /\ downstream' = {e \in downstream : b \notin {e[1], e[2]}}
        /\ UNCHANGED <<stray, failures>>
     \/ /\ Fail
        /\ stray' = stray \cup {b}
        /\ UNCHANGED <<blocks, rooted, downstream>>
  /\ Building
  /\ UNCHANGED <<phase, restLinks, root, unannounced, dropped>>

\* The root goes with its links, so that a block that is still linked to it is
\* never found again.  A failure is logged; deleting what is not there is one.
DeleteRoot ==
  /\ phase = "delete"
  /\ rest = {}
  /\ phase' = "root"
  /\ \/ root' = FALSE /\ rooted' = {} /\ UNCHANGED failures
     \/ Fail /\ UNCHANGED <<root, rooted>>
  /\ Building
  /\ UNCHANGED <<rest, restLinks, blocks, downstream, unannounced, stray, dropped>>

CreateRoot ==
  /\ phase = "root"
  /\ \/ /\ root' = TRUE
        /\ phase' = "blocks"
        /\ rest' = doc.blocks
        /\ UNCHANGED <<restLinks, dropped, failures>>
     \/ GiveUp /\ Fail /\ UNCHANGED root
  /\ Building
  /\ UNCHANGED <<blocks, rooted, downstream, unannounced, stray>>

\* First pass: the block, then its link from the root.  Either may fail.
MakeBlock(b) ==
  /\ phase = "blocks"
  /\ b \in rest
  /\ \/ /\ blocks' = blocks \cup {b}
        /\ rooted' = rooted \cup {b}
        /\ rest' = rest \ {b}
        /\ UNCHANGED <<phase, restLinks, stray, dropped, failures>>
     \/ GiveUp /\ Fail /\ UNCHANGED <<blocks, rooted, stray>>
     \/ /\ GiveUp /\ Fail
        /\ blocks' = blocks \cup {b}
        /\ stray' = stray \cup {b}
        /\ UNCHANGED rooted
  /\ Building
  /\ UNCHANGED <<root, downstream, unannounced>>

BlocksMade ==
  /\ phase = "blocks"
  /\ rest = {}
  /\ phase' = "links"
  /\ restLinks' = doc.downstream
  /\ Building
  /\ UNCHANGED <<rest, graph, unannounced, history>>

\* Faulty variant: the error of a link is not returned.
MakeLinkLogs(e) ==
  /\ phase = "links"
  /\ e \in restLinks
  /\ restLinks' = restLinks \ {e}
  /\ \/ downstream' = downstream \cup {e} /\ UNCHANGED failures
     \/ Fail /\ UNCHANGED downstream
  /\ Building
  /\ UNCHANGED <<phase, rest, root, blocks, rooted, unannounced, stray, dropped>>

\* Second pass.  A link to a block that is not there fails as well.
MakeLink(e) ==
  /\ phase = "links"
  /\ e \in restLinks
  /\ \/ /\ {e[1], e[2]} \subseteq blocks
        /\ downstream' = downstream \cup {e}
        /\ restLinks' = restLinks \ {e}
        /\ UNCHANGED <<phase, rest, dropped, failures>>
     \/ /\ \/ Fail
           \/ ~({e[1], e[2]} \subseteq blocks) /\ UNCHANGED failures
        /\ GiveUp
        /\ UNCHANGED downstream
  /\ Building
  /\ UNCHANGED <<root, blocks, rooted, unannounced, stray>>

\* Something in the document is not what the schema says.
SchemaError ==
  /\ phase \in {"blocks", "links"}
  /\ ~doc.valid
  /\ GiveUp
  /\ Building
  /\ UNCHANGED <<graph, unannounced, stray, failures>>

\* PostProcessNotifier.
Announce ==
  /\ phase = "links"
  /\ restLinks = {}
  /\ doc.valid
  /\ phase' = "idle"
  /\ unannounced' = FALSE
  /\ Building
  /\ UNCHANGED <<rest, restLinks, graph, history>>

BuildStep ==
  \/ QueryBlocks
  \/ \E b \in Blocks : DeleteBlock(b) \/ MakeBlock(b)
  \/ DeleteRoot
  \/ CreateRoot
  \/ BlocksMade
  \/ \E e \in Blocks \X Blocks : MakeLink(e)
  \/ SchemaError
  \/ Announce

Next ==
  \/ FileChanges
  \/ Tick
  \/ \E d \in Docs : IngestReturns(d) \/ IngestStores(d)
  \/ LinkSource
  \/ NotifyAdapters
  \/ AdapterReads
  \/ BuildStep

\* The ticker ticks, signals are handled and calls return.  Nobody need edit
\* the file.
Fairness ==
  /\ WF_vars(Tick)
  /\ \A d \in Docs : WF_vars(IngestReturns(d) \/ IngestStores(d))
  /\ WF_vars(LinkSource)
  /\ WF_vars(NotifyAdapters)
  /\ WF_vars(AdapterReads)
  /\ WF_vars(BuildStep)

Spec == Init /\ [][Next]_vars /\ Fairness

-----------------------------------------------------------------------------
InputTypeOK ==
  /\ file \in Docs \cup {NotJson}
  /\ kicker \in {"running", "stopped"}
  /\ kicks \subseteq Docs
  /\ source \in Docs \cup {NoDoc}
  /\ connector \in {"idle", "linking", "notifying"}
  /\ pushes \in 0 .. MaxPushes
  /\ failures \in 0 .. MaxFailures

BuildTypeOK ==
  /\ phase \in {"idle", "query", "delete", "root", "blocks", "links"}
  /\ doc \in Docs \cup {NoDoc}
  /\ rest \subseteq Blocks
  /\ restLinks \subseteq Blocks \X Blocks
  /\ stray \subseteq Blocks

\* Every link of the graph ends in a block that is there.
GraphTypeOK ==
  /\ {root, unannounced, dropped} \subseteq BOOLEAN
  /\ blocks \subseteq Blocks
  /\ rooted \subseteq blocks
  /\ downstream \subseteq blocks \X blocks

TypeOK == InputTypeOK /\ BuildTypeOK /\ GraphTypeOK

\* A document that can be built: it follows the schema and its links end in
\* blocks of its own.
Buildable(d) == d.valid /\ d.downstream \subseteq d.blocks \X d.blocks

\* The graph is the one of document d, but for what failing calls left behind.
Shows(d) ==
  /\ root
  /\ d.blocks \subseteq rooted
  /\ d.downstream \subseteq downstream
  /\ blocks \subseteq d.blocks \cup stray
  /\ downstream \subseteq d.downstream \cup (stray \X stray)

Settled == connector = "idle" /\ pushes = 0 /\ phase = "idle"

\* Safety: whatever comes in while the adapter deletes and builds, it ends with
\* the graph of the document that is stored, and has told the other models,
\* unless a call failed on the way of the last push.  What a failed deletion
\* left behind, and nothing else, may be there in addition.
ArchitectureIsSource ==
  (Settled /\ ~dropped /\ source # NoDoc /\ Buildable(source))
    => Shows(source) /\ ~unannounced

\* Safety: no build loses sight of a block: one that is not linked from the
\* root, and would never be deleted again, was left behind by a failing call.
NoLostBlocks == blocks \subseteq rooted \cup stray

\* Action property: the other models are told only when the whole document is
\* in the graph, whatever failed during the build.
AnnouncedIsWhole == [][unannounced /\ ~unannounced' => Shows(doc)]_vars

\* The document that is in the graph, whole, and that the others know of.
Shown ==
  IF phase = "idle" /\ doc # NoDoc /\ ~unannounced /\ Shows(doc) THEN doc ELSE NoDoc

\* Refinement: with the blocks, the links and the signals hidden, this is the
\* service of DocumentFollower.
Follower ==
  INSTANCE DocumentFollower WITH
    due <- connector # "idle" \/ pushes > 0,
    work <- IF phase = "idle" THEN NoDoc ELSE doc,
    shown <- Shown,
    excused <- dropped
FollowerSpec == Follower!Spec

\* Liveness: what the file holds is shown in the end, or it changes again, or a
\* call on the way failed, or the kicker has stopped.
FileIsBuilt ==
  \A d \in {e \in Docs : Buildable(e)} :
    (file = d) ~> (file # d \/ dropped \/ kicker = "stopped" \/ Shows(d))

-----------------------------------------------------------------------------
(* What the documentation says.                                            *)

\* "periodically reads architecture JSON and updates its graph" (README.md):
\* what the file holds is shown in the end.
FileIsShown ==
  \A d \in {e \in Docs : Buildable(e)} : (file = d) ~> (file # d \/ dropped \/ Shows(d))
=============================================================================
