---------------------------- MODULE MCArchModel -----------------------------
(***************************************************************************)
(* Documents for ArchModel: one block; two blocks, one downstream of the   *)
(* other; a document with a link to a block it does not name; one that     *)
(* does not follow the schema.                                             *)
(***************************************************************************)
EXTENDS ArchModel

CONSTANTS front, cart

MCBlocks == {front, cart}

Document(names, links, valid) == [blocks |-> names, downstream |-> links, valid |-> valid]

Small == Document({front}, {}, TRUE)
Full == Document({front, cart}, {<<front, cart>>}, TRUE)
Dangling == Document({cart}, {<<cart, front>>}, TRUE)
Broken == Document({cart}, {}, FALSE)

MCDocs == {Full, Dangling, Broken}
GoodDocs == {Small, Full}
=============================================================================
