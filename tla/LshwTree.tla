------------------------------ MODULE LshwTree ------------------------------
(***************************************************************************)
(* The tree that `lshw -json` prints, the walk through it and the helpers  *)
(* built on it (lshw_parse.go), and what reconcileLshwGeneric makes of it. *)
(*                                                                         *)
(* A node of the tree is [class, id, says, children].  says holds what the *)
(* node states of the fields below, each of which stands for the fields    *)
(* that are read the same way: "product" (vendor, version, cores), "size", *)
(* "serial", "ip" (configuration.ip), "uuid" (configuration.uuid), "virt"  *)
(* (vmx or svm among its capabilities), "firmware" (a description that     *)
(* mentions bios or firmware).  A field it does not state is not in the    *)
(* domain.                                                                 *)
(***************************************************************************)
EXTENDS Naturals, Sequences, FiniteSets, SequencesExt

Node(class, id, says, children) ==
  [class |-> class, id |-> id, says |-> says, children |-> children]

Nothing == [f \in {} |-> ""]

\* ingestSource stores an object as it is, anything else under "data" (which is
\* not "children").  Some versions of lshw print an array.
Stored(p) == IF p.array THEN Node("", "", Nothing, <<>>) ELSE p.nodes[1]

Says(n, f) == IF f \in DOMAIN n.says THEN n.says[f] ELSE ""

\* Faulty variant: only the node and its own children are visited.
WalkOneLevel(n) == <<n>> \o n.children

\* The nodes in the order they are printed.
RECURSIVE walkLshw(_)
walkLshw(n) == <<n>> \o FlattenSeq([i \in DOMAIN n.children |-> walkLshw(n.children[i])])

\* Faulty variant: a walk with a stack, which visits the last child first.
Backwards(n) == Reverse(walkLshw(n))

Visited(n) == walkLshw(n)

findAllNodes(root, pred(_)) == SelectSeq(Visited(root), pred)

\* At most one node, the first.
findFirstNode(root, pred(_)) ==
  LET found == findAllNodes(root, pred) IN SubSeq(found, 1, IF found = <<>> THEN 0 ELSE 1)

\* The first node that states the field; also firstIP.
firstStringByKey(root, f) ==
  LET states(n) == Says(n, f) # ""
      found == findFirstNode(root, states)
  IN  IF found = <<>> THEN "" ELSE Says(found[1], f)

IsProcessor(n) == n.class = "processor"
IsFirmware(n) == n.id = "firmware" \/ Says(n, "firmware") # ""
IsDisk(n) == n.class = "disk"
IsRam(n) == n.class = "memory" /\ (n.id = "bank" \/ Says(n, "size") # "")
IsNic(n) == n.class = "network"

-----------------------------------------------------------------------------
(* What is written for each component.                                     *)

\* What the node itself states of some fields.
Own(n, fields) == [f \in fields \cap DOMAIN n.says |-> n.says[f]]

\* What the first node below it, or the node itself, states of a field.
Deep(n, f) ==
  [g \in IF firstStringByKey(n, f) = "" THEN {} ELSE {f} |-> firstStringByKey(n, f)]

ServerData(raw) == Own(raw, {"product", "uuid"}) @@ Deep(raw, "serial") @@ Deep(raw, "ip")
DeviceData(n) == Own(n, {"product", "size"}) @@ Deep(n, "serial")
NicData(n) == Own(n, {"product", "serial", "ip"})

\* Disks, RAM sticks and network adapters are named by their place (uuid.go).
Numbered(kind, nodes, Data(_)) ==
  [c \in {kind} \X (0 .. Len(nodes) - 1) |-> Data(nodes[c[2] + 1])]

Single(kind, data) == [c \in {<<kind, 0>>} |-> data]

\* The server's second update, of the flags of its processor, is an entry of
\* its own; the flags it lacks are written as well.
Components(raw) ==
  LET cpu == findFirstNode(raw, IsProcessor)
      fw == findFirstNode(raw, IsFirmware)
      CpuData(n) == Own(n, {"product"})
      VirtData(n) == [virt |-> Says(n, "virt")]
      serial == Deep(raw, "serial")
  IN  Single("server", ServerData(raw))
        @@ (IF serial = Nothing THEN <<>> ELSE Single("sn", serial))
        @@ Numbered("cpu", cpu, CpuData)
        @@ Numbered("virt", cpu, VirtData)
        @@ Numbered("bios", fw, CpuData)
        @@ Numbered("disk", findAllNodes(raw, IsDisk), DeviceData)
        @@ Numbered("ram", findAllNodes(raw, IsRam), DeviceData)
        @@ Numbered("nic", findAllNodes(raw, IsNic), NicData)

-----------------------------------------------------------------------------
(* A reference: nodes by their paths in the tree, in document order.       *)

RECURSIVE Paths(_)
Paths(n) ==
  {<<>>} \cup UNION {{<<i>> \o p : p \in Paths(n.children[i])} : i \in DOMAIN n.children}

RECURSIVE At(_, _)
At(n, path) == IF path = <<>> THEN n ELSE At(n.children[path[1]], Tail(path))

\* A path comes before those that go on from it and those that turn later.
Before(p, q) ==
  \/ Len(p) < Len(q) /\ p = SubSeq(q, 1, Len(p))
  \/ \E i \in DOMAIN p \cap DOMAIN q :
       p[i] < q[i] /\ SubSeq(p, 1, i - 1) = SubSeq(q, 1, i - 1)

IsOfKind(n, kind) ==
  \/ kind = "cpu" /\ IsProcessor(n)
  \/ kind = "bios" /\ IsFirmware(n)
  \/ kind = "disk" /\ IsDisk(n)
  \/ kind = "ram" /\ IsRam(n)
  \/ kind = "nic" /\ IsNic(n)

\* All the values of a field in the tree below a node.
Below(n, f) == {Says(At(n, p), f) : p \in Paths(n)} \ {""}

\* The devices of a tree, each by its kind and its place among its kind: what it
\* states itself, and the serial numbers stated by it or below it.
DevicesIn(root) ==
  LET devices(kind) == {p \in Paths(root) : IsOfKind(At(root, p), kind)}
      place(p, kind) == Cardinality({q \in devices(kind) : Before(q, p)})
      kinds == {"cpu", "bios", "disk", "ram", "nic"}
      named == {<<kind, p>> \in kinds \X Paths(root) : p \in devices(kind)}
      node(c) == At(root, CHOOSE p \in devices(c[1]) : place(p, c[1]) = c[2])
  IN  [c \in {<<d[1], place(d[2], d[1])>> : d \in named} |->
         [says |-> node(c).says, serials |-> Below(node(c), "serial")]]
=============================================================================
