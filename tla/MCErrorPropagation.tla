------------------------ MODULE MCErrorPropagation --------------------------
(***************************************************************************)
(* Graphs for ErrorPropagation.  Layered: two pods run on a node on a      *)
(* hypervisor, the shape of the links that build, the post-processes and   *)
(* the infrastructure adapter make.  Cyclic: a pod before two objects that *)
(* propagate to and rely on each other.                                    *)
(***************************************************************************)
EXTENDS ErrorPropagation, TLC

CONSTANTS p1, p2, n1, h, a, b

Reversed(links) == {<<e[2], e[1]>> : e \in links}

LayeredObjects == {p1, p2, n1, h}
LayeredPods == {p1, p2}
LayeredPropagate == {<<p1, n1>>, <<p2, n1>>, <<n1, h>>}
LayeredRely == Reversed(LayeredPropagate)
LayeredLate == {<<n1, h>>}

\* The two pods are alike.
Symmetry == Permutations(LayeredPods)

CyclicObjects == {p1, a, b}
CyclicPods == {p1}
CyclicPropagate == {<<p1, a>>, <<a, b>>, <<b, a>>}
CyclicRely == Reversed(CyclicPropagate)
CyclicLate == {<<a, b>>}

Ticks == {1}
TicksAndTies == {0, 1}
=============================================================================
