--------------------------- MODULE MCShadowLinks ----------------------------
(* Instances of ShadowLinks for TLC. *)
EXTENDS ShadowLinks

CONSTANTS v, n, d, w, b1, b2

\* A deployment and its pod have the name of one block; the image of the pod
\* mentions the other one as well.
Named == {<<n, v>>, <<d, b1>>, <<w, b1>>}
Images == {<<w, b1>>, <<w, b2>>}

\* The node and the second block are not there at the start.
MCInit == Init /\ present = {v, d, w, b1}
=============================================================================
