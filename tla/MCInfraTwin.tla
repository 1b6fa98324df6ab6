---------------------------- MODULE MCInfraTwin -----------------------------
(* Instances of InfraTwin for TLC. *)
EXTENDS InfraTwin

CONSTANTS h1, h2, v1

OneHost == {h1}
TwoHosts == {h1, h2}
OneVM == {v1}
AllOnOne == [v \in VMs |-> h1]
=============================================================================
