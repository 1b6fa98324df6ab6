---------------------------- MODULE MCDatacenter ----------------------------
(***************************************************************************)
(* Two of the leaf models of initLeafModelsList.                           *)
(***************************************************************************)
EXTENDS Datacenter

MCLinkedIDs == <<"m1", "m2">>
=============================================================================
