---------------------------- MODULE MCK8sWatcher ----------------------------
(* An instance of K8sWatcher for TLC. *)
EXTENDS K8sWatcher

CONSTANT t1

MCTimers == {t1}
MCKinds == {"node", "pod"}

Change(kind, op) == [kind |-> kind, op |-> op]

MCChanges == {Change("node", "ADD"), Change("pod", "UPDATE"), Change("pod", "DELETE")}
=============================================================================
