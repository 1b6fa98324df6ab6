------------------------- MODULE MCRebuildDebounce --------------------------
(* An instance of RebuildDebounce for TLC. *)
EXTENDS RebuildDebounce

CONSTANTS t1, t2, t3, t4

MCTimers == {t1, t2, t3, t4}
=============================================================================
