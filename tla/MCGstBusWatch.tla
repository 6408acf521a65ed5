--------------------------- MODULE MCGstBusWatch ---------------------------
(* GstBusWatch for TLC. *)
EXTENDS GstBusWatch

CONSTANTS t1, t2, t3, s1, s2

MCCallers == {t1, t2, t3}
MCSources == {s1, s2}
Symmetry == Permutations(MCCallers) \cup Permutations(MCSources)
=============================================================================
