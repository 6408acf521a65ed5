------------------------------ MODULE MCGstBin ------------------------------
(* GstBin for TLC. *)
EXTENDS GstBin

CONSTANTS c1, c2

MCChildren == {c1, c2}
MCGoals == States
=============================================================================
