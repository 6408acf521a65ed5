----------------------------- MODULE MCGstTask -----------------------------
(* GstTask for TLC. *)
EXTENDS GstTask

CONSTANTS c1, c2, w1, w2, l1, l2

MCClients == {c1, c2}
MCWorkers == {w1, w2}
MCLocks == {l1, l2}
=============================================================================
