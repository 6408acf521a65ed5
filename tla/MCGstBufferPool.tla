-------------------------- MODULE MCGstBufferPool --------------------------
(* GstBufferPool for TLC: a pool of one buffer that is reconfigured to one *)
(* without a limit, and back.                                              *)
EXTENDS GstBufferPool

CONSTANTS t1, t2, t3

MCThreads == {t1, t2, t3}
MCConfigs == {[min |-> 1, max |-> 1], [min |-> 0, max |-> 0]}
=============================================================================
