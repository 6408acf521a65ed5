--------------------------- MODULE MCGstPollTimer ---------------------------
(* GstPollTimer for TLC. *)
EXTENDS GstPollTimer

CONSTANTS t1, t2, t3

MCThreads == {t1, t2, t3}
=============================================================================
