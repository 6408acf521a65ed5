----------------------------- MODULE MCGstPoll -----------------------------
(* GstPoll for TLC. *)
EXTENDS GstPoll

CONSTANTS t1, t2, t3, f1

MCThreads == {t1, t2, t3}
MCFds == {f1}
=============================================================================
