----------------------------- MODULE MCGstQueue -----------------------------
(* Instances of the queue element for TLC. *)
EXTENDS GstQueue

MCKinds == {"buffer", "segment", "eos", "query"}
MCLeaks == {"no", "upstream", "downstream"}
=============================================================================
