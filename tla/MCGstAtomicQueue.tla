-------------------------- MODULE MCGstAtomicQueue --------------------------
(* GstAtomicQueue for TLC. *)
EXTENDS GstAtomicQueue

CONSTANTS p1, p2, c1, c2

MCProducers == {p1, p2}
MCConsumers == {c1, c2}

Symmetry == Permutations(MCProducers) \cup Permutations(MCConsumers)
=============================================================================
