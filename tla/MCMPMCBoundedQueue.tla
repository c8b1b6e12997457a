-------------------------- MODULE MCMPMCBoundedQueue --------------------------
(* Two producers and two consumers over the smallest buffer; the positions go   *)
(* more than one lap round it.                                                  *)
EXTENDS MPMCBoundedQueue, TLC

CONSTANTS p1, p2, c1, c2, v1, v2

MCProducers == {p1, p2}
MCConsumers == {c1, c2}
MCValues == {v1, v2}
MCSymmetry == Permutations(MCProducers) \cup Permutations(MCConsumers)
              \cup Permutations(MCValues)
=============================================================================
