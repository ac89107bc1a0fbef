--------------------------- MODULE MCQuorumClient ---------------------------
(* Instances of QuorumClient for TLC.                                      *)
EXTENDS QuorumClient, TLC

Symmetry == Permutations(Callers)
=============================================================================
