------------------------ MODULE MCDispatchInvariant ------------------------
(***************************************************************************)
(* Instances of DispatchInvariant for TLC.                                 *)
(***************************************************************************)
EXTENDS DispatchInvariant, TLC

CONSTANTS w1, w2, w3, k1, k2, k3, s1, s2

Symmetry == Permutations(Worker) \cup Permutations(ProviderKey)
=============================================================================
