-------------------------- MODULE MCAccountingBooks --------------------------
(***************************************************************************)
(* Instances of AccountingBooks for TLC.                                   *)
(***************************************************************************)
EXTENDS AccountingBooks, TLC

CONSTANTS w1, w2, b1, b2, p1, p2, h1

RetainedOf == [h \in Hold |-> 3]

Symmetry ==
  Permutations(Worker) \cup Permutations(Base) \cup Permutations(Postings)
=============================================================================
