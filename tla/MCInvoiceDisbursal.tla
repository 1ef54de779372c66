------------------------- MODULE MCInvoiceDisbursal -------------------------
(***************************************************************************)
(* Instances of InvoiceDisbursal for TLC.                                  *)
(***************************************************************************)
EXTENDS InvoiceDisbursal, TLC

CONSTANTS p1, p2, i1, i2, v1, v2, k1, k2, k3, q1

Symmetry == Permutations(Process) \cup Permutations(Invoice)
              \cup Permutations(ProviderKey)
=============================================================================
