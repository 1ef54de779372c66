--------------------------- MODULE MCProcurement ---------------------------
(***************************************************************************)
(* Instances of Procurement for TLC: one stock unit, lines within and      *)
(* over their rate, a unit listed twice, orders below and above what is    *)
(* asked for.                                                              *)
(***************************************************************************)
EXTENDS Procurement, TLC

CONSTANTS w1, w2, i1, i2, a

UnitRate == [s \in Sku |-> 100000]

Line(s, n, price) == [sku |-> s, quantity |-> n, price |-> price]

\* A line within the petty allowance; two lines of one unit, one over it.
Uploads ==
  {<<Line(a, 1, 101000)>>,
   <<Line(a, 1, 100000), Line(a, 1, 103000)>>}

OrderSizes == {[s \in Sku |-> n] : n \in {1, 3}}
NoneRejected == {[s \in Sku |-> 0]}
Fallback == [s \in Sku |-> 3]

Symmetry == Permutations(Worker) \cup Permutations(Invoice)
=============================================================================
