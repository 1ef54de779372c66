---------------------------- MODULE MCIngestion ----------------------------
(***************************************************************************)
(* Instances of InvoiceIngestion for TLC: two files with the same invoice, *)
(* one of them an archive with a credit note and a second invoice of the   *)
(* same number; and an archive that holds these two invoices.              *)
(***************************************************************************)
EXTENDS InvoiceIngestion, StatutoryTax, TLC

CONSTANTS w1, w2, i1, i2, p1, p2, n1, archive, single, number

Contents == [f \in File |-> IF f = archive THEN <<n1, p1, p2>> ELSE <<p1>>]
Batch == [f \in File |-> <<p1, p2>>]

ReadsAs == [p \in Pdf |-> IF p = p1 THEN i1 ELSE i2]
OneNumber == [i \in Invoice |-> number]

\* A contractor's first invoice of the year.  It exceeds the credit note; an
\* approval of it, which taxes it as professional services, falls below.
Subtotal == Rupees(40000)
Gst == Rupees(7200)

PayableOf ==
  [i \in Invoice |-> Disbursement(PipelineCase(Subtotal, 0, "194C_CORP"), Gst)]
ApprovableOf ==
  [i \in Invoice |-> Disbursement(ApprovalCase(Subtotal, 0), Gst)]
FaceOf == [n \in Note |-> Rupees(45000)]

WorkerSymmetry == Permutations(Worker)
=============================================================================
