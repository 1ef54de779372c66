---------------------------- MODULE InvoiceStates ----------------------------
(***************************************************************************)
(* The lifecycle of an invoice decision: services/invoice_state_machine.py.*)
(* InvoiceStateMachine.transition logs a forbidden transition and performs *)
(* it all the same unless it is called with strict=True, which nobody      *)
(* does, and resolve-exception does not call it: the matrix of permitted   *)
(* transitions guards nothing and is left out.                             *)
(***************************************************************************)

Held == {"ACTION_REQUIRED", "EXCEPTION_HOLD", "FLAGGED_FOR_REVIEW"}
Scheduled == {"AUTO_SCHEDULED_STP", "AUTO_APPROVED", "READY_TO_DISBURSE"}
Approved == {"APPROVED_BY_CONTROLLER", "SHORT_PAID_APPROVED"}
Rejected == {"REJECTED_RETURNED_TO_VENDOR", "REJECTED"}

InvoiceState ==
  {"INGESTED", "SETTLED", "PAYMENT_UNKNOWN", "RECONCILED"}
    \cup Held \cup Scheduled \cup Approved \cup Rejected

\* DISBURSABLE_STATES: all that disbursement may start from.
Disbursable == Scheduled \cup Approved
=============================================================================
