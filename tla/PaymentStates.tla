--------------------------- MODULE PaymentStates ---------------------------
(***************************************************************************)
(* The lifecycle of a payment intent: the states of schemas.PaymentState   *)
(* and the transition matrix of services/payment_orchestrator.py,          *)
(* class PaymentStateMachine.  The matrix is only data here: dispatch,     *)
(* reconciliation and the webhook service write states without asking it,  *)
(* so "every write is in the matrix" is a property to check, never a guard.*)
(***************************************************************************)

PaymentState ==
  {"CREATED", "VALIDATED", "PENDING", "READY_FOR_SUBMISSION",
   "READY_FOR_EXECUTION", "SUBMISSION_PENDING", "SUBMITTED",
   "PROVIDER_ACKNOWLEDGED", "SETTLEMENT_PENDING", "UNKNOWN", "AMBIGUOUS",
   "BYPASSED_ZERO_PAYOUT", "CONFIRMED", "SETTLED", "RECONCILED", "FAILED",
   "CANCELLED"}

Ready         == {"READY_FOR_SUBMISSION", "READY_FOR_EXECUTION"}
Indeterminate == {"UNKNOWN", "AMBIGUOUS"}
Paid          == {"SETTLED", "CONFIRMED"}

\* The matrix as a relation; rows with the same destinations are one product,
\* and terminal states have none.
ValidTransitions ==
  UNION {
    {"CREATED"} \X {"VALIDATED", "CANCELLED"},
    {"VALIDATED", "PENDING"} \X (Ready \cup {"CANCELLED"}),
    Ready \X {"SUBMISSION_PENDING", "BYPASSED_ZERO_PAYOUT", "CANCELLED"},
    {"SUBMISSION_PENDING"} \X {"SUBMITTED"},
    {"SUBMISSION_PENDING", "SUBMITTED"} \X {"PROVIDER_ACKNOWLEDGED"},
    {"SUBMITTED", "PROVIDER_ACKNOWLEDGED"} \X {"SETTLEMENT_PENDING"},
    {"SUBMISSION_PENDING", "SUBMITTED", "PROVIDER_ACKNOWLEDGED",
     "SETTLEMENT_PENDING"} \X ({"FAILED"} \cup Paid \cup Indeterminate),
    Indeterminate \X ({"RECONCILED", "FAILED", "CANCELLED"} \cup Paid),
    {"CONFIRMED"} \X {"SETTLED", "RECONCILED"},
    {"FAILED"} \X {"CANCELLED"} }

\* PaymentStateMachine.can_transition: staying put is always allowed.
CanTransition(from, to) == from = to \/ <<from, to>> \in ValidTransitions
=============================================================================
