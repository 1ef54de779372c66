------------------------- MODULE DispatchRefinement -------------------------
(***************************************************************************)
(* PaymentDispatch implements PayoutOnce once the intent is stored, no     *)
(* lease is outlived and the gateway's answers are evidence (Evidenced: a  *)
(* reference that other payouts share lets a payment be settled on theirs):*)
(* crashes, retries, lost answers and concurrent calls included.           *)
(***************************************************************************)
EXTENDS PaymentDispatch

PhaseOf(status) ==
  CASE status \in Ready             -> "open"
    [] status = "SUBMISSION_PENDING" -> "submitting"
    [] status \in Indeterminate     -> "indeterminate"
    [] status \in Paid              -> "settled"
    [] OTHER                        -> "netted"

Promise == INSTANCE PayoutOnce WITH
  phase   <- PhaseOf(intent.status),
  payouts <- {k \in ProviderKey : bank[k] # "none"}

\* Every step of dispatch, reconciliation, a crash or the gateway is a step
\* the promise allows, or leaves the payment as it was.
KeepsPromise == Promise!Spec
=============================================================================
