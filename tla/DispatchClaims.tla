--------------------------- MODULE DispatchClaims ---------------------------
(***************************************************************************)
(* What the repository's documents say of dispatch and the code does not   *)
(* do.  Each statement is checked on its own, in a run that violates it.   *)
(***************************************************************************)
EXTENDS PaymentDispatch

\* "Atomically persist payment intent by idempotency_key with uniqueness
\* protection" (firestore_store.py, save_payment_intent): the gateway gets
\* payouts for this payment under one provider key only.
NoDoublePayout ==
  \A a, b \in ProviderKey : bank[a] # "none" /\ bank[b] # "none" => a = b

\* "Records outcome or transitions to AMBIGUOUS on timeout/error"
\* (dispatch_payment_intent): what is recorded as settled was paid.
OutcomeRecorded ==
  intent.status = "SETTLED" => \E k \in ProviderKey : bank[k] # "none"
=============================================================================
