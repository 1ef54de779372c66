------------------------- MODULE MCPaymentWebhooks -------------------------
(***************************************************************************)
(* Instances of PaymentWebhooks for TLC.                                   *)
(***************************************************************************)
EXTENDS PaymentWebhooks, TLC

CONSTANTS w1, w2, w3, k1, k2, k3, s1, s2, h1, h2

Symmetry == Permutations(Worker) \cup Permutations(ProviderKey)
              \cup Permutations(Handler)
=============================================================================
