----------------------------- MODULE PayoutOnce -----------------------------
(***************************************************************************)
(* What dispatch promises about one payment, whoever runs it and however   *)
(* often: money is requested only under a claim, at most once, and the     *)
(* payment is called settled only when it was.  An indeterminate payment   *)
(* is never claimed again; only evidence of the payout ends it.            *)
(***************************************************************************)
CONSTANT ProviderKey
VARIABLES phase, payouts

Phase == {"open", "submitting", "indeterminate", "settled", "netted"}

Init ==
  /\ phase \in {"open", "netted"}
  /\ payouts = {}

Claim ==
  /\ phase \in {"open", "submitting"}
  /\ phase' = "submitting"
  /\ UNCHANGED payouts

Pay(k) ==
  /\ phase \in {"submitting", "indeterminate"}
  /\ payouts = {}
  /\ payouts' = {k}
  /\ UNCHANGED phase

Doubt ==
  /\ phase = "submitting"
  /\ phase' = "indeterminate"
  /\ UNCHANGED payouts

Settle ==
  /\ phase \in {"submitting", "indeterminate"}
  /\ payouts # {}
  /\ phase' = "settled"
  /\ UNCHANGED payouts

Next == Claim \/ (\E k \in ProviderKey : Pay(k)) \/ Doubt \/ Settle

Spec == Init /\ [][Next]_<<phase, payouts>>
=============================================================================
