------------------------- MODULE DisbursalInvariant -------------------------
(***************************************************************************)
(* The inductive invariant behind SettledAsAgreed, PaidAsApproved and      *)
(* PaidOnce of InvoiceDisbursal.  The first speaks of the file, but any    *)
(* copy of it may become the file, so what is claimed of the file must     *)
(* hold of every copy, however old.                                        *)
(***************************************************************************)
EXTENDS InvoiceDisbursal

\* A process is between the accesses of a dispatch.
Calling(p) == ~CallAt(p, "none")

\* What an endpoint has yet to pay passed the guard, and was not touched since.
DueInv ==
  \A p \in Process : at[p] \in {"dispatch", "bulk"} =>
    \A i \in job[p].todo : Payable(copy[p][i])

\* A call is for a decision its process has yet to pay, on the decision's terms.
CallInv ==
  \A p \in Process : Calling(p) =>
    /\ at[p] \in {"dispatch", "bulk"}
    /\ call[p].account \in Account
    /\ call[p].account[2] \in job[p].todo
    /\ call[p].account[1] = copy[p][call[p].account[2]].vendor
    /\ call[p].terms = copy[p][call[p].account[2]].terms
    /\ call[p].account[3] <= year
    /\ call[p].key \in ProviderKey

\* A provider key stands for the terms it was drawn with.
KeyInv ==
  \A p \in Process : Calling(p) =>
    /\ Exists(call[p].account) /\ Stored(p).key = call[p].key =>
         Stored(p).terms = call[p].terms
    /\ \A q \in Process :
         Calling(q) /\ call[q].account = call[p].account /\ call[q].key = call[p].key
           => call[q].terms = call[p].terms

\* Until calls meet each other's intents, a call about to pay holds the stored
\* intent, a payout is of the stored intent of its account, and a settled intent
\* has its payout where its number has one account.
MoneyInv ==
  ~forked =>
    /\ \A p \in Process :
         CallAt(p, "pay") => Exists(call[p].account) /\ Stored(p).key = call[p].key
    /\ \A r \in payouts :
         /\ Exists(r.account)
         /\ intent[r.account].key = r.key
         /\ intent[r.account].terms = r.terms
    /\ Evidenced => \A a \in Account :
         intent[a].phase = "settled" /\ OneAccount(a[2]) =>
           \E r \in payouts : r.account = a

\* What a call is about to pay, what is stored and what was paid was approved.
ApprovalInv ==
  ApprovalsHold =>
    /\ \A p \in Process : Calling(p) =>
         <<call[p].account[1], call[p].account[2], call[p].terms>> \in approved
    /\ \A a \in Account : Exists(a) => <<a[1], a[2], intent[a].terms>> \in approved
    /\ \A r \in payouts : <<r.account[1], r.account[2], r.terms>> \in approved

\* A decision was made disbursable on its terms.  If it shows as settled it was
\* approved, has an intent and is paid, as far as callbacks, credits and the
\* year allow.
Sound(i, d) ==
  /\ d.status \in Disbursable => <<d.vendor, i, d.terms>> \in approved
  /\ d.status = "SETTLED" /\ "webhook" \notin Endpoint =>
       /\ "credit" \notin Endpoint => <<d.vendor, i, d.terms>> \in approved
       /\ year = 0 => Exists(<<d.vendor, i, 0>>)
       /\ "credit" \notin Endpoint /\ Evidenced /\ ~forked /\ OneAccount(i) =>
            PaidFor(i, d)

\* What the file and the copies show for an invoice number.
Shown(i) == {file[i]} \cup {copy[p][i] : p \in Process}

HistoryInv ==
  /\ DisbursalTypeOK
  /\ DueInv
  /\ CallInv
  /\ KeyInv
  /\ MoneyInv
  /\ ApprovalInv
  /\ \A i \in Invoice : \A d \in Shown(i) : Sound(i, d)
=============================================================================
