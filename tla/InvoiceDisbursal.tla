-------------------------- MODULE InvoiceDisbursal --------------------------
(***************************************************************************)
(* The decision history of main.py and the endpoints that read and write   *)
(* it: upload, resolve-exception, disburse, bulk-disburse, set-active, the *)
(* credit-note upload, the bank-payout webhook and the treasury reset.     *)
(*                                                                         *)
(* The history is one JSON file shared by the worker processes.  Every     *)
(* endpoint loads the whole file into the process's memory, works on that  *)
(* copy and writes the whole copy back.  Within a process an endpoint runs *)
(* from load to save without giving way (it awaits nothing in between);    *)
(* other processes load and save meanwhile.                                *)
(*                                                                         *)
(* A disbursal reads the payment intent (get_or_create_payment_intent),    *)
(* reads it again (dispatch_payment_intent), saves it if the second read   *)
(* found none, and pays.  Processes interleave between these accesses.     *)
(* What happens under the dispatch lease is one step: it does to the       *)
(* payment what PayoutOnce promises and PaymentDispatch keeps.             *)
(*                                                                         *)
(* A decision is found by its invoice number alone.  A payment goes by the *)
(* vendor, the number and the fiscal year on the clock when it is asked    *)
(* for: decisions carry neither fiscal_year nor invoice_date.              *)
(***************************************************************************)
EXTENDS Naturals, FiniteSets, InvoiceStates

CONSTANTS
  Process,     \* worker processes (uvicorn --workers)
  Invoice,     \* invoice numbers
  Vendor,      \* vendors, each with a PAN of its own
  ProviderKey, \* the values uuid4() can return
  ClientKey,   \* X-Idempotency-Key values clients send
  NoKey,       \* no such header; a decision without a key
  IntentKey,   \* the intent's own key, recorded when the client sent none
  Verdict,     \* statuses the policy engine gives an uploaded invoice
  Endpoint,    \* the endpoints in use
  MaxRequests, \* bound: state-changing requests in all
  MaxCuts,     \* bound: reductions of an invoice's payable amount
  MaxYear,     \* bound: how often the fiscal year turns
  Evidenced,   \* the gateway refuses nothing, and what it lists under an
               \* invoice number are payouts of disbursals
  SaveFaults   \* a write may fail, which is only logged

ASSUME DisbursalAssumption ==
  /\ Verdict \subseteq InvoiceState \ {"SETTLED"}
  /\ MaxRequests \in Nat /\ MaxCuts \in Nat /\ MaxYear \in Nat
  /\ {SaveFaults, Evidenced} \subseteq BOOLEAN
  /\ Vendor # {} /\ NoKey \notin ProviderKey
  /\ NoKey \notin ClientKey /\ IntentKey \notin ClientKey /\ NoKey # IntentKey

VARIABLES
  present,   \* the history file exists
  file,      \* its decisions, by invoice number
  copy,      \* GLOBAL_DECISION_HISTORY of each process
  at,        \* what each process does next
  job,       \* what a running endpoint works on, has yet to pay, and its key
  upload,    \* uploads past their duplicate check, by process and business key
  processed, \* business keys marked as processed in the store
  year,      \* the fiscal year on the clock
  intent,    \* the stored payment intents, by account
  call,      \* the dispatch a process is in: its next access and intent object
  payouts,   \* what the gateway was asked to pay
  forked,    \* history: a call met an intent other than the one it holds
  approved,  \* history: terms a decision was ever made disbursable under
  requests   \* state-changing requests so far

historyVars == <<present, file, copy, at, job>>
uploadVars == <<upload, processed>>
paymentVars == <<intent, call, payouts, forked>>
disbursalVars ==
  <<historyVars, uploadVars, year, paymentVars, approved, requests>>

\* By how many reductions the payable amount is cut; it stays a rupee or more.
Amount == 0 .. MaxCuts

Year == 0 .. MaxYear

\* The parts of the idempotency key of a payment, vendor_id, invoice_number and
\* fiscal_year, and of the business key of an upload.
Account == Vendor \X Invoice \X Year

Decision ==
  [status: InvoiceState \cup {"ABSENT"}, vendor: Vendor, terms: Amount,
   disbursed: BOOLEAN, key: ClientKey \cup {NoKey, IntentKey}]

Job ==
  [invoices: SUBSET Invoice, todo: SUBSET Invoice,
   key: ClientKey \cup {NoKey, IntentKey}]

Intent ==
  [phase: {"none", "open", "indeterminate", "settled"}, terms: Amount,
   key: ProviderKey \cup {NoKey}]

Call ==
  [at: {"none", "look", "store", "pay"}, account: Account \cup {NoKey},
   terms: Amount, key: ProviderKey \cup {NoKey}]

\* A number without a decision.
NoDecision ==
  [status |-> "ABSENT", vendor |-> CHOOSE v \in Vendor : TRUE, terms |-> 0,
   disbursed |-> FALSE, key |-> NoKey]

EmptyHistory == [i \in Invoice |-> NoDecision]
NoJob == [invoices |-> {}, todo |-> {}, key |-> NoKey]
NoIntent == [phase |-> "none", terms |-> 0, key |-> NoKey]
NoCall == [at |-> "none", account |-> NoKey, terms |-> 0, key |-> NoKey]

Known(d) == d.status # "ABSENT"
Idle(p) == at[p] = "idle"

\* Slip: a process that has a history does not read the file again.
Loaded_Cached(p) == IF copy[p] = EmptyHistory THEN file ELSE copy[p]

\* load_decision_history: without a file the process keeps what it has.
Loaded(p) == IF present THEN file ELSE copy[p]

\* A request works on history h and goes on at a label.
Proceed(p, label, h, j) ==
  /\ at' = [at EXCEPT ![p] = label]
  /\ copy' = [copy EXCEPT ![p] = h]
  /\ job' = [job EXCEPT ![p] = j]

Finish(p) ==
  /\ at' = [at EXCEPT ![p] = "idle"]
  /\ job' = [job EXCEPT ![p] = NoJob]

Begin(p, endpoint) ==
  /\ Idle(p)
  /\ endpoint \in Endpoint
  /\ requests < MaxRequests
  /\ requests' = requests + 1

\* Notes that a decision was made disbursable, on its terms.
Approve(i, d) ==
  approved' = IF d.status \in Disbursable
                THEN approved \cup {<<d.vendor, i, d.terms>>} ELSE approved
-----------------------------------------------------------------------------
DisbursalInit ==
  /\ present = FALSE
  /\ file = EmptyHistory
  /\ copy = [p \in Process |-> EmptyHistory]
  /\ at = [p \in Process |-> "idle"]
  /\ job = [p \in Process |-> NoJob]
  /\ upload = [p \in Process |-> [a \in Account |-> "none"]]
  /\ processed = {}
  /\ year = 0
  /\ intent = [a \in Account |-> NoIntent]
  /\ call = [p \in Process |-> NoCall]
  /\ payouts = {}
  /\ forked = FALSE
  /\ approved = {}
  /\ requests = 0

\* The endpoints that only read the history, and requests that are turned away
\* after reading it.
ReadHistory(p) ==
  /\ Idle(p)
  /\ copy' = [copy EXCEPT ![p] = Loaded(p)]
  /\ UNCHANGED <<present, file, at, job, uploadVars, year, paymentVars, approved,
                 requests>>

\* One decision is replaced in the loaded history, which is saved next.
Replace(p, i, d) ==
  /\ Proceed(p, "save", [Loaded(p) EXCEPT ![i] = d],
             [NoJob EXCEPT !.invoices = {i}])
  /\ Approve(i, d)
  /\ UNCHANGED <<present, file, year, paymentVars>>

Edit(p, endpoint, i, d) ==
  /\ Begin(p, endpoint)
  /\ Replace(p, i, d)
  /\ UNCHANGED uploadVars

\* save_decision_history replaces the whole file, or fails and is only logged.
Written(p) ==
  \/ present' = TRUE /\ file' = copy[p]
  \/ SaveFaults /\ UNCHANGED <<present, file>>

SaveHistory(p) ==
  /\ at[p] = "save"
  /\ Written(p)
  /\ Finish(p)
  /\ UNCHANGED <<copy, uploadVars, year, paymentVars, approved, requests>>
-----------------------------------------------------------------------------
(***************************************************************************)
(* Uploads: a duplicate check, the pipeline, the decision recorded, and    *)
(* only then the invoice marked as processed; the request gives way in     *)
(* between.                                                                *)
(***************************************************************************)
CheckUpload(p, a) ==
  /\ Idle(p)
  /\ "upload" \in Endpoint
  /\ requests < MaxRequests
  /\ a[3] = year
  /\ a \notin processed
  /\ upload[p][a] = "none"
  /\ upload' = [upload EXCEPT ![p][a] = "checked"]
  /\ requests' = requests + 1
  /\ UNCHANGED <<historyVars, processed, year, paymentVars, approved>>

\* record_live_decision_state puts a new decision in the place of any other
\* with the invoice's number.
RecordDecision(p, a, verdict) ==
  /\ Idle(p)
  /\ upload[p][a] = "checked"
  /\ upload' = [upload EXCEPT ![p][a] = "recorded"]
  /\ Replace(p, a[2], [NoDecision EXCEPT !.status = verdict, !.vendor = a[1]])
  /\ UNCHANGED <<processed, requests>>

MarkProcessed(p, a) ==
  /\ upload[p][a] = "recorded"
  /\ a[2] \notin job[p].invoices
  /\ upload' = [upload EXCEPT ![p][a] = "none"]
  /\ processed' = processed \cup {a}
  /\ UNCHANGED <<historyVars, year, paymentVars, approved, requests>>
-----------------------------------------------------------------------------
(***************************************************************************)
(* Edits of one decision.                                                  *)
(***************************************************************************)
\* resolve-exception: OVERRIDE, REJECT and SHORT_PAY, whatever the status is.
ResolveException(p, i) ==
  LET d == Loaded(p)[i] IN
  /\ Known(d)
  /\ \/ \E s \in {"APPROVED_BY_CONTROLLER", "REJECTED_RETURNED_TO_VENDOR"} :
          Edit(p, "resolve", i, [d EXCEPT !.status = s])
     \/ /\ d.terms < MaxCuts
        /\ Edit(p, "resolve", i, [d EXCEPT !.status = "SHORT_PAID_APPROVED",
                                           !.terms = @ + 1])

\* A credit note reduces what a decision pays, whatever its status is.
UploadCredit(p, i) ==
  LET d == Loaded(p)[i] IN
  /\ Known(d)
  /\ d.terms < MaxCuts
  /\ Edit(p, "credit", i, [d EXCEPT !.terms = @ + 1])

\* The bank-payout webhook looks at the invoice number only, not at the event.
BankPayoutWebhook(p, i) ==
  LET d == Loaded(p)[i] IN
  /\ Known(d)
  /\ Edit(p, "webhook", i, [d EXCEPT !.status = "SETTLED"])

\* set-active reorders the history: the decisions are written back as loaded.
SetActive(p, i) ==
  LET d == Loaded(p)[i] IN
  /\ Known(d)
  /\ Edit(p, "setActive", i, d)

\* The reset saves an empty history and then removes the file.
ResetTreasury(p) ==
  /\ Begin(p, "reset")
  /\ Proceed(p, "clear", EmptyHistory, NoJob)
  /\ UNCHANGED <<present, file, uploadVars, year, paymentVars, approved>>

ClearHistory(p) ==
  /\ at[p] = "clear"
  /\ Written(p)
  /\ at' = [at EXCEPT ![p] = "remove"]
  /\ UNCHANGED <<copy, job, uploadVars, year, paymentVars, approved, requests>>

RemoveFile(p) ==
  /\ at[p] = "remove"
  /\ \/ present' = FALSE /\ file' = EmptyHistory
     \/ SaveFaults /\ UNCHANGED <<present, file>>
  /\ Finish(p)
  /\ UNCHANGED <<copy, uploadVars, year, paymentVars, approved, requests>>
-----------------------------------------------------------------------------
(***************************************************************************)
(* Disbursement.                                                           *)
(***************************************************************************)
\* A repeated request for a settled decision gets the recorded answer.
AnsweredBefore(d, key) == d.status = "SETTLED" /\ key # NoKey /\ d.key = key

\* Slip: held and rejected decisions are payable too.
Payable_Any(d) == Known(d)

\* The guard of disburse: disbursable, or settled already.
Payable(d) == d.status \in Disbursable \cup {"SETTLED"}

Disburse(p, i, key) ==
  LET d == Loaded(p)[i] IN
  /\ ~AnsweredBefore(d, key)
  /\ Payable(d)
  /\ Begin(p, "disburse")
  /\ Proceed(p, "dispatch", Loaded(p),
             [invoices |-> {i}, todo |-> {i}, key |-> key])
  /\ UNCHANGED <<present, file, uploadVars, year, paymentVars, approved>>

\* bulk-disburse visits whatever is disbursable and not yet disbursed.
BulkDisburse(p) ==
  LET due == {i \in Invoice : /\ Loaded(p)[i].status \in Disbursable
                              /\ ~Loaded(p)[i].disbursed}
  IN
  /\ Begin(p, "bulk")
  /\ Proceed(p, "bulk", Loaded(p),
             [invoices |-> due, todo |-> due, key |-> NoKey])
  /\ UNCHANGED <<present, file, uploadVars, year, paymentVars, approved>>

\* Slip: an ambiguous answer is recorded like a success.
Recorded_Settled(d, answer, key) ==
  [d EXCEPT !.status = "SETTLED", !.disbursed = TRUE, !.key = key]

\* Slip: the answer itself becomes the status.
Recorded_Raw(d, answer, key) == [d EXCEPT !.status = answer, !.key = key]

\* What the answer makes of the decision.
Recorded(d, answer, key) ==
  IF answer = "SUCCESS"
    THEN [d EXCEPT !.status = "SETTLED", !.disbursed = TRUE, !.key = key]
    ELSE [d EXCEPT !.status = "PAYMENT_UNKNOWN", !.disbursed = FALSE,
                   !.key = key]

\* A dispatch answers for its invoice.  An error ends a disburse without a
\* save; in bulk it leaves the decision as it is, and the rest goes on.
Answered(p, i, answer) ==
  LET d == copy[p][i]
      key == CASE at[p] = "bulk" /\ answer = "AMBIGUOUS" -> d.key
               [] job[p].key = NoKey                     -> IntentKey
               [] OTHER                                  -> job[p].key
      h == IF answer = "ERROR" THEN copy[p]
             ELSE [copy[p] EXCEPT ![i] = Recorded(d, answer, key)]
  IN
  /\ call' = [call EXCEPT ![p] = NoCall]
  /\ \/ at[p] = "bulk" /\ Proceed(p, "bulk", h, [job[p] EXCEPT !.todo = @ \ {i}])
     \/ at[p] = "dispatch" /\ answer # "ERROR" /\ Proceed(p, "save", h, job[p])
     \/ at[p] = "dispatch" /\ answer = "ERROR" /\ Finish(p) /\ UNCHANGED copy
  /\ UNCHANGED <<present, file, uploadVars, year, approved, requests>>

CallAt(p, label) == call[p].at = label

\* The dispatch goes on with its next access.
Access(p, label) ==
  /\ call' = [call EXCEPT ![p].at = label]
  /\ UNCHANGED <<historyVars, uploadVars, year, approved, requests>>

Exists(a) == intent[a].phase # "none"
Stored(p) == intent[call[p].account]

\* The stored intent is not the one the call holds.
Foreign(p) == Exists(call[p].account) /\ Stored(p).key # call[p].key

\* What the intent object held asks the gateway for.
Payout(p) ==
  [account |-> call[p].account, terms |-> call[p].terms, key |-> call[p].key]

\* Provider keys that an intent, a call or a payout carries.
InUse ==
  {intent[a].key : a \in Account} \cup {call[p].key : p \in Process}
    \cup {r.key : r \in payouts}

\* The provider key of an intent object: the stored one, or a new uuid4.
HeldKey(a, k) == IF Exists(a) THEN k = intent[a].key ELSE k \notin InUse

\* Slip: an intent that is found goes for any terms.
SameTerms_Any(a, t) == TRUE

\* An intent that is found must have been made out on the same terms.
SameTerms(a, t) == Exists(a) => intent[a].terms = t

\* get_or_create_payment_intent reads the intent of the decision's vendor and
\* number in the year on the clock.
GetOrCreate(p, i, k) ==
  LET d == copy[p][i]
      a == <<d.vendor, i, year>>
  IN
  /\ at[p] \in {"dispatch", "bulk"}
  /\ CallAt(p, "none")
  /\ i \in job[p].todo
  /\ SameTerms(a, d.terms)
  /\ HeldKey(a, k)
  /\ call' = [call EXCEPT ![p] =
                [at |-> "look", account |-> a, terms |-> d.terms, key |-> k]]
  /\ UNCHANGED <<historyVars, uploadVars, year, intent, payouts, forked, approved,
                 requests>>

\* Other terms are refused; and any access of a dispatch may end in an error,
\* as does a lease not got or a claim not won.
Refuse(p, i) ==
  /\ at[p] \in {"dispatch", "bulk"}
  /\ IF CallAt(p, "none") THEN i \in job[p].todo ELSE i = call[p].account[2]
  /\ Answered(p, i, "ERROR")
  /\ UNCHANGED <<intent, payouts, forked>>

\* dispatch_payment_intent reads the intent again and goes on with the object
\* it was given, whatever the second read brings.
LookAgain(p) ==
  /\ CallAt(p, "look")
  /\ Stored(p).phase \in {"none", "open"}
  /\ Access(p, IF Exists(call[p].account) THEN "pay" ELSE "store")
  /\ forked' = (forked \/ Foreign(p))
  /\ UNCHANGED <<intent, payouts>>

\* A settled payment is answered from the store.
AnswerSettled(p) ==
  /\ CallAt(p, "look")
  /\ Stored(p).phase = "settled"
  /\ Answered(p, call[p].account[2], "SUCCESS")
  /\ forked' = (forked \/ Foreign(p))
  /\ UNCHANGED <<intent, payouts>>

\* The status of the stored intent is updated; a failure is ignored.
Update(a, phase) ==
  \/ intent' = [intent EXCEPT ![a].phase = phase]
  \/ SaveFaults /\ UNCHANGED intent

\* A doubtful payment is settled on a payout listed under the invoice number,
\* whichever vendor and year it is of.
Reconcile(p) ==
  /\ CallAt(p, "look")
  /\ Stored(p).phase = "indeterminate"
  /\ Evidenced => \E r \in payouts : r.account[2] = call[p].account[2]
  /\ Update(call[p].account, "settled")
  /\ Answered(p, call[p].account[2], "SUCCESS")
  /\ forked' = (forked \/ Foreign(p))
  /\ UNCHANGED payouts

\* save_payment_intent sets the whole document, whatever it holds by now.
StoreIntent(p) ==
  /\ CallAt(p, "store")
  /\ intent' = [intent EXCEPT ![call[p].account] =
                  [phase |-> "open", terms |-> call[p].terms, key |-> call[p].key]]
  /\ forked' = (forked \/ Exists(call[p].account))
  /\ Access(p, "pay")
  /\ UNCHANGED payouts

\* Under the lease the payment is made, or left in doubt whether it was made or
\* not.  A refused submission counts as made.
Pay(p, answer) ==
  /\ CallAt(p, "pay")
  /\ Stored(p).phase = "open"
  /\ \/ /\ answer = "SUCCESS"
        /\ \/ payouts' = payouts \cup {Payout(p)}
           \/ ~Evidenced /\ UNCHANGED payouts
        /\ Update(call[p].account, "settled")
     \/ /\ answer = "AMBIGUOUS"
        /\ payouts' \in {payouts, payouts \cup {Payout(p)}}
        /\ Update(call[p].account, "indeterminate")
  /\ Answered(p, call[p].account[2], answer)
  /\ UNCHANGED forked

\* Another call settled the payment while this one was on its way to the lease.
FindPaid(p) ==
  /\ CallAt(p, "pay")
  /\ Stored(p).phase = "settled"
  /\ Answered(p, call[p].account[2], "SUCCESS")
  /\ UNCHANGED <<intent, payouts, forked>>

BulkDone(p) ==
  /\ at[p] = "bulk"
  /\ job[p].todo = {}
  /\ at' = [at EXCEPT ![p] = "save"]
  /\ UNCHANGED <<present, file, copy, job, uploadVars, year, paymentVars, approved,
                 requests>>

\* A process dies and is started again; a dispatch under its lease may have
\* asked for the payout.
CrashProcess(p) ==
  /\ \/ UNCHANGED payouts
     \/ /\ CallAt(p, "pay")
        /\ Stored(p).phase = "open"
        /\ payouts' = payouts \cup {Payout(p)}
  /\ at' = [at EXCEPT ![p] = "idle"]
  /\ job' = [job EXCEPT ![p] = NoJob]
  /\ call' = [call EXCEPT ![p] = NoCall]
  /\ copy' = [copy EXCEPT ![p] = EmptyHistory]
  /\ upload' = [upload EXCEPT ![p] = [a \in Account |-> "none"]]
  /\ UNCHANGED <<present, file, processed, year, intent, forked, approved, requests>>

\* The first of April.
NewYear ==
  /\ year < MaxYear
  /\ year' = year + 1
  /\ UNCHANGED <<historyVars, uploadVars, paymentVars, approved, requests>>
-----------------------------------------------------------------------------
Record(p) ==
  \/ ReadHistory(p) \/ SaveHistory(p)
  \/ ResetTreasury(p) \/ ClearHistory(p) \/ RemoveFile(p)
  \/ \E a \in Account :
       \/ CheckUpload(p, a) \/ MarkProcessed(p, a)
       \/ \E v \in Verdict : RecordDecision(p, a, v)
  \/ \E i \in Invoice :
       \/ ResolveException(p, i) \/ UploadCredit(p, i)
       \/ BankPayoutWebhook(p, i) \/ SetActive(p, i)

Settle(p) ==
  \/ BulkDisburse(p) \/ BulkDone(p)
  \/ \E i \in Invoice :
       \/ \E key \in ClientKey \cup {NoKey} : Disburse(p, i, key)
       \/ \E k \in ProviderKey : GetOrCreate(p, i, k)
       \/ Refuse(p, i)
  \/ LookAgain(p) \/ AnswerSettled(p) \/ Reconcile(p) \/ StoreIntent(p)
  \/ FindPaid(p)
  \/ \E answer \in {"SUCCESS", "AMBIGUOUS"} : Pay(p, answer)

DisbursalNext ==
  \/ \E p \in Process : Record(p) \/ Settle(p) \/ CrashProcess(p)
  \/ NewYear

DisbursalSpec == DisbursalInit /\ [][DisbursalNext]_disbursalVars
-----------------------------------------------------------------------------
(***************************************************************************)
(* Properties.                                                             *)
(***************************************************************************)
DisbursalTypeOK ==
  /\ present \in BOOLEAN
  /\ file \in [Invoice -> Decision]
  /\ copy \in [Process -> [Invoice -> Decision]]
  /\ at \in [Process -> {"idle", "save", "clear", "remove", "dispatch", "bulk"}]
  /\ job \in [Process -> Job]
  /\ upload \in [Process -> [Account -> {"none", "checked", "recorded"}]]
  /\ processed \subseteq Account
  /\ year \in Year
  /\ intent \in [Account -> Intent]
  /\ call \in [Process -> Call]
  /\ payouts \subseteq [account: Account, terms: Amount, key: ProviderKey]
  /\ forked \in BOOLEAN
  /\ approved \subseteq Vendor \X Invoice \X Amount
  /\ requests \in Nat

\* All that was ever asked for under this invoice number was asked for one
\* vendor and in one fiscal year.
OneAccount(i) ==
  \A a, b \in Account :
    a[2] = i /\ b[2] = i /\ Exists(a) /\ Exists(b) => a = b

\* The vendor of a decision was paid exactly the amount it shows.
PaidFor(i, d) ==
  \E r \in payouts :
    r.account[1] = d.vendor /\ r.account[2] = i /\ r.terms = d.terms

\* A decision shown as settled has a payout to its vendor of exactly the amount
\* the decision shows, whatever stale copies the processes write over each
\* other.  This takes the gateway's answers for evidence, no bank callbacks and
\* late credit notes, one account per number, and that no call met an intent
\* other than the one it holds.
SettledAsAgreed ==
  Evidenced /\ Endpoint \cap {"webhook", "credit"} = {} /\ ~forked =>
    \A i \in Invoice :
      file[i].status = "SETTLED" /\ OneAccount(i) => PaidFor(i, file[i])

\* There are no bank callbacks, and no late credit notes once the year has
\* turned: a credit then changes what is paid again.
ApprovalsHold ==
  "webhook" \notin Endpoint /\ ("credit" \notin Endpoint \/ year = 0)

\* Money leaves only on terms under which that vendor's invoice was scheduled or
\* approved at some time; also where calls met each other's intents and a second
\* payout left.
PaidAsApproved ==
  ApprovalsHold =>
    \A r \in payouts : <<r.account[1], r.account[2], r.terms>> \in approved

\* However often and on whatever terms an invoice is disbursed within a fiscal
\* year, resolved anew, credited or reconciled, and whenever a process dies, it
\* is paid at most once, unless calls met each other's intents.
PaidOnce ==
  ~forked => \A r, s \in payouts : r.account = s.account => r = s

\* With a single process, saving a request's work changes no stored decision
\* but those the request is about: uploads, credits and crashes in between
\* lose nothing.
DecisionsKept ==
  [][Cardinality(Process) = 1 =>
       \A p \in Process, i \in Invoice :
         at[p] = "save" /\ Known(file[i]) /\ file'[i] # file[i]
           => i \in job[p].invoices]_disbursalVars
=============================================================================
