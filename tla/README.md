# Verification of the Yire payables engine

TLA+ models, TLC runs and TLAPS proofs for the parts of this repository that move
money: payment intents and their dispatch, the provider's callbacks, the decision
history from which invoices are disbursed, the event-driven ingestion that nets and
pays invoices directly, purchase orders and what invoices take of them, the
accounting books, and the arithmetic of tax, split and voucher. Names follow the
Python source; `PROJECT.json` maps every definition to the lines it stands for.

## 1. The system

A FastAPI program (`main.py`, started as `uvicorn --workers 2`, see `Dockerfile`)
with services in `services/` and a Firestore document store behind
`firestore_store.py` (an in-process dictionary replaces it in tests). Several
worker processes serve requests at once. Handlers whose body awaits nothing run
without interruption within their process, and interleave with other processes;
handlers that `await asyncio.to_thread(...)` also interleave within a process.

| Component | State | Operations | Hard part | Correct when | Status |
|---|---|---|---|---|---|
| Payment orchestration (`services/payment_orchestrator.py`) | one intent per idempotency key, outbox items | get-or-create, dispatch, reconcile | two workers, a lease with expiry, versions read early and used late, lost gateway answers, crashes | one payout per payment, claims fenced, doubt never paid again | modelled, proved |
| RazorpayX client (`razorpayx_client.py`) | none (the gateway keeps payouts by provider key) | `stage_payout`, `reconcile_payout_status` | timeouts, refusals, late execution | reports doubt as doubt | modelled |
| State store (`firestore_store.py`) | documents, leases, webhook events, credits, journals, retention records, allocations, registers | transactions, blind sets, conditional updates | check-then-set outside transactions | an update is lost only where a property says so | modelled with the component that uses each |
| Provider webhooks (`services/webhook_service.py`) | recorded events | authenticate, deduplicate, apply | duplicates, reordering, races with dispatch | each event applied once, settled never failed | modelled, proved |
| Decision history (`main.py`) | one JSON file, a copy in each process | upload, resolve-exception, disburse, bulk-disburse, set-active, credit upload, bank-payout callback, reset | whole-file read-modify-write by several processes, crashes before the save | shown as settled means paid as shown; paid once in a fiscal year; paid as approved | modelled, proved |
| Invoice state machine (`services/invoice_state_machine.py`) | none | `is_disbursable`, `transition` (only logs) | nobody enforces it | the guards that do look at it suffice | modelled as data |
| Ingestion: pubsub and Slack (`main.py`) | answered files, registered keys, pending approvals, decision records, payouts | receive, net credits, post journal, decide, stage payout, register; approve, reject | redelivery, leases that lapse, deaths between any two accesses, one invoice in two files, two invoices of one number | an answered file is handled, an approval pays only what is pending, a payout has its journal | modelled, proved |
| Vendor credits (`firestore_store.py`, `services/ledger.py`) | open credits per vendor | read, net, overwrite, upload, seed | blind overwrite of a list read earlier | no credit lost or granted twice | modelled, proved |
| Purchase orders, allocations (`po_matching.py`, `po_registry.py`, store) | orders and receipts in each process, stored orders, reservations, totals | create, amend, receive, return, evaluate, reserve, release | orders known to one process only, totals read before the transaction, release without one | never over-allocated, compliant means reserved | modelled, proved |
| General ledger, retention (store, `tax_gstr2b.py`) | journals, holds | post, reverse, replace, release | check-then-set, repeated reversal, two writes for one reversal, lost updates | postings are kept, a reversal cancels what it names, released is paid | modelled, proved |
| Business-key register, duplicates (store, `duplicate_detector.py`) | registered keys and hashes of contents | look up, mark; register, score | look-up and mark are far apart, ingestion and uploads by hand both write | a file is answered with its invoices registered | the part in use modelled, with ingestion |
| Vendor registry, penny drop | a second JSON file | edit, verify | the save pattern of the history | no verification on a replaced account | not modelled |
| Policy registry, override governor, decision engine | policy versions, override limits | activate, approve, evaluate | limits at their boundary | maker differs from checker | not modelled |
| Tax, split, voucher (`tax_engine.py`, `tax_gstr2b.py`, `erp_exporter.py`) | none | withhold, split off GST, make out the voucher | thresholds, three sources of a rate, rounding, credits over what is not held | tax grows with the year and the penalty and stays within the invoice; what one step accepts the next does not refuse | modelled, proved |
| Audit, lineage, crypto, learning, simulation, reports, migration, observability, extraction, Slack messages, UI | append-only or none | | | | not modelled: I/O, pure reporting or third-party services |

How they interact: the endpoints of `main.py` load the decision history, call
`get_or_create_payment_intent` and `dispatch_payment_intent`, and write the
answer into the decision. Dispatch shares the stored intent with other workers'
dispatches, with reconciliation and with the webhook service. The gateway's
callbacks come back through two endpoints: `/webhooks/razorpayx` updates the
intent, `/webhooks/bank-payout` updates the decision; they do not know of each
other. The pubsub pipeline, Slack approvals and the simulator stage payouts past
the orchestrator, under the same references. An upload by hand and a delivered
file mark their invoices in one register. An upload reserves the lines of its
invoice against a purchase order; a Slack approval adds to what was billed in the
same `po_consumption_ledger`, but under an order number made up of vendor and
invoice (`main.py:530`, `main.py:973`), so the two totals never meet.

`PROJECT.json` lists the hazards of all this, each at its line, with the
properties that guard against it, or why none does.

## 2. Modules

### Dispatch

* `PaymentStates`: the states of an intent and the transition matrix. It is data
  only, for the code never consults the matrix where it writes.
* `PaymentDispatch`: one payment (one idempotency key). Each store or gateway
  access of a call is one action, in the order of the source; `pc[w]` is the
  next access, `mine[w]` the intent object the call carries from
  `get_or_create_payment_intent` on, `reply[w]` the answer. The store is
  `intent`, `lease` and `outbox`; the gateway is `bank` (payouts by provider
  key) and `inflight` (submissions it may yet act on). The environment lets
  submissions succeed, get lost, arrive late, be dropped or refused, lets
  processes crash and leases lapse.
  `SharedReference` says whether the gateway may hold payouts of others under
  this payment's reference. The reference is `INV-` and the invoice number, cut
  to 40 characters: another vendor's invoice of that number, another fiscal year,
  the pubsub pipeline and Slack approvals all use the same one, and the
  reconciling query takes the first payout it lists. With it a query may be
  answered by anything (`Listed`), so what settles a payment need not be a payout
  of it. `DispatchRaces` and `WebhookRaces` run with it; what statuses are worth
  as evidence (`SettledBacked`, `SuccessIsPaid`, the refinement) is stated without
  (`Evidenced`).
  `forked` is a history variable: it becomes true when a call goes on with an
  intent object whose key is not the stored one, or overwrites a stored intent.
  That is the one way in which the code may pay twice (finding
  `ClaimDoublePayout`); the properties about one payment are stated for
  histories without it, and the runs reach both kinds.
* `PayoutOnce`: the abstract promise: claim, pay once, doubt, settle on evidence.
* `DispatchRefinement`: the refinement mapping from `PaymentDispatch`.
* `DispatchClaims`: two statements of the documents that the code breaks.
* `DispatchInvariant`, `DispatchProofs`: the inductive invariant, the proofs of
  what dispatch may never do, of what statuses and answers are worth, and of the
  refinement.

Correspondence, in the order of `dispatch_payment_intent`: `CreateIntent`,
`FetchIntent`, `MaterialConflict` (get-or-create); `ReturnCached`,
`FenceIndeterminate`, `RejectUncleared`, `Proceed` (the second read and the
gates); `SaveIntent`, `SaveOutboxItem`; `Bypass`, `CloseBypass`;
`FirstAttempt`, `PollSeesSettled`, `PollExhausted`, `SecondAttempt`,
`LeaseConflict`; `Recheck`, `MarkProcessing`, `Claim`, `ClaimLost`, `Reread`;
`Submit`; `RecordSettled`, `RecordUnknown`, `CloseOutboxItem`, `ReleaseLease`;
and for `reconcile_ambiguous_intent` `QueryConfirms`, `QueryInconclusive`,
`QueryEmpty`, `Replay`, `SettleReconciled`.

Abstractions: amounts, accounts and parties are one `Snapshot`, since the code only
compares their digest; the production gate is one Boolean of the intent object; 80
polls that see nothing are one step. The fallbacks for test clients with older
signatures and the client's mock mode are left out. `NOT_FOUND` is never returned by
the client, so its branch is unreachable.

### Webhooks

* `PaymentWebhooks` extends `PaymentDispatch` with handlers: `Deliver`,
  `RecordEvent` (deduplication), `ReadIntent`, `ApplyEvent`, `AnswerEvent`, and
  crashes in between. Dispatch goes on between any two accesses.
  `NotesCarryKey` says whether the callback names the intent's key: it does in
  the documented payloads, and it does not for the payouts dispatch itself makes
  (section 5). `LocalStore` chooses the in-process store; with Firestore the
  deduplication method returns nothing and no event is ever applied (section 5),
  so the run uses the local one. The proofs hold with either.
* `WebhookProofs`: its proofs.

### Decisions and disbursement

* `InvoiceStates`: the statuses and `Disbursable`. The transition matrix of the
  source is only logged against and is left out.
* `InvoiceDisbursal`: the history `file`, each process's `copy`, what an endpoint
  is doing (`at`, `job`), uploads between check and mark, the fiscal year on the
  clock, and the payments. An endpoint is: load (with its guards), per invoice a
  dispatch, save. A decision is found by its bare invoice number; it keeps its
  status, its vendor, the number of times its payable amount was reduced (`terms`:
  a short-pay or a credit note changes the digest of the intent),
  `stage_7_status = DISBURSED`, and its idempotency key.
  A payment intent is kept per `Account`: vendor, number and fiscal year. The year
  is the clock's when the payment is asked for, since decisions carry neither
  `fiscal_year` nor `invoice_date`; `NewYear` turns it, and the same decision then
  has another account. `call[p]` is the dispatch a process is in, access by access:
  `GetOrCreate` reads the intent or makes one up with a provider key of its own
  (`HeldKey`), `LookAgain`, `AnswerSettled` and `Reconcile` are the second read,
  `StoreIntent` sets the document whatever it holds by now, `Pay` and `FindPaid`
  are what happens under the lease, `Refuse` is any error, and `Answered` writes
  the answer into the decision. Other processes do theirs in between, so two first
  calls may pay under two keys as in `ClaimDoublePayout`; `forked` notes when a
  call meets an intent other than the one it holds. `payouts` is the set of what
  the gateway was asked for: account, terms and key.
  What happens under the lease is one step, which does what `PayoutOnce` allows.
  `Evidenced` says that the gateway refuses nothing and lists under an invoice
  number only payouts of disbursals; these may still be another vendor's or year's
  (`Reconcile`), hence `OneAccount` in `SettledAsAgreed`.
  Two details of the code carry over: a missing file leaves a process's memory as
  it was, and an endpoint that assigns `GLOBAL_DECISION_HISTORY` without declaring
  it global saves its in-place edits all the same. Which invoice bulk-disburse
  visits next is left open. Netting to zero is left to `PaymentDispatch`. The
  simulator's endpoint records decisions like an upload does and is not a separate
  action.
* `DisbursalInvariant`, `DisbursalProofs`: the inductive invariant and the proofs.

### Purchase orders

* `Procurement`: one order number. State: each process's own order and receipt
  (`registry`, `receipts`), the order it goes by where it does not know this one
  (`fallback`), the stored order (`poDoc`), reservations by invoice (`alloc`) and
  the two consumption totals. `CreatePurchaseOrder`, `AmendPurchaseOrder`,
  `RecordGrnReceipt`, `AdjustGrnReturns` are the registry's operations; an amendment
  stays in its process. An upload that refers to an order is `BeginEvaluation` (it
  reads the total of the order), `EvaluateLineItems` (it reads that of the receipt
  and judges rates and quantities) and `AllocateProcurement`, one transaction.
  `BeginAllocation` is `allocate_procurement` without the evaluation. A release is
  `MarkReleased`, then a read and a write of each total. Between any two steps other
  processes run, and a process may die. `ceiling` is the most the order was ever
  made out for; `disturbed` is set where a release loses or repeats an update.
  Details of the code kept: a dictionary by stock unit keeps the last of several
  lines (`SameItems`), the petty allowance (`RateOk`), an unknown receipt is
  replaced by the order's verified quantities. An order is unknown to a process when
  it was registered in another and its save failed, or when the process failed to
  read it from the store, which is not noticed. The process then goes by
  `DEFAULT_PO_REGISTRY[vendor]`, else that of `VEND-ALPHA-01`: the catalogue's order
  (`DefaultPo`) until some order is registered for that vendor, then that one,
  whatever its size (`CreateOtherOrder`). `substituted` notes a reservation made on
  such an order: what the totals promise of this order is promised without. Rates
  are taken to be the same in all orders. Left out: the allocation in memory and the
  one that lists earlier invoices (no caller passes them), prices in another
  currency. Amendment, receipts, returns, release and the bare allocation are called
  by tests and by the services' own interface, not by an endpoint of `main.py`.
* `ProcurementProofs`: its proofs.

### Ingestion

* `InvoiceIngestion`: one vendor's invoices by business key (PAN, number, fiscal
  year), each read from one or more documents (`InvoiceOf`), with bare numbers that
  several may share (`NumberOf`). A worker is a request in any process; every call
  of the store or the bank is a step. A delivery of a file is `Receive`,
  `AcquireLease`, then for each credit note `ReadNotes`, `PutNote`, and for each
  invoice `CheckRegister`, `ReadPool`, `ReadBilled`, `ExecutePipeline`, `Draw`, and
  either `Park` (approval needed) or `ReadJournal`, `Post`, `PersistDecision`,
  `StagePayout`, `Register`; at last `MarkDone` and `ReleaseLease`. An invoice is a
  duplicate by its business key or by the hash of its document's content
  (`Registered`), and is then marked by both. The three documents of a mark are one
  step. `UploadInvoice` is the other writer of the register: the endpoint marks the
  content and a key of its own making, from the vendor registry's PAN and the year
  of the clock, which may be this invoice's, another's or nobody's. The marks of
  credit notes and the document digests are left out, for the branch of invoices
  never reads them. Whether the file was answered is not asked again under the
  lease. A button in Slack is `PressButton`, `AcquireLease`, `ReadBundle`, and for
  an approval `Draw`, `MakeOutApproved`, `ReadJournal`, `Post`, `RecordBilled`,
  `StagePayout`, `DeletePending`. A bundle and the lease of a button go by the bare
  number: `Park` replaces whatever bundle the number has, under approval or not, and
  `DeletePending` deletes whatever it has by then. `displaced` notes the numbers
  where this happened to another invoice's bundle. The number in the Slack action is
  taken to be the one parked. Credits also come by upload (`BeginUpload`) and
  seeding (`SeedCredits`). `Raise` is an exception of any call, `Crash` the death of
  the process; a lease lapses (`Lapse`) when its holder is gone. That no holder
  outlives its lease, of 600 s for a file and 300 s for a button, is an assumption:
  the code sets no timeout of its own on the extraction calls and works through an
  archive of any length under one lease. `Netting` is translated as it computes, as
  a fold over the open notes: the largest credit first, each taken as far as it goes
  (`Take`). The number of a journal is the second it was made out in (`second`);
  `MakeOut` may share the latest one's. `overwritten` is set by a blind write of the
  pool that hides another's, `collided` by a journal that hides another's. What an
  invoice is found payable is a constant, another for approvals, which always take
  section 194J (the instances compute both, see Arithmetic). Whether a matching
  invoice goes straight through is left open, except that one billed before does
  not. Ties between equal credits are broken in the same way each time. A decision
  record is written once and never changed; an approval writes none.
* `IngestionProofs`: its proofs.

### Books

* `AccountingBooks`: journals by number and retention records. `BeginPost`,
  `CheckPosted`, `Post` are `persist_general_ledger`, whose check and write are
  two accesses; `BeginReverse`, `MarkReversed`, `PostReversal` are
  `reverse_general_ledger`, which writes the original before the reversal;
  `BeginReplace` goes on with `Reread`, the post of the replacement and
  `LinkReplacement`. `SaveRetention`, `BeginRelease`, `UpdateRetention` are the
  retention records, whose update may fail unnoticed. `Break` ends a call between
  two accesses. A number is a pair: base and how often it was reversed, as the
  code prefixes `REV-` each time. A journal is an opaque content with a sign.
  `crossed` is set by a write that hides one it did not know of, `broken` by a
  call that ends halfway. Reversal, replacement and the release of retained tax
  have no caller in `main.py`; the states DISPUTED and EXPIRED of a retention
  record are set by no code.
* `BooksProofs`: its proofs.

### Arithmetic

* `StatutoryTax`: operators on whole paise, no state. `Breached`, `Taxable`,
  `Penal`, `Certified` and `RateOf` are the four phases of `compute_statutory_tax`
  in their order, `HalfUp` its rounding; `SplitOf` is `calculate_split_settlement`,
  `SplitAccepted` the validator of the position it builds; the journal and the
  voucher are their sums of debits and credits with what makes them raise. A rate is
  read from a certificate as the code does: more than one is a percentage. `Lower`
  is the section 197_LOWER, which has no rate of its own: nominated without a
  certificate or a penalty it makes the code raise, so results are stated for what
  is `Computed`. `PipelineCase` and `ApprovalCase` are the arguments of the two
  callers in ingestion, for a vendor in order; a certificate's rate is taken in
  tenths of a percent. Left out: labels and challan codes of the two acts, the
  reading of dates (a case says on which side of 1 April 2025 it is). `MCIngestion`
  takes the amounts of its invoice from here, so that what the pipeline and an
  approval find payable differ as the code makes them differ.
* `TaxProofs`: its proofs.

### Folds

* `Folding` models no code: what folds and sums over finite sets compute, for the
  proofs about netting, reservations and credits.

The `MC*` modules name the model values for TLC and define the symmetry sets.
Definitions marked "Slip" are wrong variants of a definition, as a plausible bug
would have it; nothing uses them in the specifications. Each property was seen
to fail when the right definition is replaced by its slip.

## 3. Runs

Every run turns TLC's deadlock check off: calls and requests are bounded, so the
system stops when all are made; only `DispatchPromise` and `IngestDone` speak of
progress.

| Run | Instance | Shows |
|---|---|---|
| `DispatchRaces` | 2 workers x 2 calls offering payable and netted snapshots, cleared and not, 2 keys, lapsing leases, store faults, replays, refusals, shared references, first calls racing | `OnePayout`, `ClaimsSerialized`, `PayoutAuthorized`, `FencedClaim`, types, the invariant `IInv` of the proofs |
| `DispatchLeases` | 2 workers x 2 calls, submissions lost, late and dropped, without lapses, faults, replays, refusals and shared references | `ExclusiveSubmission`, `LeaseReturned`, `SettledBacked`, `SuccessIsPaid`, `LegalTransitions` |
| `DispatchPromise` | 3 workers, stored intent, fair | `PaymentDispatch` implements `PayoutOnce`; `CallsReturn` |
| `WebhookRaces` | 2 handlers, 1 worker x 2 calls, 3 keys, a shared reference | `AppliedOnce`, `ProcessedNeverFails`, `OnePayout`, types |
| `HistoryRaces` | 2 processes, 1 invoice, 1 vendor, 4 requests (upload, resolve-exception, disburse), a short-pay, a turn of the year, 2 keys, failing writes, crashes | `SettledAsAgreed`, `PaidAsApproved`, `PaidOnce`, types, the invariant `HistoryInv` of the proofs |
| `HistorySerial` | 1 process, 2 invoices, 2 vendors, every endpoint, 4 requests | `DecisionsKept` |
| `OrderRaces` | 2 processes, 2 invoices, 1 stock unit, orders for 1 or 3, a fallback for 3, uploads of one line and of one unit in two lines, 3 calls, 2 changes | `LedgerExplained`, `NoOverAllocation`, `LedgerBounded`, `CompliantIsReserved`, types |
| `IngestRaces` | 2 requests, an archive (a note, two invoices of one number) and a file with one of the same documents, 1 event | `CreditsConserved`, `PayoutBacked`, `FileHandled`, types |
| `IngestDone` | 2 requests, an archive with two invoices of one number, 2 events, fair | `EveryFileDone`, `ApprovalHeld` |
| `BookRaces` | 2 requests, 2 numbers, 2 contents, 1 record of 3, reversals of reversals, 4 calls | `PostedKept`, `ReversalNegates`, `ReleasedIsPaid`, types |
| `Claim...` (2) | small | one violated statement each, section 5 |

The bounds. Races need two participants: a third worker adds only symmetric waiters,
and `DispatchPromise` has three. Two calls per worker give retry after a crash,
after an error and after doubt, each against a peer's retry. Two provider keys are
what a double payout needs; `WebhookRaces` has three because a failed payment is
retried. Two processes are what the deployment starts, and what a lost update of the
history needs; four requests give upload, approval and two disbursements, or a
disbursement between two edits. One reduction of the amount (`MaxCuts = 1`) gives
two different terms, one turn of the year (`MaxYear = 1`) two accounts of one
decision, and two provider keys a fork or a payment of each year. `HistoryRaces`
leaves out the endpoints that only reorder or empty the history and bulk-disburse,
which pays a single invoice as disburse does, for its size; `HistorySerial` has
them, and `DisbursalProofs` all of them with any number of processes. In
`OrderRaces` two invoices compete for an order that one of them exhausts, and three
calls are two reservations and a release, or a reservation, its retry and a rival;
two changes are a stale order and a crash, or two orders, one of them standing in
for the other. In `IngestRaces` an invoice of 40,000 and GST meets a credit note of
45,000: the pipeline withholds 2 % and finds more payable than the note, so that a
payout and an emptied pool both occur, an approval withholds 10 % and finds less, so
that one nets to nothing. Two invoices of one number make one's bundle replace the
other's, before or during an approval. One event is a death under a delivery of the
other file, an upload under a draw, or an approval among deliveries, which
themselves are not bounded; two, in `IngestDone`, are a press against a press, or a
death and a redelivery. In `BookRaces` four calls are a post, two reversals and a
replacement, or three partial releases. Where a run leaves an option out, it is
because the property does not hold with it (the lease excludes only while nobody
outlives it; refused submissions and dropped replays are recorded as settled; a
callback marks decisions settled without a payment), and the property or the
configuration says so.

Fairness. `Fairness` gives each call weak fairness of its own steps: gateway
requests carry a 10 s timeout, store accesses have bounded retries, the poll
loop has 80 rounds. A crash is never forced and excuses a call. An orphaned lease
lapses because it carries an expiry time; a living holder's lease need not. In
`IngestionFairness` each request under way has weak fairness for the same reason,
and each file strong fairness of being received: Pub/Sub delivers again what was
not answered, though a worker need not always be idle. `MaxEvents` bounds the
deaths and errors, so "in the end" means when they have ceased.

## 4. Proofs

Checked by TLAPS for every value of the constants that meets the module's
assumptions: `DispatchAssumption`, `DisbursalAssumption`, `BooksAssumption`,
`ProcurementAssumption`, `RequestAssumption`, `IngestionAssumption`,
`WebhookAssumption`. They give
the domains of the constants, and distinct names for absent holders and keys;
`RequestAssumption` says what the schema says of a line, that its quantity is
positive. Invoices, credit notes and the processes that release an order's lines
are finitely many, for sums run over them.

`Folding` proves what sums and folds compute. Induction theorems of the library
take a predicate, which no prover here can instantiate; so induction goes by the
smallest counterexample: a set of parts of a finite set has a least member, by
the well-foundedness of strict inclusion, and the least part that fails is
either empty or one element more than a part that does not. From `FoldExists`,
that a fold over a finite set has the value its recursion says,
follow the facts about `SumFunction`: `SumTakes` (an element apart), `SumChanges`
(one summand changed), `SumBounds`, and the same for naturals.

`DispatchProofs` proves `IInv` invariant and from it `TypeOK`, `OnePayout`,
`ClaimsSerialized`, `PayoutAuthorized`, `ExclusiveSubmission` and `FencedClaim`.
`OnePayout` is not inductive: a worker about to submit must hold the stored
key. So the invariant says of every label which relation the call's object has
to the stored intent: fresh and unsaved before the second read (`ReadInv`,
`DistinctInv`), the stored one at an older or equal version afterwards
(`BoundInv`); what a version equal to the stored one implies about the status
(`FenceInv`: this carries the status judged at the second read to the claim,
though the version was taken from the first); that two claimants hold different
versions below the stored one (`ClaimInv`); that payouts belong to the stored,
cleared, payable intent (`BankInv`); and, on its own, who holds the lease
(`LeaseInv`). The step lemmas go action by action, one group per part. The parts
that callbacks keep too are `Parts`; they allow for a failed intent, which
dispatch alone never makes (`NeverFails`).

The second part of the module goes on with what the stored status means. The steps
of a call are sorted into courses (`Calm`, `Doubts`, `Saves`, `Claims`, `Records`,
`Settles`, `Nets`, `Submits`, `Replays`) and those of the environment into `World`;
each invariant is kept course by course. `StatusesInv` says that a payment of
nothing is only ever netted, that between a claim and its record the claim is what
is stored, that a call about to record doubt finds doubt or a settlement, and that a
payout made or under way shows in the status. `StatusesAreLegal` follows where no
holder outlives its lease: otherwise a late holder writes over what its successor
stored. `BackedInv` and `SuccessInv` carry the evidence from the gateway's answer to
the stored settlement and to the caller; their theorems assume `Evidenced`, that
nothing is refused, nothing replayed and no reference shared, for the code settles
on a refusal, on any answer to a replay and on whatever payout is listed (section
5). `LeasesReturned` is inductive as it stands: a worker holds the lease only while
it is between taking it and giving it back, whichever way its call ends.
`DispatchKeepsPromise` combines all of this: every step of dispatch is a step of
`PayoutOnce` or a stutter, for a stored intent (`Preregistered`) and under both
conditions. Its liveness stays with TLC.

`WebhookProofs` proves `WebhookInv` and from it `WebhookTypeOK`, `AppliedOnce`,
`OnePayout` and `ProcessedNeverFails`, with the local store and with Firestore.
Callbacks keep `Parts` because each of
their writes counts the version up, past all who have read the intent, and leaves
its key, snapshot and clearance alone: a claim made from an older read still
fails. An event on its way to the intent is recorded, not yet written, and no
other handler's (`DedupInv`). A handler about to fail the intent was told by the
gateway that the payout of its key failed (`FailedInv`), and a failed payout stays
so; as an unforked payment has one key, a processed one is never failed.

`DisbursalProofs` proves `HistoryInv` and from it `DisbursalTypeOK`,
`SettledAsAgreed`, `PaidAsApproved` and `PaidOnce`, with the accesses of any number
of disbursals interleaved, forks and turns of the year included. The properties
speak of the file, but a process may at any time write back a copy of any age; so
the invariant claims the same of the file and of every copy (`Sound`): settled
decisions have a payout of what they show, disbursable ones were approved on their
terms. What makes this inductive is that payouts are never taken back and approvals
never withdrawn. `CallInv` says what a call holds at each access; `KeyInv` that
calls and the stored intent of one account agree on the terms where they agree on
the provider key; `MoneyInv` that while nothing forked a call about to pay holds the
stored intent, every payout has the key and terms of the stored intent of its
account, from which `PaidOnce` follows, and a settled intent was paid; `ApprovalInv`
that calls, intents and payouts are on approved terms, forked or not; `DueInv` that
what a running disbursement has yet to pay is payable in its copy. The steps are
first sorted by what they write (histories, one decision, an intent, a payout), and
each sort is shown to keep each part. `SavesKeepDecisions` needs another one
(`OwnInv`): with a single process, the copy of a request at its save differs from
the file at most where the request itself worked. It assumes that there are finitely
many processes, so that "one process" can be said by cardinality.

`BooksProofs` proves `BooksInv` and from it `BooksTypeOK`, `ReversalNegates`,
`ReleasedIsPaid` and `PostedKept`. The properties speak of the ledger, but a
request writes back a journal it read earlier. So the invariant says of every
request what it holds (`JobOf`), that unless a write crossed another what it read
of a journal agrees with the ledger (`MarkOf`), that the original of every
reversal is there (`OriginInv`), and that records and what releases read of them
add up (`HoldInv`, `DueOf`). The steps are sorted by what they write (`Writes`):
entries never vanish, and keep their journal unless the write crossed.

`ProcurementProofs` proves `OrderInv` and from it `ProcurementTypeOK`,
`LedgerBounded` and `CompliantIsReserved`. That totals stay within the ceiling is
not inductive: an allocation goes by whatever version of the order its process has,
and a release writes a total computed from one it read. So `BoundInv` bounds every
version of the order, in the processes and in the store, and, while no other order
stood in for it, the totals and what releases read of them. On top
of it `LedgerExplained` is inductive for the totals of the order, substituted or
not; those of the receipt need to know that only the release of a reservation with a
receipt gives back to the receipt (`ReceiptOwed`). Reserving, marking as released and
giving back each change one summand of one sum, and the total changes by as much.
`NoOverAllocation` follows from this and `LedgerBounded`.

`IngestionProofs` proves `HandlingInv` and from it `FileHandled` and `ApprovalHeld`.
A delivery at position n of a file has handled all before it, by decision, by
parking or by an upload's mark, and what was handled stays so (`RegisterInv`: every
key and every content in the register is of an invoice that was decided or
uploaded). An approval past the reading of its bundle still has a bundle under its
number, because only the holder of the number's lease deletes it, and a lease has
one holder; and it is the same one, unless `Park` displaced it. There netting plays
no part and stays unexpanded. `NettingExact` then says what it returns: the invoice
is lowered by exactly what is taken, a note keeps the rest, the largest are taken
first and nothing is left to pay while credit is left. It is proved over the notes
taken so far (`NettingRuns`). From it comes `CreditInv`: a request about to draw
holds a netting that accounts for the pool it read (`DrawingOf`), whatever became of
the pool since. `IngestionTypeOK` follows, and `CreditsConserved` is inductive with
it: an unhidden draw writes over the very pool it read, or, for an approval, over
that pool less what parking drew. `BookInv` carries a journal from its number to the
payout (`BookOf`): a request bound to post has a number that exists, past the
posting its journal stands under it if it is of any amount, and a request at the
bank has something to pay. Journals of other requests are kept while none
`collided`, whatever happened to the pool. `DecisionInv` says the same of decision
records, of whatever amount. `PayoutBacked` follows from both.

`TaxProofs` needs no assumption on constants, for it has none, and no induction:
each theorem is one invoice, arbitrary, of those the engine computes
(`Computed`). Rounding is monotone (`HalfUpMonotone`) and
keeps whole amounts (`HalfUpWhole`); so a larger taxed part at no smaller a rate is
more tax (`MoreIsTaxed`), from which `LargerYearSavesNothing`,
`PenaltySavesNothing`, `CertificateSpares` and `ApprovalPaysNoMore` follow by
comparing parts and rates. `SplittingGoodsSavesNothing` is the case analysis of
where the yearly limit falls. `JournalBalances`, `SplitRefusesCredit` and
`VoucherFollowsSplit` say which step may refuse an invoice that the one before
accepted. No run states these: there is no behaviour to check.

Every invariant and action property of the runs is stated by a theorem. Only
model-checked are the liveness properties `CallsReturn` and `EveryFileDone`, for
TLAPS proves nothing under fairness (nor with ENABLED); and the two violated claims
are TLC's counterexamples. No module declares a RECURSIVE operator.

## 5. Where the code and its documents disagree

Two runs each violate one statement; `PROJECT.json` quotes the line.

| Run | What happens |
|---|---|
| `ClaimDoublePayout` | two first calls both save their intent and pay under two keys |
| `ClaimOutcome` | a refused submission is recorded as settled |

Others show in the models, which do what the code does, and have no run of their
own. They are why some properties carry a condition:

* a call that outlived its 60 s lease, or that waits for a lost answer while the
  callback settles the payment, writes UNKNOWN over SETTLED
  (`payment_orchestrator.py:753`; `FINAL_IMPLEMENTATION_REPORT.md`, 5.1);
* any answer to a replay settles the payment, for `stage_payout` always
  returns an id (`payment_orchestrator.py:969`; its docstring, line 868);
* a payment in doubt is settled on the first payout listed under its reference,
  `INV-<number>` cut to 40 characters (`payment_orchestrator.py:874`,
  `razorpayx_client.py:289`), which may be another vendor's, another year's or
  another channel's (`main.py:693`, `main.py:997`); nothing need have been paid for
  it. Hence `SharedReference` in `Evidenced`, and `OneAccount`;
* a disbursal repeated after 1 April is another payment, for the key takes the
  fiscal year from the clock (`main.py:2882`, `main.py:3115`): a decision left
  disbursable or settled is paid again. `PaidOnce` speaks of one account;
* two processes that disburse a decision for the first time at once pay it twice,
  as in `ClaimDoublePayout`. Hence the condition `~forked` of `PaidOnce` and
  `SettledAsAgreed`;
* a callback of a failed payout that arrives after a settlement of doubt may write
  FAILED over it (`webhook_service.py:257`); `ProcessedNeverFails` says
  only that a payout the gateway processed is never failed;
* a payment that a callback made FAILED is submitted again under its old key
  (`payment_orchestrator.py:475`; report, 5.1);
* resolve-exception releases rejected and settled decisions (`main.py:2229`);
* after a reset another worker's memory may bring the old history back
  (`main.py:1710`);
* the bank-payout callback marks a decision SETTLED for any event
  (`main.py:2973`), and a credit note changes the amount of a settled one
  (`main.py:1564`);
* nothing calls `get_pending_outbox_items` (`firestore_store.py:1157`), although
  `FINAL_IMPLEMENTATION_REPORT.md:144` says "the outbox worker recovers the
  intent without double-paying";
* a callback about a payout of the dispatch does not name its intent: the notes
  sent (`payment_orchestrator.py:671`) lack the key the service looks for
  (`webhook_service.py:117`), although `webhook_service.py:65` says
  "Authoritatively parses, authenticates, deduplicates, and converges";
* with Firestore `save_webhook_event` returns nothing, for its transaction stands
  after the mock branch's return, indented into it; a first delivery is then
  answered as a duplicate. `firestore_store.py:1228` says "Returns True if this
  was the first delivery";
* `disburse` judges a decision by the copy it loaded and pays one that another
  process rejected meanwhile (`main.py:2861`); `invoice_state_machine.py:25` says
  "Only these can be disbursed by Controller/Treasurer";
* credits: a redelivered file puts its note back at face value (`main.py:428`) and
  draws of it again (`main.py:612`); an approval replaces the pool by what netting
  left of its bundle's (`main.py:939`), and a rejection gives back nothing of what
  parking drew; concurrent draws exceed the face value.
  `FINAL_IMPLEMENTATION_REPORT.md:163` says "Credit allocations utilize atomic
  reservation and consumption tracking". `CreditsConserved` counts what was put
  in and taken out and excludes only hidden writes;
* retained tax is released twice by two releases at once, or by a retry after an
  update that failed unnoticed; `tax_gstr2b.py:160` says "Fences against duplicate
  releases (idempotent)". Hence the condition of `ReleasedIsPaid`;
* a process that has not seen an amendment reserves against the order it knows.
  `firestore_store.py:412` says "already_allocated + requested_qty <=
  current_authorized_PO_quantity". `LedgerBounded` therefore speaks of the most
  the order was ever made out for;
* an order that a process does not know is judged by the last order it registered
  for the vendor, or for `VEND-ALPHA-01` (`po_matching.py:91`, `po_registry.py:63`),
  and a failed read of the store goes unnoticed (`po_registry.py:83`); more may then
  be reserved than this order was ever made out for. Hence `substituted`;
* a bundle waiting for approval is replaced by that of another invoice of the same
  number (`main.py:623`), another vendor's included, and is lost; an approval of the
  first deletes whatever bundle has the number by then (`main.py:1011`). Hence the
  exception of `ApprovalHeld`;
* an invoice uploaded by hand and then delivered is answered as a duplicate, by key
  or by content, without a decision record, a journal or an approval
  (`main.py:5355`, `main.py:5648`, `firestore_store.py:117`); and as the upload makes
  its key of the registry's PAN and the year of the clock, it may mark another
  invoice's. Hence the last case of `FileHandled`;
* a second reversal of a journal hides that its reversal was itself reversed, and
  two replacements of one journal may both stay active (`firestore_store.py:715`);
* a certificate written as one percent or less is read as a fraction
  (`tax_engine.py:330`), although its comment at line 331 says "Normalize e.g.
  0.5% -> 0.005": at half a percent, half of the invoice is withheld. Hence the
  condition of `CertificateSpares`;
* a nominated section 197_LOWER without a certificate raises, for the table of rates
  lacks it (`tax_engine.py:351`). Hence `Computed`;
* an approval taxes its bundle anew, always as 194J and undated (`main.py:919`),
  whatever the pipeline took. `ApprovalPaysNoMore` says which way that goes;
* an upload whose credit notes exceed the subtotal less tax raises in the split
  (`main.py:5450`), for the GST it holds is not there to be netted, after its order
  lines were reserved. `SplitRefusesCredit` gives the boundary;
* an invoice may be paid once by ingestion and once by the orchestrator: the keys
  differ and neither channel looks at the other's record (`main.py:677`).

## 6. Plan

Done, in this order: dispatch, its promise, its proofs; webhooks; the decision
history and its proofs; ingestion with credits and approvals; purchase orders;
the books; the proofs of these three and of the callbacks; what statuses and
answers are worth, and that dispatch keeps its promise; tax, split, journal and
voucher; sums and folds, and with them netting, credits, payouts of ingestion and
the totals of orders. What is left, most valuable first:

1. `PolicyRegistry` and `OverrideGovernor`: activation of a policy by another than
   its maker, and limits on overrides, whose state lives in one process.
2. The vendor registry: the whole-file save of its own JSON file.

### Not modelled

* The duplicate detector's score: a weighted sum of similarities of two texts,
  whose verdict is an input of the models. The tax engine's labels, challan codes
  and date formats: wording.
* The decision engine assembles and signs a record of what others decided; its
  choice of an amount and of a zero payout is in the ingestion model. The policy
  registry is filled once at import, and no endpoint registers or overrides
  anything; the vendor registry saves like the decision history: see the plan.
* Audit trail, lineage, signatures: append-only or cryptographic; no modelled part
  reads them.
* Learning, simulation, working capital, reports, benchmark, analytics: read
  finished data and answer; the simulator's records are those of an upload.
* Migration, extraction, Slack messages, observability, the voucher's file formats:
  conversions and output.
* The schemas: of `schemas.py` only what constrains a modelled state.
* User interface, agent instructions and infrastructure. Two thirds of the
  repository's program lines are scripts vendored twice under `.agent/` and
  `.agents/`, which are no part of the system; the share of mapped lines is small
  for that reason, and because most of `main.py` renders answers.
