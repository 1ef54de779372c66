-------------------------- MODULE InvoiceIngestion --------------------------
(***************************************************************************)
(* The event-driven path of main.py: a file lands in the bucket, Pub/Sub   *)
(* delivers it until it is answered, and its invoices are netted against   *)
(* the vendor's open credits, journaled, decided and paid directly; or     *)
(* they wait for an approval in Slack.  Credit notes come by the same      *)
(* path, by upload and by seeding.                                         *)
(*                                                                         *)
(* A worker is a request under way, in any process.  Every call to the     *)
(* store and to the bank is a step of its own, others run in between.  One *)
(* vendor is modelled: credits of different vendors never meet.  An        *)
(* invoice of another year, or vendor, may well have the same number.      *)
(***************************************************************************)
EXTENDS Integers, Sequences, FiniteSets, FiniteSetsExt, SequencesExt

CONSTANTS
  Worker,       \* requests under way at once
  Invoice,      \* invoices, by business key (PAN, number, fiscal year)
  Note,         \* credit notes, by number
  File,         \* objects in the bucket
  Pdf,          \* invoices as documents: one for each content
  InvoiceOf,    \* the invoice each of them reads as
  NumberOf,     \* the bare number of each invoice, which others may share
  Docs,         \* what is in each file: a sequence of notes, then of PDFs
  Payable,      \* what the pipeline finds payable after tax, by invoice
  Approvable,   \* what an approval finds payable: it always takes 194J
  Face,         \* the face value of each credit note
  MaxEvents     \* bound: buttons pressed, documents uploaded, credits seeded,
                \* requests that die or raise, journals made out in another's
                \* second

Numbers == {NumberOf[i] : i \in Invoice}

ASSUME IngestionAssumption ==
  /\ Docs \in [File -> Seq(Pdf \cup Note)]
  /\ InvoiceOf \in [Pdf -> Invoice] /\ DOMAIN NumberOf = Invoice
  /\ IsFiniteSet(Invoice) /\ IsFiniteSet(Note)
  /\ Pdf \cap Note = {} /\ File \cap Numbers = {} /\ "none" \notin Invoice
  /\ Payable \in [Invoice -> Nat] /\ Approvable \in [Invoice -> Nat]
  /\ Face \in [Note -> Nat \ {0}]
  /\ MaxEvents \in Nat
  /\ Worker \cap {"free", "orphaned"} = {}

VARIABLES
  done,      \* processed_invoices: files answered for good
  keys,      \* processed_business_invoices
  hashes,    \* processed_content_hashes
  lock,      \* distributed_locks: of each file, of each number in Slack
  credits,   \* vendor_open_credits: the balance of each note
  journals,  \* general_ledger_journals; the number of one is its second
  decided,   \* invoices with an immutable decision record
  pending,   \* pending_approvals, by bare number: the invoice of the bundle and
             \* the credits it was saved with
  billed,    \* how often an approval billed the order of the number
  bank,      \* payouts the bank accepted, one per idempotency key
  at, job,   \* what each worker does next, and on what
  seen, netting, second, \* the pool it read, what netting made of it, and the
             \* number its journal was made out under
  parked,    \* history: invoices ever sent to approval
  uploaded,  \* history: invoices an upload by hand was the first to register
  displaced, \* history: numbers whose bundle another invoice's replaced
  issued,    \* history: credit put into the pool, by note
  drawn,     \* history: credit taken of it, by invoice and note
  overwritten, \* history: a write of the pool hid another
  collided,  \* history: a journal hid another
  events

creditVars == <<credits, issued, drawn, overwritten>>
journalVars == <<journals, collided>>
approvalVars == <<pending, parked, displaced, billed>>
registerVars == <<keys, hashes, uploaded>>
recordVars == <<done, registerVars, decided, bank>>
workVars == <<seen, netting, second>>
workerVars == <<at, job, workVars>>
storeVars == <<lock, creditVars, journalVars, approvalVars, recordVars>>
ingestionVars == <<storeVars, workerVars, events>>

Free == "free"
Orphaned == "orphaned"
NoJournal == [inv |-> "none", net |-> 0]
EmptyPool == [n \in Note |-> 0]
NoBundle == [inv |-> "none", pool |-> EmptyPool]

Smaller(a, b) == IF a <= b THEN a ELSE b

----------------------------------------------------------------------------
(* LedgerNettingEngine: the largest open credit first.                     *)

\* Slip: what is left of a note taken in part is dropped.
Take_Whole(pool, n, acc) ==
  LET taken == Smaller(pool[n], acc.net) IN
  [net |-> acc.net - taken,
   applied |-> [acc.applied EXCEPT ![n] = taken],
   left |-> [acc.left EXCEPT ![n] = 0]]

\* Slip: a note is taken whole, whatever is payable.
Take_Over(pool, n, acc) ==
  [net |-> acc.net - pool[n],
   applied |-> [acc.applied EXCEPT ![n] = pool[n]],
   left |-> [acc.left EXCEPT ![n] = 0]]

\* A note is taken as far as anything is still payable.
Take(pool, n, acc) ==
  LET taken == Smaller(pool[n], acc.net) IN
  [net |-> acc.net - taken,
   applied |-> [acc.applied EXCEPT ![n] = taken],
   left |-> [acc.left EXCEPT ![n] = @ - taken]]

Open(pool) == {n \in Note : pool[n] > 0}
Smallest(pool, notes) == CHOOSE n \in notes : \A m \in notes : pool[n] <= pool[m]

\* The fold takes the element it chooses after all the others.
Netting(payable, pool) ==
  MapThenFoldSet(LAMBDA n, acc : Take(pool, n, acc),
                 [net |-> payable, applied |-> EmptyPool, left |-> pool],
                 LAMBDA n : n,
                 LAMBDA notes : Smallest(pool, notes),
                 Open(pool))

----------------------------------------------------------------------------
Untouched == [net |-> 0, applied |-> EmptyPool, left |-> EmptyPool]

NoJob == [kind |-> "none", on |-> "none", pos |-> 0, doc |-> "none",
          ready |-> FALSE]

IngestionInit ==
  /\ done = {} /\ keys = {} /\ hashes = {} /\ decided = {} /\ bank = {}
  /\ lock = [x \in File \cup Numbers |-> Free]
  /\ credits = EmptyPool /\ issued = EmptyPool
  /\ drawn = [i \in Invoice |-> EmptyPool]
  /\ journals = <<NoJournal>>
  /\ pending = [num \in Numbers |-> NoBundle]
  /\ parked = {} /\ uploaded = {} /\ displaced = {}
  /\ billed = [num \in Numbers |-> 0]
  /\ at = [w \in Worker |-> "idle"]
  /\ job = [w \in Worker |-> NoJob]
  /\ seen = [w \in Worker |-> EmptyPool]
  /\ netting = [w \in Worker |-> Untouched]
  /\ second = [w \in Worker |-> 0]
  /\ overwritten = FALSE /\ collided = FALSE
  /\ events = 0

Goto(w, label) == at' = [at EXCEPT ![w] = label]

Start(w, kind, on) ==
  /\ at[w] = "idle"
  /\ Goto(w, "lease")
  /\ job' = [job EXCEPT ![w] = [NoJob EXCEPT !.kind = kind, !.on = on]]
  /\ UNCHANGED workVars

Forget(w) ==
  /\ seen' = [seen EXCEPT ![w] = EmptyPool]
  /\ netting' = [netting EXCEPT ![w] = Untouched]
  /\ second' = [second EXCEPT ![w] = 0]

Finish(w) ==
  /\ Goto(w, "idle")
  /\ job' = [job EXCEPT ![w] = NoJob]
  /\ Forget(w)

Event == events < MaxEvents /\ events' = events + 1

----------------------------------------------------------------------------
(* A delivery of a file.                                                   *)

\* A file answered before is dropped; it may be answered before the lease.
Receive(w, f) ==
  /\ f \notin done
  /\ Start(w, "file", f)
  /\ UNCHANGED <<storeVars, events>>

Enter(w) ==
  /\ lock' = [lock EXCEPT ![job[w].on] = w]
  /\ job' = [job EXCEPT ![w].pos = 1]
  /\ Goto(w, IF job[w].kind = "file" THEN "document" ELSE "bundle")
  /\ UNCHANGED workVars

\* Slip: the lease is taken whoever holds it.
AcquireLease_Blind(w) ==
  /\ at[w] = "lease"
  /\ Enter(w)
  /\ UNCHANGED <<creditVars, journalVars, approvalVars, recordVars, events>>

\* A lease held by another is answered with 429, or "in progress".
AcquireLease(w) ==
  /\ at[w] = "lease"
  /\ IF lock[job[w].on] = Free THEN Enter(w) ELSE Finish(w) /\ UNCHANGED lock
  /\ UNCHANGED <<creditVars, journalVars, approvalVars, recordVars, events>>

NextDocument(w) ==
  /\ job' = [job EXCEPT ![w] = [NoJob EXCEPT !.kind = "file",
                                  !.on = job[w].on, !.pos = job[w].pos + 1]]
  /\ Forget(w)
  /\ Goto(w, "document")

\* The documents of a file are processed in order; credit notes come first.
Document(w) == Docs[job[w].on][job[w].pos]

AtDocument(w, docs) ==
  /\ at[w] = "document"
  /\ job[w].pos <= Len(Docs[job[w].on])
  /\ Document(w) \in docs

\* Slip: a file is answered with its first document.
MarkDone_Early(w) ==
  /\ at[w] = "document"
  /\ done' = done \cup {job[w].on}
  /\ Goto(w, "release")
  /\ UNCHANGED <<lock, creditVars, journalVars, approvalVars, registerVars,
                 decided, bank, job, workVars, events>>

MarkDone(w) ==
  /\ at[w] = "document"
  /\ job[w].pos > Len(Docs[job[w].on])
  /\ done' = done \cup {job[w].on}
  /\ Goto(w, "release")
  /\ UNCHANGED <<lock, creditVars, journalVars, approvalVars, registerVars,
                 decided, bank, job, workVars, events>>

ReadNotes(w) ==
  /\ AtDocument(w, Note)
  /\ job' = [job EXCEPT ![w].doc = Document(w)]
  /\ seen' = [seen EXCEPT ![w] = credits]
  /\ Goto(w, "putNote")
  /\ UNCHANGED <<storeVars, netting, second, events>>

\* The note has its full face value again, whatever was drawn of it.
PutNote(w) ==
  LET n == job[w].doc IN
  /\ at[w] = "putNote"
  /\ credits' = [seen[w] EXCEPT ![n] = Face[n]]
  /\ issued' = [issued EXCEPT ![n] = @ + Face[n] - credits[n]]
  /\ overwritten' = (overwritten \/ credits # seen[w])
  /\ IF job[w].kind = "file" THEN NextDocument(w) ELSE Finish(w)
  /\ UNCHANGED <<lock, drawn, journalVars, approvalVars, recordVars, events>>

Registered(w) == InvoiceOf[Document(w)] \in keys \/ Document(w) \in hashes

\* mark_processed with the business key and the content of the document.
Mark(w) ==
  /\ keys' = keys \cup {InvoiceOf[Document(w)]}
  /\ hashes' = hashes \cup {Document(w)}
  /\ UNCHANGED uploaded

TakeUp(w) ==
  /\ job' = [job EXCEPT ![w].doc = InvoiceOf[Document(w)]]
  /\ Goto(w, "readPool")
  /\ UNCHANGED <<registerVars, workVars>>

\* Slip: an invoice registered before is an error.
CheckRegister_Refuse(w) ==
  /\ AtDocument(w, Pdf)
  /\ IF Registered(w)
     THEN Goto(w, "release") /\ UNCHANGED <<job, registerVars, workVars>>
     ELSE TakeUp(w)
  /\ UNCHANGED <<lock, creditVars, journalVars, approvalVars, done, decided, bank,
                 events>>

\* A duplicate, by its key or by its content, is marked by both.
CheckRegister(w) ==
  /\ AtDocument(w, Pdf)
  /\ IF Registered(w) THEN Mark(w) /\ NextDocument(w) ELSE TakeUp(w)
  /\ UNCHANGED <<lock, creditVars, journalVars, approvalVars, done, decided, bank,
                 events>>

ReadPool(w) ==
  /\ at[w] = "readPool"
  /\ seen' = [seen EXCEPT ![w] = credits]
  /\ Goto(w, "readBilled")
  /\ UNCHANGED <<storeVars, job, netting, second, events>>

\* An order billed before fails the three-way match.
ReadBilled(w) ==
  /\ at[w] = "readBilled"
  /\ job' = [job EXCEPT ![w].ready = billed[NumberOf[job[w].doc]] = 0]
  /\ Goto(w, "pipeline")
  /\ UNCHANGED <<storeVars, workVars, events>>

\* A journal is made out in a second of its own, or in the latest one's.
MakeOut(w) ==
  /\ \/ journals' = Append(journals, NoJournal) /\ UNCHANGED events
     \/ Event /\ UNCHANGED journals
  /\ second' = [second EXCEPT ![w] = Len(journals')]
  /\ UNCHANGED collided

\* Whether an invoice that matches needs review depends on what was read
\* from it and on the history.
ExecutePipeline(w) ==
  LET result == Netting(Payable[job[w].doc], seen[w]) IN
  /\ at[w] = "pipeline"
  /\ netting' = [netting EXCEPT ![w] = result]
  /\ \E ready \in BOOLEAN :
       /\ ready => job[w].ready
       /\ job' = [job EXCEPT ![w].ready = ready]
       /\ IF ready THEN MakeOut(w) ELSE UNCHANGED <<journalVars, second, events>>
       /\ Goto(w, IF result.applied # EmptyPool THEN "draw"
                  ELSE IF ready THEN "readJournal" ELSE "park")
  /\ UNCHANGED <<lock, creditVars, approvalVars, recordVars, seen>>

\* The pool as netting left it replaces whatever the pool is by now.  An
\* approval nets the bundle anew, from which its parking drew already.
Draw(w) ==
  LET i == job[w].doc
      approval == job[w].kind = "approve"
      base == IF approval THEN [n \in Note |-> seen[w][n] - drawn[i][n]]
              ELSE seen[w]
  IN
  /\ at[w] = "draw"
  /\ credits' = netting[w].left
  /\ drawn' = [drawn EXCEPT ![i] =
       IF approval THEN netting[w].applied
       ELSE [n \in Note |-> @[n] + netting[w].applied[n]]]
  /\ overwritten' = (overwritten \/ credits # base)
  /\ netting' = [netting EXCEPT ![w] = [Untouched EXCEPT !.net = netting[w].net]]
  /\ Goto(w, IF approval THEN "makeOut"
             ELSE IF job[w].ready THEN "readJournal" ELSE "park")
  /\ UNCHANGED <<lock, issued, journalVars, approvalVars, recordVars, job, seen,
                 second, events>>

\* The bundle keeps the credits as read, before the netting above.  It takes
\* the place of any bundle of the same number, under approval or not.
Park(w) ==
  LET i == job[w].doc
      num == NumberOf[i]
  IN
  /\ at[w] = "park"
  /\ pending' = [pending EXCEPT ![num] = [inv |-> i, pool |-> seen[w]]]
  /\ parked' = parked \cup {i}
  /\ displaced' = displaced \cup
       IF pending[num].inv \in {"none", i} THEN {} ELSE {num}
  /\ NextDocument(w)
  /\ UNCHANGED <<lock, creditVars, journalVars, billed, recordVars, events>>

\* persist_general_ledger: a different journal under the number is an error.
Journal(w) == [inv |-> job[w].doc, net |-> netting[w].net]

AfterJournal(w) == IF job[w].kind = "file" THEN "decide" ELSE "bill"

\* Slip: a journal found under the number counts as posted.
ReadJournal_Any(w) ==
  /\ at[w] = "readJournal"
  /\ Goto(w, IF journals[second[w]] = NoJournal THEN "post" ELSE AfterJournal(w))
  /\ UNCHANGED <<storeVars, job, workVars, events>>

ReadJournal(w) ==
  LET found == journals[second[w]] IN
  /\ at[w] = "readJournal"
  /\ Goto(w, IF found = NoJournal THEN "post"
             ELSE IF found = Journal(w) THEN AfterJournal(w) ELSE "release")
  /\ UNCHANGED <<storeVars, job, workVars, events>>

Post(w) ==
  /\ at[w] = "post"
  /\ journals' = [journals EXCEPT ![second[w]] = Journal(w)]
  /\ collided' = (collided \/ journals[second[w]] # NoJournal)
  /\ Goto(w, AfterJournal(w))
  /\ UNCHANGED <<lock, creditVars, approvalVars, recordVars, job, workVars,
                 events>>

AfterPayment(w) == IF job[w].kind = "file" THEN "register" ELSE "drop"

\* Amounts are whole rupees here; the code pays from one rupee on.
ToPay(w) == IF netting[w].net > 0 THEN "pay" ELSE AfterPayment(w)

PersistDecision(w) ==
  /\ at[w] = "decide"
  /\ decided' = decided \cup {job[w].doc}
  /\ Goto(w, ToPay(w))
  /\ UNCHANGED <<lock, creditVars, journalVars, approvalVars, done, registerVars,
                 bank, job, workVars, events>>

\* The bank answers a key it knows with the payout it made; a submission may
\* be lost or refused, which is answered like a success.
StagePayout(w) ==
  LET i == job[w].doc IN
  /\ at[w] = "pay"
  /\ \/ UNCHANGED bank
     \/ /\ \A p \in bank : p.inv # i
        /\ bank' = bank \cup {Journal(w)}
  /\ Goto(w, AfterPayment(w))
  /\ UNCHANGED <<lock, creditVars, journalVars, approvalVars, done, registerVars,
                 decided, job, workVars, events>>

Register(w) ==
  /\ at[w] = "register"
  /\ Mark(w)
  /\ NextDocument(w)
  /\ UNCHANGED <<lock, creditVars, journalVars, approvalVars, done, decided, bank,
                 events>>

ReleaseLease(w) ==
  /\ at[w] = "release"
  /\ lock' = [lock EXCEPT ![job[w].on] = IF @ = w THEN Free ELSE @]
  /\ Finish(w)
  /\ UNCHANGED <<creditVars, journalVars, approvalVars, recordVars, events>>

----------------------------------------------------------------------------
(* A button pressed in Slack; its token works as long as it is presented.  *)

PressButton(w, num, kind) ==
  /\ Event
  /\ Start(w, kind, num)
  /\ UNCHANGED storeVars

\* An approval is of the invoice of the bundle, and nets its credits.
ApproveBundle(w) ==
  LET bundle == pending[job[w].on]
      result == Netting(Approvable[bundle.inv], bundle.pool)
  IN
  /\ job' = [job EXCEPT ![w].doc = bundle.inv]
  /\ seen' = [seen EXCEPT ![w] = bundle.pool]
  /\ netting' = [netting EXCEPT ![w] = result]
  /\ Goto(w, IF result.applied # EmptyPool THEN "draw" ELSE "makeOut")
  /\ UNCHANGED second

ReadBundle(w) ==
  /\ at[w] = "bundle"
  /\ IF pending[job[w].on] = NoBundle
     THEN Goto(w, "release") /\ UNCHANGED <<job, workVars>>
     ELSE IF job[w].kind = "reject"
     THEN Goto(w, "drop") /\ UNCHANGED <<job, workVars>>
     ELSE ApproveBundle(w)
  /\ UNCHANGED <<storeVars, events>>

MakeOutApproved(w) ==
  /\ at[w] = "makeOut"
  /\ MakeOut(w)
  /\ Goto(w, "readJournal")
  /\ UNCHANGED <<lock, creditVars, approvalVars, recordVars, job, seen, netting>>

\* record_po_billed_quantities adds, whoever added before; that it could not
\* is only logged.
RecordBilled(w) ==
  /\ at[w] = "bill"
  /\ billed' \in {billed, [billed EXCEPT ![job[w].on] = @ + 1]}
  /\ Goto(w, ToPay(w))
  /\ UNCHANGED <<lock, creditVars, journalVars, pending, parked, displaced,
                 recordVars, job, workVars, events>>

\* Whatever bundle has the number by now.
DeletePending(w) ==
  /\ at[w] = "drop"
  /\ pending' = [pending EXCEPT ![job[w].on] = NoBundle]
  /\ Goto(w, "release")
  /\ UNCHANGED <<lock, creditVars, journalVars, parked, displaced, billed,
                 recordVars, job, workVars, events>>

----------------------------------------------------------------------------
(* What does not come as a file of the bucket, and what goes wrong.        *)

BeginUpload(w, n) ==
  /\ Event
  /\ at[w] = "idle"
  /\ Goto(w, "putNote")
  /\ job' = [job EXCEPT ![w] = [NoJob EXCEPT !.kind = "credit", !.doc = n]]
  /\ seen' = [seen EXCEPT ![w] = credits]
  /\ UNCHANGED <<storeVars, netting, second>>

\* The upload endpoint takes an invoice in by hand and registers it, by its
\* content and by a key of its own making: the PAN of the registry and the
\* year of the clock may make it another invoice's key, or nobody's.
UploadInvoice(pdf, marked) ==
  /\ Event
  /\ keys' = keys \cup marked
  /\ hashes' = hashes \cup {pdf}
  /\ uploaded' = uploaded \cup (marked \ keys) \cup
       IF pdf \in hashes THEN {} ELSE {InvoiceOf[pdf]}
  /\ UNCHANGED <<lock, creditVars, journalVars, approvalVars, done, decided, bank,
                 workerVars>>

\* seed_vendor_credits replaces the pool by the notes it is given.
SeedCredits(notes) ==
  LET pool == [n \in Note |-> IF n \in notes THEN Face[n] ELSE 0] IN
  /\ Event
  /\ credits' = pool
  /\ issued' = [n \in Note |-> issued[n] + pool[n] - credits[n]]
  /\ UNCHANGED <<lock, drawn, overwritten, journalVars, approvalVars, recordVars,
                 workerVars>>

Fault ==
  /\ Event
  /\ UNCHANGED <<creditVars, journalVars, approvalVars, recordVars>>

\* Any call may raise once the lease is held; the lease is given back.
Raise(w) ==
  /\ at[w] \notin {"idle", "lease", "release"}
  /\ job[w].kind # "credit"
  /\ Fault
  /\ Goto(w, "release")
  /\ UNCHANGED <<lock, job, workVars>>

\* A process that dies leaves its leases to lapse.  So does a store that
\* fails to release one; if it fails to give one, the request ends.
Crash(w) ==
  /\ at[w] # "idle"
  /\ Fault
  /\ lock' = [x \in DOMAIN lock |-> IF lock[x] = w THEN Orphaned ELSE lock[x]]
  /\ Finish(w)

Lapse(x) ==
  /\ lock[x] = Orphaned
  /\ lock' = [lock EXCEPT ![x] = Free]
  /\ UNCHANGED <<creditVars, journalVars, approvalVars, recordVars, workerVars,
                 events>>

FileStep(w) ==
  \/ AcquireLease(w) \/ MarkDone(w) \/ ReadNotes(w) \/ PutNote(w)
  \/ CheckRegister(w) \/ ReadPool(w) \/ ReadBilled(w) \/ ExecutePipeline(w)
  \/ Draw(w) \/ Park(w) \/ ReadJournal(w) \/ Post(w) \/ PersistDecision(w)
  \/ StagePayout(w) \/ Register(w) \/ ReleaseLease(w)

SlackStep(w) ==
  ReadBundle(w) \/ MakeOutApproved(w) \/ RecordBilled(w) \/ DeletePending(w)

Requests(w) ==
  \/ \E f \in File : Receive(w, f)
  \/ \E num \in Numbers :
       PressButton(w, num, "approve") \/ PressButton(w, num, "reject")
  \/ \E n \in Note : BeginUpload(w, n)

IngestionNext ==
  \/ \E w \in Worker :
       FileStep(w) \/ SlackStep(w) \/ Requests(w) \/ Raise(w) \/ Crash(w)
  \/ \E notes \in SUBSET Note : SeedCredits(notes)
  \/ \E pdf \in Pdf :
       \/ UploadInvoice(pdf, {})
       \/ \E i \in Invoice : UploadInvoice(pdf, {i})
  \/ \E x \in File \cup Numbers : Lapse(x)

IngestionSpec == IngestionInit /\ [][IngestionNext]_ingestionVars

\* Requests end: every call they make has a timeout.  Pub/Sub repeats what
\* was not answered, and a lease nobody renews lapses.
IngestionFairness ==
  /\ \A w \in Worker : WF_ingestionVars(FileStep(w) \/ SlackStep(w))
  /\ \A f \in File : SF_ingestionVars(\E w \in Worker : Receive(w, f))
  /\ \A x \in File \cup Numbers : WF_ingestionVars(Lapse(x))

IngestionFairSpec == IngestionSpec /\ IngestionFairness

----------------------------------------------------------------------------
Leasing == {"document", "readPool", "readBilled", "pipeline", "park", "decide",
            "register", "bundle", "makeOut", "bill", "drop", "draw",
            "readJournal", "post", "pay", "release"}

Pool == [Note -> Nat]

\* Documents keep their shapes; no balance goes below zero.
IngestionTypeOK ==
  /\ done \subseteq File /\ hashes \subseteq Pdf
  /\ keys \subseteq Invoice /\ parked \subseteq Invoice /\ uploaded \subseteq Invoice
  /\ lock \in [File \cup Numbers -> Worker \cup {Free, Orphaned}]
  /\ credits \in Pool
  /\ \A num \in Numbers : pending[num].pool \in Pool
  /\ at \in [Worker -> Leasing \cup {"idle", "lease", "putNote"}]
  /\ \A w \in Worker : netting[w].net \in Nat /\ seen[w] \in Pool

DrawnOf(n) == SumFunction([i \in Invoice |-> drawn[i][n]])

\* As long as no write of the pool hides another's, what is left of a credit
\* note and what the invoices drew of it is what was put in, whatever was
\* parked, approved on an older pool, redelivered or cut short.
CreditsConserved == ~overwritten => \A n \in Note :
  credits[n] + DrawnOf(n) = issued[n]

\* No payout without a journal of the same amount, and no decision record
\* without a journal of its invoice, however requests die in between and
\* whatever becomes of the credits, unless two journals shared a second and
\* slipped past the check.
PayoutBacked == ~collided =>
  /\ \A p \in bank : \E s \in 1 .. Len(journals) : journals[s] = p
  /\ \A i \in decided : \E s \in 1 .. Len(journals) : journals[s].inv = i

\* A file is answered for good only when each of its invoices was decided
\* and registered, by whatever delivery of whatever file, or sent to
\* approval, or an upload by hand had registered it first.
FileHandled == \A f \in done : \A n \in 1 .. Len(Docs[f]) :
  Docs[f][n] \in Pdf =>
    InvoiceOf[Docs[f][n]] \in (keys \cap decided) \cup parked \cup uploaded

\* An approval bills and pays only while its number is still pending, with
\* other approvals and rejections of it under way; and pending is the very
\* invoice it pays, unless another of that number was parked over it.
ApprovalHeld == [][\A w \in Worker :
  at[w] \in {"bill", "pay", "drop"} /\ at'[w] # at[w] /\ job[w].kind = "approve"
    => LET num == job[w].on IN
       /\ pending[num] # NoBundle
       /\ pending[num].inv = job[w].doc \/ num \in displaced]_ingestionVars

\* Every file is answered for good in the end, in spite of refused leases,
\* crashes, errors and journals that collide.
EveryFileDone == \A f \in File : <>(f \in done)
=============================================================================
