--------------------------- MODULE IngestionProofs ---------------------------
(***************************************************************************)
(* Proofs about InvoiceIngestion, for every number of requests, files,     *)
(* invoices and credit notes: who has handled what (HandlingInv, whatever  *)
(* netting returns), what netting returns (NettingExact), that credit is   *)
(* conserved (CreditInv), and that payouts have their journals (BookInv).  *)
(***************************************************************************)
EXTENDS InvoiceIngestion, Folding, SequenceTheorems, TLAPS

----------------------------------------------------------------------------
(* The invariant.                                                          *)

Kinds == {"none", "file", "approve", "reject", "credit"}
Slack == {"approve", "reject"}

JobRec == [kind : Kinds, on : File \cup Numbers \cup {"none"}, pos : Nat,
           doc : Invoice \cup Note \cup {"none"}, ready : BOOLEAN]

\* The steps of a delivery that are about an invoice, those of an approval
\* that rest on the bundle it read, and the steps of each kind of request.
OnInvoice == {"readPool", "readBilled", "pipeline", "draw", "park",
              "readJournal", "post", "decide", "pay", "register"}

Approving == {"draw", "makeOut", "readJournal", "post", "bill", "pay", "drop"}

LabelsOf(kind) ==
  CASE kind = "none"    -> {"idle"}
    [] kind = "credit"  -> {"putNote"}
    [] kind = "file"    -> OnInvoice \cup {"lease", "document", "putNote", "release"}
    [] kind = "approve" -> Approving \cup {"lease", "bundle", "release"}
    [] kind = "reject"  -> {"lease", "bundle", "drop", "release"}

Labels == Leasing \cup {"idle", "lease", "putNote"}

ShapeInv ==
  /\ job \in [Worker -> JobRec]
  /\ at \in [Worker -> Labels]
  /\ lock \in [File \cup Numbers -> Worker \cup {Free, Orphaned}]
  /\ pending = [num \in Numbers |-> pending[num]]
  /\ \A num \in Numbers : pending[num] = NoBundle \/ pending[num].inv \in Invoice

\* What the register has was decided or uploaded by hand.
RegisterInv ==
  /\ keys \subseteq Invoice /\ parked \subseteq Invoice /\ uploaded \subseteq Invoice
  /\ hashes \subseteq Pdf
  /\ keys \subseteq decided \cup uploaded
  /\ \A pdf \in hashes : InvoiceOf[pdf] \in keys \cup uploaded

Handled(i) == i \in keys \cup parked \cup uploaded
HandledAfter(i) == i \in keys' \cup parked' \cup uploaded'

\* A delivery has handled the invoices before the document it is at, and has
\* a decision on record for one it pays and registers.
FileOf(w) == LET j == job[w] IN
  /\ j.on \in File
  /\ at[w] \notin {"lease", "release"} =>
       /\ j.pos > 0
       /\ \A n \in 1 .. Len(Docs[j.on]) :
            n < j.pos /\ Docs[j.on][n] \in Pdf => Handled(InvoiceOf[Docs[j.on][n]])
  /\ at[w] = "putNote" => j.doc \in Note /\ Docs[j.on][j.pos] \in Note
  /\ at[w] \in OnInvoice =>
       /\ j.doc \in Invoice
       /\ Docs[j.on][j.pos] \in Pdf /\ j.doc = InvoiceOf[Docs[j.on][j.pos]]
  /\ at[w] \in {"pay", "register"} => j.doc \in decided

Leased(w) == job[w].kind # "credit" /\ at[w] \notin {"idle", "lease"}

\* What an approval pays is pending, unless its bundle was replaced.
Held(w) == LET num == job[w].on IN
  /\ job[w].doc \in Invoice
  /\ pending[num] # NoBundle
  /\ pending[num].inv = job[w].doc \/ num \in displaced

WorkerInv(w) ==
  /\ at[w] \in LabelsOf(job[w].kind)
  /\ job[w].kind = "file" => FileOf(w)
  /\ job[w].kind \in Slack => job[w].on \in Numbers
  /\ Leased(w) => lock[job[w].on] = w
  /\ job[w].kind = "approve" /\ at[w] \in Approving => Held(w)

DoneInv == \A f \in done : \A n \in 1 .. Len(Docs[f]) :
  Docs[f][n] \in Pdf => Handled(InvoiceOf[Docs[f][n]])

HandlingInv ==
  /\ ShapeInv /\ RegisterInv
  /\ \A w \in Worker : WorkerInv(w)
  /\ done \subseteq File /\ DoneInv

----------------------------------------------------------------------------
LEMMA NoJobShape == NoJob \in JobRec /\ NoJob.kind = "none"
BY DEF NoJob, JobRec, Kinds

LEMMA BundleShape ==
  ASSUME NEW i \in Invoice, NEW pool
  PROVE  [inv |-> i, pool |-> pool] # NoBundle
BY IngestionAssumption DEF NoBundle

\* Numbers that are held exist; a file is none of them.
LEMMA NumberShape == \A i \in Invoice : NumberOf[i] \in Numbers
BY DEF Numbers

LEMMA InitHandling == IngestionInit => HandlingInv
<1> SUFFICES ASSUME IngestionInit PROVE HandlingInv
  OBVIOUS
<1>1. ShapeInv
  <2>1. job \in [Worker -> JobRec] /\ at \in [Worker -> Labels]
    BY NoJobShape DEF IngestionInit, Labels
  <2>2. lock \in [File \cup Numbers -> Worker \cup {Free, Orphaned}]
    BY DEF IngestionInit
  <2>3. pending = [num \in Numbers |-> NoBundle]
    BY DEF IngestionInit
  <2> QED
    BY <2>1, <2>2, <2>3 DEF ShapeInv
<1>2. \A w \in Worker : WorkerInv(w)
  BY NoJobShape DEF IngestionInit, WorkerInv, Leased, LabelsOf, Slack
<1>3. done \subseteq File /\ DoneInv /\ RegisterInv
  BY DEF IngestionInit, DoneInv, RegisterInv
<1> QED
  BY <1>1, <1>2, <1>3 DEF HandlingInv

----------------------------------------------------------------------------
(* What a step leaves as it is for the other requests.                     *)

Grows ==
  /\ keys \subseteq keys' /\ decided \subseteq decided'
  /\ parked \subseteq parked' /\ uploaded \subseteq uploaded'
  /\ displaced \subseteq displaced'

\* The bundle of a number stays, or it is known to be another's.
StillHeld(num) ==
  /\ pending'[num] # NoBundle
  /\ pending'[num].inv = pending[num].inv \/ num \in displaced'

\* A step of w takes neither a lease of another nor the bundle under it.
Spares(w) ==
  /\ Grows
  /\ lock' \in [File \cup Numbers -> Worker \cup {Free, Orphaned}]
  /\ \A x \in File \cup Numbers : lock[x] \in Worker \ {w} => lock'[x] = lock[x]
  /\ pending' = [num \in Numbers |-> pending'[num]]
  /\ \A num \in Numbers : pending'[num] = NoBundle \/ pending'[num].inv \in Invoice
  /\ \A num \in Numbers : pending[num] # NoBundle => StillHeld(num) \/ lock[num] = w

LEMMA SparedKept ==
  ASSUME HandlingInv, NEW w, Spares(w), NEW v \in Worker, v # w,
         at'[v] = at[v], job'[v] = job[v]
  PROVE  WorkerInv(v)'
<1>0. WorkerInv(v) /\ job[v] \in JobRec
  BY DEF HandlingInv, ShapeInv
<1>1. job[v].kind = "file" => FileOf(v)'
  BY <1>0 DEF WorkerInv, FileOf, Handled, Spares, Grows
<1>2. Leased(v) => job[v].on \in File \cup Numbers
  BY <1>0 DEF WorkerInv, Leased, LabelsOf, FileOf, Slack, JobRec, Kinds
<1>3. Leased(v)' => lock'[job[v].on] = v
  BY <1>0, <1>2 DEF WorkerInv, Leased, Spares
<1>4. job[v].kind = "approve" /\ at[v] \in Approving => Held(v)'
  BY <1>0 DEF WorkerInv, Leased, Approving, Slack, Spares, StillHeld, Held, Grows
<1> QED
  BY <1>0, <1>1, <1>3, <1>4 DEF WorkerInv

LEMMA LapseStep ==
  ASSUME HandlingInv, NEW x \in File \cup Numbers, Lapse(x)
  PROVE  HandlingInv'
<1>1. /\ UNCHANGED <<at, job, pending, parked, displaced, keys, hashes, uploaded,
               decided, done>>
      /\ lock[x] = Orphaned /\ lock' = [lock EXCEPT ![x] = Free]
  BY DEF Lapse, approvalVars, recordVars, registerVars, workerVars
<1>2. Spares(Orphaned)
  BY <1>1 DEF HandlingInv, ShapeInv, Spares, Grows, StillHeld
<1>3. \A v \in Worker : v # Orphaned
  BY IngestionAssumption DEF Orphaned
<1>4. \A v \in Worker : WorkerInv(v)'
  BY <1>1, <1>2, <1>3, SparedKept
<1>5. ShapeInv' /\ DoneInv'
  BY <1>1, <1>2 DEF HandlingInv, ShapeInv, DoneInv, Handled, Spares
<1>6. RegisterInv'
  BY <1>1 DEF HandlingInv, RegisterInv
<1> QED
  BY <1>1, <1>4, <1>5, <1>6 DEF HandlingInv

\* An upload registers an invoice, and some key, without a decision.
LEMMA UploadStep ==
  ASSUME HandlingInv, NEW pdf \in Pdf, NEW marked \in SUBSET Invoice,
         UploadInvoice(pdf, marked)
  PROVE  HandlingInv'
<1>1. /\ UNCHANGED <<at, job, lock, pending, parked, displaced, decided, done>>
      /\ keys' = keys \cup marked /\ hashes' = hashes \cup {pdf}
      /\ uploaded' = uploaded \cup (marked \ keys) \cup
           IF pdf \in hashes THEN {} ELSE {InvoiceOf[pdf]}
  BY DEF UploadInvoice, approvalVars, workerVars
<1>2. Spares(Orphaned)
  BY <1>1 DEF HandlingInv, ShapeInv, Spares, Grows, StillHeld
<1>3. \A v \in Worker : v # Orphaned
  BY IngestionAssumption DEF Orphaned
<1>4. \A v \in Worker : WorkerInv(v)'
  BY <1>1, <1>2, <1>3, SparedKept
<1>5. ShapeInv' /\ DoneInv'
  BY <1>1, <1>2 DEF HandlingInv, ShapeInv, DoneInv, Handled, Spares
<1>6. InvoiceOf[pdf] \in Invoice
  BY IngestionAssumption
<1>7. RegisterInv'
  BY <1>1, <1>6 DEF HandlingInv, RegisterInv
<1> QED
  BY <1>1, <1>4, <1>5, <1>7 DEF HandlingInv

LEMMA SeedStep ==
  ASSUME HandlingInv, NEW notes \in SUBSET Note, SeedCredits(notes)
  PROVE  HandlingInv'
<1>1. UNCHANGED <<at, job, lock, pending, parked, displaced, keys, hashes, uploaded,
               decided, done>>
  BY DEF SeedCredits, approvalVars, recordVars, registerVars, workerVars
<1> QED
  BY <1>1 DEF HandlingInv, ShapeInv, RegisterInv, DoneInv, Handled, WorkerInv, FileOf,
              Leased, Held

\* So the step of a request is about that request, and about answering files.
LEMMA WorkerStep ==
  ASSUME HandlingInv, NEW w \in Worker, NEW label \in Labels, NEW j \in JobRec,
         at' = [at EXCEPT ![w] = label], job' = [job EXCEPT ![w] = j],
         Spares(w), RegisterInv', WorkerInv(w)',
         done' = done \/ (done' = done \cup {job[w].on} /\ MarkDone(w))
  PROVE  HandlingInv'
<1>0. ShapeInv /\ \A v \in Worker : WorkerInv(v)
  BY DEF HandlingInv
<1>1. ShapeInv'
  BY <1>0 DEF ShapeInv, Spares
<1>2. \A v \in Worker : v # w => at'[v] = at[v] /\ job'[v] = job[v]
  BY <1>0 DEF ShapeInv
<1>3. \A v \in Worker : WorkerInv(v)'
  BY <1>2, SparedKept
<1>4. \A i : Handled(i) => Handled(i)'
  BY DEF Handled, Spares, Grows
<1>5. CASE done' = done
  BY <1>1, <1>3, <1>4, <1>5 DEF HandlingInv, DoneInv
<1>6. CASE done' = done \cup {job[w].on} /\ MarkDone(w)
  <2>1. job[w].kind = "file" /\ job[w].on \in File /\ FileOf(w)
    BY <1>0, <1>6 DEF WorkerInv, MarkDone, LabelsOf, Approving, ShapeInv, JobRec,
                      Kinds, FileOf
  <2>2. \A n \in 1 .. Len(Docs[job[w].on]) :
          Docs[job[w].on][n] \in Pdf => Handled(InvoiceOf[Docs[job[w].on][n]])
    <3>1. Len(Docs[job[w].on]) \in Nat /\ job[w].pos \in Nat
      BY <1>0, <2>1, IngestionAssumption DEF ShapeInv, JobRec
    <3> QED
      BY <1>6, <2>1, <3>1 DEF FileOf, MarkDone
  <2>3. DoneInv'
    BY <1>4, <1>6, <2>2 DEF HandlingInv, DoneInv
  <2> QED
    BY <1>1, <1>3, <1>6, <2>1, <2>3 DEF HandlingInv
<1> QED
  BY <1>5, <1>6

----------------------------------------------------------------------------
(* Steps that begin, end or continue a request.                            *)

\* What w holds and leaves alone suffices for the steps that take no lease.
LEMMA Unleased ==
  ASSUME HandlingInv, NEW w \in Worker, lock' = lock, Grows,
         \/ pending' = pending
         \/ \E num \in Numbers : /\ pending' = [pending EXCEPT ![num] = NoBundle]
                                 /\ lock[num] = w
  PROVE  Spares(w)
BY DEF HandlingInv, ShapeInv, Spares, StillHeld

\* A request that is over, its lease given back or left to lapse.
LEMMA Ended ==
  ASSUME HandlingInv, NEW w \in Worker, Finish(w), Grows, RegisterInv',
         pending' = pending, done' = done,
         lock' \in [File \cup Numbers -> Worker \cup {Free, Orphaned}],
         \A x \in File \cup Numbers : lock[x] \in Worker \ {w} => lock'[x] = lock[x]
  PROVE  HandlingInv'
<1>1. at' = [at EXCEPT ![w] = "idle"] /\ job' = [job EXCEPT ![w] = NoJob]
  BY DEF Finish, Goto
<1>2. Spares(w)
  BY DEF HandlingInv, ShapeInv, Spares, StillHeld
<1>3. at'[w] = "idle" /\ job'[w] = NoJob
  BY <1>1 DEF HandlingInv, ShapeInv
<1>4. WorkerInv(w)'
  BY <1>3, NoJobShape DEF WorkerInv, Leased, LabelsOf, Slack
<1> QED
  BY <1>1, <1>2, <1>4, NoJobShape, WorkerStep DEF Labels

\* A step within a request.
LEMMA Onward ==
  ASSUME HandlingInv, NEW w \in Worker, NEW label \in Labels, NEW j \in JobRec,
         at' = [at EXCEPT ![w] = label], job' = [job EXCEPT ![w] = j],
         j.kind = job[w].kind, j.on = job[w].on, j.pos = job[w].pos, j.doc = job[w].doc,
         j.kind \in {"file"} \cup Slack,
         label \in LabelsOf(j.kind) \ {"idle", "lease", "putNote"},
         at[w] \notin {"idle", "lease"},
         lock' = lock, Spares(w), RegisterInv',
         j.kind = "file" /\ label \in OnInvoice => at[w] \in OnInvoice,
         j.kind = "file" /\ label # "release" => at[w] # "release",
         j.kind = "file" /\ label \in {"pay", "register"} => j.doc \in decided',
         j.kind = "approve" /\ label \in Approving => Held(w)',
         done' = done \/ (done' = done \cup {job[w].on} /\ MarkDone(w))
  PROVE  HandlingInv'
<1>0. WorkerInv(w) /\ ShapeInv
  BY DEF HandlingInv
<1>1. at'[w] = label /\ job'[w] = j
  BY <1>0 DEF ShapeInv
<1>2. \A i : Handled(i) => Handled(i)'
  BY DEF Handled, Spares, Grows
<1>3. j.kind = "file" => FileOf(w)'
  BY <1>0, <1>1, <1>2 DEF WorkerInv, FileOf
<1>4. Leased(w)' => lock'[j.on] = w
  BY <1>0, <1>1 DEF WorkerInv, Leased, Slack
<1>5. WorkerInv(w)'
  BY <1>0, <1>1, <1>3, <1>4 DEF WorkerInv
<1> QED
  BY <1>1, <1>5, WorkerStep

\* On to the next document, the one at hand being handled or a note.
LEMMA NextOne ==
  ASSUME HandlingInv, NEW w \in Worker, NextDocument(w), job[w].kind = "file",
         at[w] \notin {"idle", "lease", "release"},
         lock' = lock, Spares(w), RegisterInv', done' = done,
         Docs[job[w].on][job[w].pos] \in Pdf =>
           HandledAfter(InvoiceOf[Docs[job[w].on][job[w].pos]])
  PROVE  HandlingInv'
<1> DEFINE j == [NoJob EXCEPT !.kind = "file", !.on = job[w].on,
                              !.pos = job[w].pos + 1]
<1>0. WorkerInv(w) /\ ShapeInv /\ job[w] \in JobRec
  BY DEF HandlingInv, ShapeInv
<1>1. job[w].on \in File /\ job[w].pos \in Nat
  BY <1>0 DEF WorkerInv, FileOf, JobRec
<1>2. /\ j \in JobRec /\ j.kind = "file" /\ j.on = job[w].on /\ j.pos = job[w].pos + 1
  <2> DEFINE p == job[w].pos + 1
             o == job[w].on
  <2>1. p \in Nat /\ o \in File
    BY <1>1
  <2> HIDE DEF p, o
  <2>2. LET k == [NoJob EXCEPT !.kind = "file", !.on = o, !.pos = p] IN
          k \in JobRec /\ k.kind = "file" /\ k.on = o /\ k.pos = p
    BY <2>1, NoJobShape DEF JobRec, Kinds
  <2> QED
    BY <2>2 DEF p, o
<1>3. at' = [at EXCEPT ![w] = "document"] /\ job' = [job EXCEPT ![w] = j]
  BY DEF NextDocument, Goto
<1> HIDE DEF j
<1>4. at'[w] = "document" /\ job'[w] = j
  BY <1>0, <1>3 DEF ShapeInv
<1>5. \A i : Handled(i) => HandledAfter(i)
  BY DEF Handled, HandledAfter, Spares, Grows
<1>6. \A n \in 1 .. Len(Docs[j.on]) :
        n < j.pos /\ Docs[j.on][n] \in Pdf => HandledAfter(InvoiceOf[Docs[j.on][n]])
  <2> SUFFICES ASSUME NEW n \in 1 .. Len(Docs[j.on]), n < j.pos,
                      Docs[j.on][n] \in Pdf
               PROVE  HandledAfter(InvoiceOf[Docs[j.on][n]])
    OBVIOUS
  <2>1. n \in Int /\ (n < job[w].pos \/ n = job[w].pos)
    BY <1>1, <1>2
  <2>2. CASE n = job[w].pos
    BY <1>2, <2>2
  <2>3. CASE n < job[w].pos
    <3>1. Handled(InvoiceOf[Docs[job[w].on][n]])
      BY <1>0, <1>2, <2>3 DEF WorkerInv, FileOf
    <3> QED
      BY <1>2, <1>5, <3>1
  <2> QED
    BY <2>1, <2>2, <2>3
<1>7. FileOf(w)'
  BY <1>1, <1>2, <1>4, <1>6 DEF FileOf, OnInvoice, Handled, HandledAfter
<1>8. lock'[j.on] = w
  BY <1>0, <1>2 DEF WorkerInv, Leased
<1>9. WorkerInv(w)'
  BY <1>2, <1>4, <1>7, <1>8 DEF WorkerInv, Leased, LabelsOf, Slack
<1> QED
  BY <1>2, <1>3, <1>9, WorkerStep DEF Labels, Leasing

----------------------------------------------------------------------------
(* The steps, one by one.                                                  *)

LEMMA KindAt ==
  ASSUME HandlingInv, NEW w \in Worker
  PROVE  /\ WorkerInv(w) /\ job[w] \in JobRec /\ job = [job EXCEPT ![w] = job[w]]
         /\ at[w] \in {"document", "readPool", "readBilled", "pipeline", "park",
                       "decide", "register"} => job[w].kind = "file"
         /\ at[w] \in {"bundle", "drop"} => job[w].kind \in Slack
         /\ at[w] \in {"makeOut", "bill"} => job[w].kind = "approve"
         /\ at[w] \in {"draw", "readJournal", "post", "pay"} =>
              job[w].kind \in {"file", "approve"}
         /\ at[w] = "lease" => job[w].kind \in {"file"} \cup Slack
         /\ at[w] = "release" => job[w].kind \in {"file"} \cup Slack
         /\ at[w] = "putNote" => job[w].kind \in {"file", "credit"}
<1>1. WorkerInv(w) /\ job[w] \in JobRec /\ job = [job EXCEPT ![w] = job[w]]
  BY DEF HandlingInv, ShapeInv
<1>2. at[w] \in LabelsOf(job[w].kind) /\ job[w].kind \in Kinds
  BY <1>1 DEF WorkerInv, JobRec
<1> QED
  BY <1>1, <1>2 DEF LabelsOf, Kinds, Slack, Approving, OnInvoice

\* Steps that go on with the invoice at hand and change nothing counted here.
LEMMA QuietOnward ==
  ASSUME HandlingInv, NEW w \in Worker, NEW label, NEW j \in JobRec,
         at' = [at EXCEPT ![w] = label], job' = [job EXCEPT ![w] = j],
         j.kind = job[w].kind, j.on = job[w].on, j.pos = job[w].pos, j.doc = job[w].doc,
         UNCHANGED <<lock, pending, parked, displaced, keys, hashes, uploaded, done>>,
         decided \subseteq decided',
         at[w] \notin {"idle", "lease", "release", "putNote"},
         \/ /\ at[w] \in OnInvoice \cap Approving
            /\ j.kind \in {"file", "approve"}
         \/ at[w] \in OnInvoice /\ j.kind = "file"
         \/ at[w] \in Approving /\ j.kind = "approve",
         j.kind = "file" => label \in OnInvoice \cup {"release"},
         j.kind = "approve" => label \in Approving \cup {"release"},
         j.kind = "file" /\ label \in {"pay", "register"} => j.doc \in decided'
  PROVE  HandlingInv'
<1>1. Spares(w) /\ RegisterInv'
  BY Unleased DEF Grows, HandlingInv, RegisterInv
<1>2. j.kind = "approve" => Held(w)'
  BY KindAt DEF WorkerInv, Held, HandlingInv, ShapeInv
<1>3. label \in LabelsOf(j.kind) \ {"idle", "lease", "putNote"}
  BY DEF LabelsOf, OnInvoice, Approving
<1>4. label \in Labels
  BY DEF Labels, Leasing, OnInvoice, Approving
<1>5. j.kind \in {"file"} \cup Slack
  BY DEF Slack
<1> HIDE DEF HandlingInv
<1> QED
  BY <1>1, <1>2, <1>3, <1>4, <1>5, Onward

LEMMA QuietSteps ==
  ASSUME HandlingInv, NEW w \in Worker,
         \/ ReadPool(w) \/ ReadBilled(w) \/ ExecutePipeline(w) \/ Draw(w)
         \/ ReadJournal(w) \/ Post(w) \/ PersistDecision(w) \/ StagePayout(w)
         \/ MakeOutApproved(w) \/ RecordBilled(w)
  PROVE  HandlingInv'
<1>0. /\ WorkerInv(w) /\ job[w] \in JobRec /\ job = [job EXCEPT ![w] = job[w]]
      /\ at[w] \in {"readPool", "readBilled", "pipeline", "decide"} => job[w].kind = "file"
      /\ at[w] \in {"makeOut", "bill"} => job[w].kind = "approve"
      /\ at[w] \in {"draw", "readJournal", "post", "pay"} =>
              job[w].kind \in {"file", "approve"}
  BY KindAt
<1>1. CASE ReadPool(w)
  <2>1. /\ at' = [at EXCEPT ![w] = "readBilled"] /\ job' = job /\ at[w] = "readPool"
        /\ UNCHANGED <<lock, pending, parked, displaced, keys, hashes, uploaded, done, decided>>
    BY <1>1 DEF ReadPool, Goto, storeVars, journalVars, approvalVars, recordVars,
                registerVars
  <2> QED
    BY <1>0, <2>1, QuietOnward DEF OnInvoice
<1>2. CASE ReadBilled(w)
  <2> DEFINE j == [job[w] EXCEPT !.ready = billed[NumberOf[job[w].doc]] = 0]
  <2>1. /\ at' = [at EXCEPT ![w] = "pipeline"] /\ job' = [job EXCEPT ![w] = j]
        /\ at[w] = "readBilled"
        /\ UNCHANGED <<lock, pending, parked, displaced, keys, hashes, uploaded, done, decided>>
    <3>1. job' = [job EXCEPT ![w].ready = billed[NumberOf[job[w].doc]] = 0]
      BY <1>2 DEF ReadBilled
    <3> QED
      BY <1>2, <3>1 DEF ReadBilled, Goto, storeVars, approvalVars, recordVars,
                        registerVars
  <2>2. /\ j \in JobRec /\ j.kind = job[w].kind /\ j.on = job[w].on
        /\ j.pos = job[w].pos /\ j.doc = job[w].doc
    BY <1>0 DEF JobRec
  <2> HIDE DEF j
  <2> QED
    BY <1>0, <2>1, <2>2, QuietOnward DEF OnInvoice
<1>3. CASE ExecutePipeline(w)
  <2>0. PICK ready \in BOOLEAN, label \in {"draw", "readJournal", "park"} :
          /\ at' = [at EXCEPT ![w] = label] /\ job' = [job EXCEPT ![w].ready = ready]
    BY <1>3 DEF ExecutePipeline, Goto
  <2> DEFINE j == [job[w] EXCEPT !.ready = ready]
  <2>1. /\ job' = [job EXCEPT ![w] = j] /\ at[w] = "pipeline"
        /\ UNCHANGED <<lock, pending, parked, displaced, keys, hashes, uploaded, done, decided>>
    BY <1>3, <2>0 DEF ExecutePipeline, approvalVars, recordVars, registerVars
  <2>2. /\ j \in JobRec /\ j.kind = job[w].kind /\ j.on = job[w].on
        /\ j.pos = job[w].pos /\ j.doc = job[w].doc
    BY <1>0 DEF JobRec
  <2> HIDE DEF j
  <2> QED
    BY <1>0, <2>0, <2>1, <2>2, QuietOnward DEF OnInvoice
<1>4. CASE Draw(w)
  <2>1. PICK label : at' = [at EXCEPT ![w] = label] /\
          label = IF job[w].kind = "approve" THEN "makeOut"
                  ELSE IF job[w].ready THEN "readJournal" ELSE "park"
    BY <1>4 DEF Draw, Goto
  <2>2. /\ job' = job /\ at[w] = "draw"
        /\ UNCHANGED <<lock, pending, parked, displaced, keys, hashes, uploaded, done, decided>>
    BY <1>4 DEF Draw, approvalVars, recordVars, registerVars
  <2> QED
    BY <1>0, <2>1, <2>2, QuietOnward DEF OnInvoice, Approving
<1>5. CASE ReadJournal(w)
  <2>1. PICK label : at' = [at EXCEPT ![w] = label] /\
          label \in {"post", "release", IF job[w].kind = "file" THEN "decide" ELSE "bill"}
    BY <1>5 DEF ReadJournal, Goto, AfterJournal
  <2>2. /\ job' = job /\ at[w] = "readJournal"
        /\ UNCHANGED <<lock, pending, parked, displaced, keys, hashes, uploaded, done, decided>>
    BY <1>5 DEF ReadJournal, storeVars, journalVars, approvalVars, recordVars,
                registerVars
  <2> QED
    BY <1>0, <2>1, <2>2, QuietOnward DEF OnInvoice, Approving
<1>6. CASE Post(w)
  <2>1. PICK label : at' = [at EXCEPT ![w] = label] /\
          label = IF job[w].kind = "file" THEN "decide" ELSE "bill"
    BY <1>6 DEF Post, Goto, AfterJournal
  <2>2. /\ job' = job /\ at[w] = "post"
        /\ UNCHANGED <<lock, pending, parked, displaced, keys, hashes, uploaded, done, decided>>
    BY <1>6 DEF Post, approvalVars, recordVars, registerVars
  <2> QED
    BY <1>0, <2>1, <2>2, QuietOnward DEF OnInvoice, Approving
<1>7. CASE PersistDecision(w)
  <2>1. at[w] = "decide" /\ job[w].kind = "file"
    BY <1>0, <1>7 DEF PersistDecision
  <2>2. PICK label \in {"pay", "register"} : at' = [at EXCEPT ![w] = label]
    BY <1>7, <2>1 DEF PersistDecision, Goto, ToPay, AfterPayment
  <2>3. /\ job' = job /\ decided' = decided \cup {job[w].doc}
        /\ UNCHANGED <<lock, pending, parked, displaced, keys, hashes, uploaded, done>>
    BY <1>7 DEF PersistDecision, approvalVars, registerVars
  <2>4. decided \subseteq decided' /\ job[w].doc \in decided'
    BY <2>3
  <2> QED
    BY <1>0, <2>1, <2>2, <2>3, <2>4, QuietOnward DEF OnInvoice
<1>8. CASE StagePayout(w)
  <2>1. PICK label : at' = [at EXCEPT ![w] = label] /\
          label = IF job[w].kind = "file" THEN "register" ELSE "drop"
    BY <1>8 DEF StagePayout, Goto, AfterPayment
  <2>2. /\ job' = job /\ at[w] = "pay"
        /\ UNCHANGED <<lock, pending, parked, displaced, keys, hashes, uploaded, done, decided>>
    BY <1>8 DEF StagePayout, approvalVars, registerVars
  <2>3. job[w].kind = "file" => job[w].doc \in decided
    BY <1>0, <2>2 DEF WorkerInv, FileOf
  <2> QED
    BY <1>0, <2>1, <2>2, <2>3, QuietOnward DEF OnInvoice, Approving
<1>9. CASE MakeOutApproved(w)
  <2>1. /\ at' = [at EXCEPT ![w] = "readJournal"] /\ job' = job /\ at[w] = "makeOut"
        /\ UNCHANGED <<lock, pending, parked, displaced, keys, hashes, uploaded, done, decided>>
    BY <1>9 DEF MakeOutApproved, Goto, approvalVars, recordVars, registerVars
  <2> QED
    BY <1>0, <2>1, QuietOnward DEF Approving
<1>10. CASE RecordBilled(w)
  <2>1. at[w] = "bill" /\ job[w].kind = "approve"
    BY <1>0, <1>10 DEF RecordBilled
  <2>2. PICK label \in {"pay", "drop"} : at' = [at EXCEPT ![w] = label]
    BY <1>10, <2>1 DEF RecordBilled, Goto, ToPay, AfterPayment
  <2>3. /\ job' = job /\ UNCHANGED <<lock, pending, parked, displaced, keys, hashes, uploaded, done, decided>>
    BY <1>10 DEF RecordBilled, recordVars, registerVars
  <2> QED
    BY <1>0, <2>1, <2>2, <2>3, QuietOnward DEF Approving
<1> QED
  BY <1>1, <1>2, <1>3, <1>4, <1>5, <1>6, <1>7, <1>8, <1>9, <1>10

\* The document at hand is taken up.
LEMMA TakenUp ==
  ASSUME HandlingInv, NEW w \in Worker, NEW label, NEW d,
         at[w] = "document", at' = [at EXCEPT ![w] = label],
         job' = [job EXCEPT ![w].doc = d],
         UNCHANGED <<lock, pending, parked, displaced, keys, hashes, uploaded,
                     decided, done>>,
         \/ label = "putNote" /\ Document(w) \in Note /\ d = Document(w)
         \/ label = "readPool" /\ Document(w) \in Pdf /\ d = InvoiceOf[Document(w)]
  PROVE  HandlingInv'
<1>0. WorkerInv(w) /\ job[w] \in JobRec /\ job[w].kind = "file"
  BY KindAt
<1> DEFINE j == [job[w] EXCEPT !.doc = d]
<1>1. job' = [job EXCEPT ![w] = j] /\ Document(w) = Docs[job[w].on][job[w].pos]
  BY DEF Document
<1>2. /\ j \in JobRec /\ j.kind = "file" /\ j.on = job[w].on
      /\ j.pos = job[w].pos /\ j.doc = d
  <2>1. d \in Note \cup Invoice
    BY IngestionAssumption
  <2> QED
    BY <1>0, <2>1 DEF JobRec
<1> HIDE DEF j
<1>3. at'[w] = label /\ job'[w] = j
  BY <1>1 DEF HandlingInv, ShapeInv
<1>4. Spares(w) /\ RegisterInv'
  BY Unleased DEF Grows, HandlingInv, RegisterInv
<1>5. FileOf(w)'
  <2>1. FileOf(w)
    BY <1>0 DEF WorkerInv
  <2>2. d \in Invoice \/ label = "putNote"
    BY IngestionAssumption
  <2> QED
    BY <1>1, <1>2, <1>3, <2>1, <2>2 DEF FileOf, Handled, OnInvoice
<1>6. lock'[j.on] = w
  BY <1>0, <1>2 DEF WorkerInv, Leased
<1>7. WorkerInv(w)'
  <2>1. label \in LabelsOf("file")
    BY DEF LabelsOf, OnInvoice
  <2> QED
    BY <1>2, <1>3, <1>5, <1>6, <2>1 DEF WorkerInv, Leased, Slack
<1>8. label \in Labels
  BY DEF Labels, Leasing
<1> QED
  BY <1>1, <1>2, <1>4, <1>7, <1>8, WorkerStep

\* Marking a document handles its invoice, if what was to be on record is.
LEMMA Marked ==
  ASSUME HandlingInv, NEW w \in Worker, Document(w) \in Pdf, Mark(w),
         UNCHANGED <<lock, pending, parked, displaced, decided, done>>,
         InvoiceOf[Document(w)] \in decided \cup uploaded
  PROVE  Spares(w) /\ RegisterInv' /\ HandledAfter(InvoiceOf[Document(w)])
<1>1. /\ keys' = keys \cup {InvoiceOf[Document(w)]}
      /\ hashes' = hashes \cup {Document(w)} /\ uploaded' = uploaded
  BY DEF Mark
<1>2. InvoiceOf[Document(w)] \in Invoice
  BY IngestionAssumption
<1> DEFINE i == InvoiceOf[Document(w)]
<1> HIDE DEF i
<1>3. RegisterInv'
  BY <1>1, <1>2 DEF HandlingInv, RegisterInv
<1>4. Grows
  BY <1>1 DEF Grows
<1> QED
  BY <1>1, <1>3, <1>4, Unleased DEF HandledAfter

LEMMA DocumentSteps ==
  ASSUME HandlingInv, NEW w \in Worker,
         ReadNotes(w) \/ CheckRegister(w) \/ PutNote(w) \/ Park(w) \/ Register(w)
  PROVE  HandlingInv'
<1>0. /\ WorkerInv(w) /\ job[w] \in JobRec /\ RegisterInv
      /\ at[w] \in {"document", "park", "register"} => job[w].kind = "file"
      /\ at[w] = "putNote" => job[w].kind \in {"file", "credit"}
      /\ Document(w) = Docs[job[w].on][job[w].pos]
  BY KindAt DEF HandlingInv, Document
<1>1. CASE ReadNotes(w)
  BY <1>1, TakenUp DEF ReadNotes, AtDocument, Goto, storeVars, approvalVars, recordVars,
                       registerVars
<1>2. CASE CheckRegister(w)
  <2>1. /\ UNCHANGED <<lock, pending, parked, displaced, decided, done>>
        /\ at[w] = "document" /\ Document(w) \in Pdf
    BY <1>2 DEF CheckRegister, AtDocument, approvalVars
  <2>2. CASE Registered(w) /\ Mark(w) /\ NextDocument(w)
    <3>1. InvoiceOf[Document(w)] \in decided \cup uploaded
      BY <1>0, <2>2 DEF Registered, RegisterInv
    <3>2. Spares(w) /\ RegisterInv' /\ HandledAfter(InvoiceOf[Document(w)])
      BY <2>1, <2>2, <3>1, Marked
    <3> QED
      BY <1>0, <2>1, <2>2, <3>2, NextOne
  <2>3. CASE TakeUp(w)
    BY <2>1, <2>3, TakenUp DEF TakeUp, Goto, registerVars
  <2> QED
    BY <1>2, <2>2, <2>3 DEF CheckRegister
<1>3. CASE PutNote(w)
  <2>1. /\ UNCHANGED <<lock, pending, parked, displaced, keys, hashes, uploaded,
                       decided, done>>
        /\ at[w] = "putNote"
    BY <1>3 DEF PutNote, approvalVars, recordVars, registerVars
  <2>2. Grows /\ RegisterInv' /\ Spares(w)
    BY <2>1, Unleased DEF Grows, HandlingInv, RegisterInv
  <2>3. CASE Finish(w)
    BY <2>1, <2>2, <2>3, Ended DEF HandlingInv, ShapeInv
  <2>4. CASE NextDocument(w) /\ job[w].kind = "file"
    <3>1. Docs[job[w].on][job[w].pos] \notin Pdf
      BY <1>0, <2>1, <2>4, IngestionAssumption DEF WorkerInv, FileOf
    <3> QED
      BY <2>1, <2>2, <2>4, <3>1, NextOne
  <2> QED
    BY <1>3, <2>3, <2>4 DEF PutNote
<1>4. CASE Park(w)
  <2> DEFINE i == job[w].doc
             num == NumberOf[i]
             bundle == [inv |-> i, pool |-> seen[w]]
  <2>1. /\ UNCHANGED <<lock, keys, hashes, uploaded, decided, done>> /\ at[w] = "park"
        /\ parked' = parked \cup {i} /\ NextDocument(w)
        /\ pending' = [pending EXCEPT ![num] = bundle]
        /\ displaced' = displaced \cup
             IF pending[num].inv \in {"none", i} THEN {} ELSE {num}
    BY <1>4 DEF Park, recordVars, registerVars
  <2>2. /\ job[w].kind = "file" /\ i \in Invoice
        /\ i = InvoiceOf[Docs[job[w].on][job[w].pos]]
    BY <1>0, <2>1 DEF WorkerInv, FileOf, OnInvoice
  <2>3. num \in Numbers /\ bundle # NoBundle /\ bundle.inv = i
    BY <2>2, BundleShape, NumberShape
  <2> HIDE DEF i, num, bundle
  <2>4. Grows /\ RegisterInv'
    BY <1>0, <2>1, <2>2 DEF Grows, RegisterInv
  <2>5. ASSUME NEW k \in Numbers, pending[k] # NoBundle PROVE StillHeld(k)
    <3>1. CASE k = num
      <4>1. pending[k].inv \in Invoice /\ pending[k].inv # "none"
        BY <2>5, IngestionAssumption DEF HandlingInv, ShapeInv
      <4>2. pending'[k] = bundle
        BY <2>1, <2>3, <3>1 DEF HandlingInv, ShapeInv
      <4> QED
        BY <2>1, <2>3, <3>1, <4>1, <4>2 DEF StillHeld
    <3>2. CASE k # num
      BY <2>1, <2>5, <3>2 DEF HandlingInv, ShapeInv, StillHeld
    <3> QED
      BY <3>1, <3>2
  <2>6. Spares(w)
    BY <2>1, <2>2, <2>3, <2>4, <2>5 DEF Spares, HandlingInv, ShapeInv
  <2>7. HandledAfter(i)
    BY <2>1 DEF HandledAfter
  <2> QED
    BY <2>1, <2>2, <2>4, <2>6, <2>7, NextOne
<1>5. CASE Register(w)
  <2>1. /\ UNCHANGED <<lock, decided, done, pending, parked, displaced>>
        /\ at[w] = "register" /\ Mark(w) /\ NextDocument(w)
    BY <1>5 DEF Register, approvalVars
  <2>2. /\ job[w].kind = "file" /\ Document(w) \in Pdf
        /\ InvoiceOf[Document(w)] \in decided
    BY <1>0, <2>1 DEF WorkerInv, FileOf, OnInvoice
  <2>3. Spares(w) /\ RegisterInv' /\ HandledAfter(InvoiceOf[Document(w)])
    BY <2>1, <2>2, Marked
  <2> QED
    BY <1>0, <2>1, <2>2, <2>3, NextOne
<1> QED
  BY <1>1, <1>2, <1>3, <1>4, <1>5

\* Asking for a lease, and giving it back.
LEMMA LeaseSteps ==
  ASSUME HandlingInv, NEW w \in Worker,
         AcquireLease(w) \/ ReleaseLease(w) \/ Crash(w)
  PROVE  HandlingInv'
<1>0. /\ WorkerInv(w) /\ job[w] \in JobRec
      /\ at[w] = "lease" => job[w].kind \in {"file"} \cup Slack
      /\ at[w] = "release" => job[w].kind \in {"file"} \cup Slack
      /\ lock \in [File \cup Numbers -> Worker \cup {Free, Orphaned}]
      /\ RegisterInv
  BY KindAt DEF HandlingInv, ShapeInv
<1>1. Free \notin Worker /\ Orphaned \notin Worker
  BY IngestionAssumption DEF Free, Orphaned
<1>2. UNCHANGED <<pending, parked, displaced, keys, hashes, uploaded,
               decided, done>>
  BY DEF AcquireLease, ReleaseLease, Crash, Fault, approvalVars, recordVars, registerVars
<1>3. Grows /\ RegisterInv'
  BY <1>0, <1>2 DEF Grows, RegisterInv
<1>4. CASE ReleaseLease(w)
  <2>1. Finish(w) /\ lock' = [lock EXCEPT ![job[w].on] = IF @ = w THEN Free ELSE @]
    BY <1>4 DEF ReleaseLease
  <2>2. /\ lock' \in [File \cup Numbers -> Worker \cup {Free, Orphaned}]
        /\ \A x \in File \cup Numbers : lock[x] \in Worker \ {w} => lock'[x] = lock[x]
    BY <1>0, <2>1
  <2> QED
    BY <1>2, <1>3, <2>1, <2>2, Ended
<1>5. CASE Crash(w)
  <2>1. Finish(w) /\ lock' = [x \in DOMAIN lock |-> IF lock[x] = w THEN Orphaned ELSE lock[x]]
    BY <1>5 DEF Crash
  <2>2. /\ lock' \in [File \cup Numbers -> Worker \cup {Free, Orphaned}]
        /\ \A x \in File \cup Numbers : lock[x] \in Worker \ {w} => lock'[x] = lock[x]
    BY <1>0, <2>1
  <2> QED
    BY <1>2, <1>3, <2>1, <2>2, Ended
<1>6. CASE AcquireLease(w) /\ lock' = lock /\ Finish(w)
  BY <1>0, <1>2, <1>3, <1>6, Ended
<1>7. CASE AcquireLease(w) /\ lock[job[w].on] = Free /\ Enter(w)
  <2> DEFINE j == [job[w] EXCEPT !.pos = 1]
  <2>1. /\ at[w] = "lease" /\ job' = [job EXCEPT ![w] = j]
        /\ lock' = [lock EXCEPT ![job[w].on] = w]
    BY <1>7 DEF AcquireLease, Enter
  <2>2. /\ j \in JobRec /\ j.kind = job[w].kind /\ j.on = job[w].on
        /\ j.pos = 1 /\ j.doc = job[w].doc
    BY <1>0 DEF JobRec
  <2> HIDE DEF j
  <2>3. PICK label \in {"document", "bundle"} :
          /\ at' = [at EXCEPT ![w] = label]
          /\ label = "document" <=> job[w].kind = "file"
    BY <1>7 DEF Enter, Goto
  <2>4. at'[w] = label /\ job'[w] = j
    BY <2>1, <2>3 DEF HandlingInv, ShapeInv
  <2>5. job[w].on \in File \cup Numbers
    BY <1>0, <2>1 DEF WorkerInv, FileOf, Slack
  <2>6. /\ lock' \in [File \cup Numbers -> Worker \cup {Free, Orphaned}]
        /\ \A x \in File \cup Numbers : lock[x] \in Worker \ {w} => lock'[x] = lock[x]
        /\ lock'[job[w].on] = w
    BY <1>0, <1>1, <1>7, <2>1, <2>5
  <2>7. Spares(w)
    BY <1>2, <1>3, <2>6 DEF Spares, HandlingInv, ShapeInv, StillHeld
  <2>8. job[w].kind = "file" => FileOf(w)'
    <3>1. job[w].kind = "file" => job[w].on \in File /\ Docs[job[w].on] \in Seq(Pdf \cup Note)
      BY <1>0, IngestionAssumption DEF WorkerInv, FileOf
    <3> QED
      BY <2>2, <2>3, <2>4, <3>1 DEF FileOf, OnInvoice
  <2>9. WorkerInv(w)'
    BY <1>0, <2>1, <2>2, <2>3, <2>4, <2>6, <2>8
       DEF WorkerInv, Leased, LabelsOf, Slack, Approving
  <2>10. label \in Labels
    BY DEF Labels, Leasing
  <2> QED
    BY <1>2, <1>3, <2>1, <2>2, <2>3, <2>7, <2>9, <2>10, WorkerStep
<1> QED
  BY <1>4, <1>5, <1>6, <1>7 DEF AcquireLease

\* A request comes in.
LEMMA Incoming ==
  ASSUME HandlingInv, NEW w \in Worker, NEW label, NEW j \in JobRec,
         at' = [at EXCEPT ![w] = label], job' = [job EXCEPT ![w] = j],
         UNCHANGED <<lock, pending, parked, displaced, keys, hashes, uploaded,
               decided, done>>,
         \/ label = "putNote" /\ j.kind = "credit"
         \/ label = "lease" /\ j.kind = "file" /\ j.on \in File
         \/ label = "lease" /\ j.kind \in Slack /\ j.on \in Numbers
  PROVE  HandlingInv'
<1>1. at'[w] = label /\ job'[w] = j
  BY DEF HandlingInv, ShapeInv
<1>2. label \in LabelsOf(j.kind) /\ label \in Labels
  BY DEF LabelsOf, Slack, Labels
<1>3. WorkerInv(w)'
  BY <1>1, <1>2 DEF WorkerInv, FileOf, Leased, Slack, Approving, OnInvoice
<1>4. Spares(w) /\ RegisterInv'
  BY Unleased DEF Grows, HandlingInv, RegisterInv
<1> QED
  BY <1>2, <1>3, <1>4, WorkerStep

LEMMA RequestSteps ==
  ASSUME HandlingInv, NEW w \in Worker, Requests(w)
  PROVE  HandlingInv'
<1>1. ASSUME NEW f \in File, Receive(w, f) PROVE HandlingInv'
  <2> DEFINE j == [NoJob EXCEPT !.kind = "file", !.on = f]
  <2>1. j \in JobRec /\ j.kind = "file" /\ j.on = f
    BY NoJobShape DEF JobRec, Kinds
  <2> HIDE DEF j
  <2>2. /\ at' = [at EXCEPT ![w] = "lease"] /\ job' = [job EXCEPT ![w] = j]
        /\ UNCHANGED <<lock, pending, parked, displaced, keys, hashes, uploaded,
               decided, done>>
    BY <1>1 DEF Receive, Start, Goto, storeVars, journalVars, approvalVars, recordVars,
                registerVars, j
  <2> QED
    BY <2>1, <2>2, Incoming
<1>2. ASSUME NEW num \in Numbers, NEW kind \in Slack, PressButton(w, num, kind)
      PROVE  HandlingInv'
  <2> DEFINE j == [NoJob EXCEPT !.kind = kind, !.on = num]
  <2>1. j \in JobRec /\ j.kind = kind /\ j.on = num
    BY NoJobShape DEF JobRec, Kinds, Slack
  <2> HIDE DEF j
  <2>2. /\ at' = [at EXCEPT ![w] = "lease"] /\ job' = [job EXCEPT ![w] = j]
        /\ UNCHANGED <<lock, pending, parked, displaced, keys, hashes, uploaded,
               decided, done>>
    BY <1>2 DEF PressButton, Start, Goto, storeVars, journalVars, approvalVars,
                recordVars, registerVars, j
  <2> QED
    BY <2>1, <2>2, Incoming
<1>3. ASSUME NEW n \in Note, BeginUpload(w, n) PROVE HandlingInv'
  <2> DEFINE j == [NoJob EXCEPT !.kind = "credit", !.doc = n]
  <2>1. j \in JobRec /\ j.kind = "credit"
    BY NoJobShape DEF JobRec, Kinds
  <2> HIDE DEF j
  <2>2. /\ at' = [at EXCEPT ![w] = "putNote"] /\ job' = [job EXCEPT ![w] = j]
        /\ UNCHANGED <<lock, pending, parked, displaced, keys, hashes, uploaded,
               decided, done>>
    BY <1>3 DEF BeginUpload, Goto, storeVars, journalVars, approvalVars, recordVars,
                registerVars, j
  <2> QED
    BY <2>1, <2>2, Incoming
<1> QED
  BY <1>1, <1>2, <1>3 DEF Requests, Slack

\* The other steps.
LEMMA OtherSteps ==
  ASSUME HandlingInv, NEW w \in Worker, MarkDone(w) \/ DeletePending(w) \/ Raise(w)
  PROVE  HandlingInv'
<1>0. /\ WorkerInv(w) /\ job[w] \in JobRec /\ job = [job EXCEPT ![w] = job[w]]
      /\ at[w] = "document" => job[w].kind = "file"
      /\ at[w] = "drop" => job[w].kind \in Slack
      /\ RegisterInv /\ job[w].kind \in Kinds
  BY KindAt DEF HandlingInv, JobRec
<1>1. UNCHANGED <<keys, hashes, uploaded, decided, parked, displaced, lock>> /\ job' = job
  BY DEF MarkDone, DeletePending, Raise, Fault, approvalVars, recordVars, registerVars
<1>2. Grows /\ RegisterInv'
  BY <1>0, <1>1 DEF Grows, RegisterInv
<1>3. \A kind \in {"file"} \cup Slack : "release" \in LabelsOf(kind) /\ "release" \in Labels
  BY DEF LabelsOf, Slack, Labels, Leasing
<1>4. CASE MarkDone(w)
  <2>1. /\ at' = [at EXCEPT ![w] = "release"] /\ at[w] = "document" /\ pending' = pending
        /\ done' = done \cup {job[w].on}
    BY <1>4 DEF MarkDone, Goto, approvalVars
  <2>2. Spares(w)
    BY <1>1, <1>2, <2>1, Unleased
  <2> QED
    BY <1>0, <1>1, <1>2, <1>3, <1>4, <2>1, <2>2, Onward DEF OnInvoice
<1>5. CASE Raise(w)
  <2>1. /\ at' = [at EXCEPT ![w] = "release"] /\ at[w] \notin {"idle", "lease", "release"}
        /\ job[w].kind # "credit" /\ pending' = pending /\ done' = done
    BY <1>5 DEF Raise, Fault, Goto, approvalVars, recordVars
  <2>2. Spares(w)
    BY <1>1, <1>2, <2>1, Unleased
  <2>3. job[w].kind \in {"file"} \cup Slack
    BY <1>0, <2>1 DEF WorkerInv, LabelsOf, Kinds, Slack
  <2> QED
    BY <1>0, <1>1, <1>2, <1>3, <2>1, <2>2, <2>3, Onward DEF OnInvoice, Approving
<1>6. CASE DeletePending(w)
  <2>1. /\ at' = [at EXCEPT ![w] = "release"] /\ at[w] = "drop" /\ done' = done
        /\ pending' = [pending EXCEPT ![job[w].on] = NoBundle]
    BY <1>6 DEF DeletePending, Goto, recordVars
  <2>2. job[w].kind \in Slack /\ job[w].on \in Numbers /\ lock[job[w].on] = w
    BY <1>0, <2>1 DEF WorkerInv, Leased, Slack
  <2>3. Spares(w)
    BY <1>1, <1>2, <2>1, <2>2, Unleased
  <2> QED
    BY <1>0, <1>1, <1>2, <1>3, <2>1, <2>2, <2>3, Onward DEF OnInvoice, Approving, Slack
<1> QED
  BY <1>4, <1>5, <1>6

\* A bundle found is that of the invoice the approval goes on with.
LEMMA BundleStep ==
  ASSUME HandlingInv, NEW w \in Worker, ReadBundle(w)
  PROVE  HandlingInv'
<1>0. /\ WorkerInv(w) /\ job[w] \in JobRec /\ job = [job EXCEPT ![w] = job[w]]
      /\ at[w] = "bundle" /\ job[w].kind \in Slack /\ RegisterInv
  BY KindAt DEF HandlingInv, ReadBundle
<1>1. UNCHANGED <<lock, pending, parked, displaced, keys, hashes, uploaded,
                  decided, done>>
  BY DEF ReadBundle, storeVars, approvalVars, recordVars, registerVars
<1>2. Grows /\ RegisterInv' /\ Spares(w)
  BY <1>0, <1>1, Unleased DEF Grows, RegisterInv
<1>3. /\ job[w].on \in Numbers /\ lock[job[w].on] = w
  BY <1>0 DEF WorkerInv, Leased, Slack
<1>4. CASE job' = job /\ (Goto(w, "release") \/ (Goto(w, "drop") /\ job[w].kind = "reject"))
  <2>1. PICK label \in {"release", "drop"} :
          /\ at' = [at EXCEPT ![w] = label]
          /\ label = "drop" => job[w].kind = "reject"
    BY <1>4 DEF Goto
  <2>2. at'[w] = label /\ label \in Labels /\ label \in LabelsOf(job[w].kind)
    BY <1>0, <2>1 DEF HandlingInv, ShapeInv, Labels, Leasing, LabelsOf, Slack, Approving
  <2>3. WorkerInv(w)'
    BY <1>0, <1>1, <1>3, <1>4, <2>1, <2>2 DEF WorkerInv, Leased, Slack, Approving
  <2> QED
    BY <1>0, <1>1, <1>2, <1>4, <2>1, <2>2, <2>3, WorkerStep
<1>5. CASE /\ pending[job[w].on] # NoBundle /\ job[w].kind # "reject" /\ ApproveBundle(w)
  <2> DEFINE i == pending[job[w].on].inv
             j == [job[w] EXCEPT !.doc = i]
  <2>1. PICK label \in {"draw", "makeOut"} : at' = [at EXCEPT ![w] = label]
    BY <1>5 DEF ApproveBundle, Goto
  <2>2. i \in Invoice /\ job' = [job EXCEPT ![w] = j]
    BY <1>3, <1>5 DEF ApproveBundle, HandlingInv, ShapeInv
  <2> HIDE DEF i
  <2>3. j \in JobRec /\ j.kind = "approve" /\ j.on = job[w].on /\ j.doc = i
    BY <1>0, <1>5, <2>2 DEF JobRec, Slack
  <2> HIDE DEF j
  <2>4. at'[w] = label /\ job'[w] = j
    BY <2>1, <2>2 DEF HandlingInv, ShapeInv
  <2>5. label \in Labels /\ label \in LabelsOf("approve")
    BY DEF Labels, Leasing, LabelsOf, Approving
  <2>6. Held(w)'
    BY <1>1, <1>5, <2>2, <2>3, <2>4 DEF Held, i
  <2>7. WorkerInv(w)'
    BY <1>1, <1>3, <2>3, <2>4, <2>5, <2>6 DEF WorkerInv, Leased, Slack
  <2> QED
    BY <1>1, <1>2, <2>1, <2>2, <2>3, <2>5, <2>7, WorkerStep
<1> QED
  BY <1>4, <1>5 DEF ReadBundle

----------------------------------------------------------------------------
LEMMA HandlingStep ==
  ASSUME HandlingInv, [IngestionNext]_ingestionVars
  PROVE  HandlingInv'
<1>1. CASE IngestionNext
  <2>1. ASSUME NEW pdf \in Pdf, NEW marked \in SUBSET Invoice, UploadInvoice(pdf, marked)
        PROVE  HandlingInv'
    BY <2>1, UploadStep
  <2> QED
    BY <1>1, <2>1, QuietSteps, DocumentSteps, LeaseSteps, RequestSteps, OtherSteps,
       BundleStep, LapseStep, SeedStep DEF IngestionNext, FileStep, SlackStep
<1>2. CASE UNCHANGED ingestionVars
  BY <1>2 DEF ingestionVars, storeVars, journalVars, approvalVars, recordVars,
              registerVars, workerVars, HandlingInv, ShapeInv, RegisterInv, DoneInv,
              Handled, WorkerInv, FileOf, Leased, Held
<1> QED
  BY <1>1, <1>2

\* Who holds a lease, where each request may be and on what, and that whatever
\* is registered or answered for good was decided, parked or uploaded before.
THEOREM HandlingInvariant == IngestionSpec => []HandlingInv
<1>1. HandlingInv /\ [IngestionNext]_ingestionVars => HandlingInv'
  BY HandlingStep
<1> QED
  BY InitHandling, <1>1, PTL DEF IngestionSpec

\* A file is answered for good only when each of its invoices was decided and
\* registered, sent to approval, or registered by an upload before; whatever
\* uploads mark in the register, by content or under a key of their own.
THEOREM FilesHandled == IngestionSpec => []FileHandled
<1>1. HandlingInv => FileHandled
  BY DEF HandlingInv, RegisterInv, DoneInv, Handled, FileHandled
<1> QED
  BY HandlingInvariant, <1>1, PTL

\* An approval bills and pays only while its number is pending, and the very
\* invoice it pays, unless another of the same number was parked over it.
THEOREM ApprovalsHeld == IngestionSpec => ApprovalHeld
<1>1. HandlingInv /\ [IngestionNext]_ingestionVars =>
        [\A w \in Worker :
           at[w] \in {"bill", "pay", "drop"} /\ at'[w] # at[w] /\ job[w].kind = "approve"
             => LET num == job[w].on IN
                /\ pending[num] # NoBundle
                /\ pending[num].inv = job[w].doc \/ num \in displaced]_ingestionVars
  BY DEF HandlingInv, WorkerInv, Approving, Held
<1> QED
  BY <1>1, HandlingInvariant, PTL DEF IngestionSpec, ApprovalHeld

----------------------------------------------------------------------------
(* Netting.                                                                *)

Balances == [Note -> Int]
Partial == [net : Int, applied : Balances, left : Balances]

NothingTaken(payable, pool) == [net |-> payable, applied |-> EmptyPool, left |-> pool]

LEMMA SmallestFirst ==
  ASSUME NEW pool \in Pool, NEW notes \in SUBSET Note, notes # {}
  PROVE  /\ Smallest(pool, notes) \in notes
         /\ \A m \in notes : pool[Smallest(pool, notes)] <= pool[m]
<1> DEFINE N == {pool[n] : n \in notes}
<1>1. N \in SUBSET Nat /\ N # {}
  BY DEF Pool
<1> HIDE DEF N
<1>2. PICK least \in N : \A k \in N : least <= k
  BY <1>1, LeastNumber
<1>3. \E n \in notes : \A m \in notes : pool[n] <= pool[m]
  BY <1>2 DEF N
<1> QED
  BY <1>3 DEF Smallest

TakeType(pool) == \A n \in Note, acc \in Partial : Take(pool, n, acc) \in Partial

LEMMA TakeTyped == ASSUME NEW pool \in Pool PROVE TakeType(pool)
<1> SUFFICES ASSUME NEW n \in Note, NEW acc \in Partial
             PROVE  Take(pool, n, acc) \in Partial
  BY DEF TakeType
<1> DEFINE taken == Smaller(pool[n], acc.net)
<1>1. taken \in Int
  BY DEF Pool, Partial, Smaller
<1>2. acc.net - taken \in Int /\ acc.applied \in Balances /\ acc.left \in Balances
  BY <1>1 DEF Partial
<1>3. acc.left[n] - taken \in Int
  BY <1>1, <1>2 DEF Balances
<1> HIDE DEF taken
<1>4. [acc.applied EXCEPT ![n] = taken] \in Balances
  BY <1>1, <1>2 DEF Balances
<1>5. [acc.left EXCEPT ![n] = @ - taken] \in Balances
  BY <1>2, <1>3 DEF Balances
<1> QED
  BY <1>2, <1>4, <1>5 DEF Take, Partial, taken

\* What netting makes of some of the open notes, one taken after the others.
NettingRuns(run, payable, pool) ==
  /\ run \in [SUBSET Open(pool) -> Partial]
  /\ \A notes \in SUBSET Open(pool) :
       run[notes] =
         IF notes = {} THEN NothingTaken(payable, pool)
         ELSE Take(pool, Smallest(pool, notes), run[notes \ {Smallest(pool, notes)}])

LEMMA NettingRun ==
  ASSUME NEW payable \in Nat, NEW pool \in Pool
  PROVE  \E run : /\ NettingRuns(run, payable, pool)
                  /\ Netting(payable, pool) = run[Open(pool)]
<1> DEFINE S == Open(pool)
           pick == [T \in SUBSET S |-> Smallest(pool, T)]
           step == [n \in S |-> [acc \in Partial |-> Take(pool, n, acc)]]
           b == NothingTaken(payable, pool)
           Def(g, T) == IF T = {} THEN b
                        ELSE Take(pool, Smallest(pool, T), g[T \ {Smallest(pool, T)}])
<1>1. S \subseteq Note /\ IsFiniteSet(S)
  BY IngestionAssumption, FS_Subset DEF Open
<1>2. \A T \in SUBSET S : T # {} => Smallest(pool, T) \in T
  BY <1>1, SmallestFirst
<1>3. Picks(pick, S)
  BY <1>2 DEF Picks
<1>4. step \in [S -> [Partial -> Partial]]
  BY <1>1, TakeTyped DEF TakeType
<1>5. b \in Partial
  BY DEF NothingTaken, Partial, Balances, EmptyPool, Pool
<1> HIDE DEF S, b
<1>6. PICK g \in [SUBSET S -> Partial] : FoldsTo(g, S, b, pick, step)
  <2> DEFINE V == Partial
  <2>1. b \in V /\ step \in [S -> [V -> V]]
    BY <1>4, <1>5
  <2> HIDE DEF pick, step, V
  <2>2. \E g \in [SUBSET S -> V] : FoldsTo(g, S, b, pick, step)
    BY <1>1, <1>3, <2>1, FoldExists
  <2> QED
    BY <2>2 DEF V
<1>7. ASSUME NEW T \in SUBSET S PROVE g[T] = Def(g, T)
  <2>1. T # {} => Smallest(pool, T) \in S /\ g[T \ {Smallest(pool, T)}] \in Partial
    BY <1>2
  <2> QED
    BY <1>6, <2>1 DEF FoldsTo
<1>8. NettingRuns(g, payable, pool)
  BY <1>6, <1>7 DEF NettingRuns, S, b
<1>9. Netting(payable, pool) = g[S]
  <2> DEFINE Body(it) == [U \in SUBSET S |-> Def(it, U)]
             h == CHOOSE it : it = Body(it)
  <2>1. Netting(payable, pool) = h[S]
    BY DEF Netting, MapThenFoldSet, S, b, NothingTaken
  <2>2. g = Body(g)
    BY <1>6, <1>7
  <2>3. h = Body(h)
    BY <2>2
  <2> HIDE DEF h
  <2>4. \A U \in SUBSET S : h[U] = Def(h, U)
    BY <2>3
  <2> DEFINE F == {U \in SUBSET S : h[U] # g[U]}
  <2>5. F = {}
    <3>1. SUFFICES ASSUME F # {} PROVE FALSE
      OBVIOUS
    <3>2. F \in SUBSET SUBSET S
      OBVIOUS
    <3> HIDE DEF F
    <3>3. PICK U \in F : \A W \in F : ~(W \subseteq U /\ W # U)
      BY <1>1, <3>1, <3>2, SmallestSubset
    <3>4. U \in SUBSET S /\ h[U] # g[U]
      BY <3>2, <3>3 DEF F
    <3>5. U # {} => h[U \ {Smallest(pool, U)}] = g[U \ {Smallest(pool, U)}]
      BY <1>2, <3>2, <3>3, <3>4 DEF F
    <3> QED
      BY <1>7, <2>4, <3>4, <3>5
  <2> QED
    BY <2>1, <2>5
<1> QED
  BY <1>8, <1>9 DEF S

\* Credit neither appears nor vanishes: what a note loses the invoice is
\* relieved of.  Nothing stays payable while credit is open, and no smaller note
\* is drawn on while a larger one has any left.
Balanced(r, pool) ==
  /\ r.net \in Nat /\ r.applied \in Pool /\ r.left \in Pool
  /\ \A n \in Note : r.applied[n] + r.left[n] = pool[n]

Netted(r, notes, payable, pool) ==
  /\ Balanced(r, pool)
  /\ r.net + SumFunction(r.applied) = payable
  /\ \A n \in Note \ notes : r.applied[n] = 0
  /\ r.net > 0 => \A n \in notes : r.left[n] = 0
  /\ \A m \in notes, n \in notes :
       r.applied[n] > 0 /\ r.left[m] > 0 => pool[n] >= pool[m]

LEMMA TakeNets ==
  ASSUME NEW payable \in Nat, NEW pool \in Pool, NEW notes \in SUBSET Note,
         NEW n \in notes, \A m \in notes : pool[n] <= pool[m],
         NEW acc \in Partial, Netted(acc, notes \ {n}, payable, pool)
  PROVE  Netted(Take(pool, n, acc), notes, payable, pool)
<1> DEFINE taken == Smaller(pool[n], acc.net)
           r == Take(pool, n, acc)
<1>1. /\ acc.net \in Nat /\ acc.applied \in Pool /\ acc.left \in Pool
      /\ \A m \in Note : acc.applied[m] + acc.left[m] = pool[m]
      /\ acc.applied[n] = 0
  BY DEF Netted, Balanced
<1>2. n \in Note /\ pool[n] \in Nat /\ acc.left[n] = pool[n]
  BY <1>1 DEF Pool
<1>3. taken \in Nat /\ taken <= pool[n] /\ taken <= acc.net
      /\ (taken = pool[n] \/ taken = acc.net)
  BY <1>1, <1>2 DEF Smaller
<1>4. /\ r.net = acc.net - taken
      /\ r.applied = [acc.applied EXCEPT ![n] = taken]
      /\ r.left = [acc.left EXCEPT ![n] = @ - taken]
  BY DEF Take
<1> HIDE DEF r, taken
<1>5. /\ r.net \in Nat
      /\ r.applied \in Pool /\ r.applied[n] = taken
      /\ r.left \in Pool /\ r.left[n] = pool[n] - taken
      /\ \A m \in Note \ {n} : r.applied[m] = acc.applied[m] /\ r.left[m] = acc.left[m]
  <2>1. r.net \in Nat
    BY <1>1, <1>3, <1>4
  <2>2. r.applied \in Pool /\ r.applied[n] = taken
    BY <1>1, <1>2, <1>3, <1>4 DEF Pool
  <2>3. pool[n] - taken \in Nat
    BY <1>2, <1>3
  <2>4. r.left = [acc.left EXCEPT ![n] = pool[n] - taken]
    BY <1>2, <1>4
  <2>5. r.left \in Pool /\ r.left[n] = pool[n] - taken
    BY <1>1, <1>2, <2>3, <2>4 DEF Pool
  <2>6. \A m \in Note \ {n} : r.applied[m] = acc.applied[m] /\ r.left[m] = acc.left[m]
    BY <1>1, <1>4 DEF Pool
  <2> QED
    BY <2>1, <2>2, <2>5, <2>6
<1>6. ASSUME NEW m \in Note PROVE r.applied[m] + r.left[m] = pool[m]
  <2>1. CASE m = n
    BY <1>2, <1>3, <1>5, <2>1
  <2>2. CASE m # n
    BY <1>1, <1>5, <2>2
  <2> QED
    BY <2>1, <2>2
<1>7. r.net + SumFunction(r.applied) = payable
  <2>0. /\ r.applied \in [Note -> Nat] /\ acc.applied \in [Note -> Nat]
        /\ \A m \in Note \ {n} : r.applied[m] = acc.applied[m]
    BY <1>1, <1>5 DEF Pool
  <2>1. SumFunction(r.applied) = SumFunction(acc.applied) + r.applied[n] - acc.applied[n]
    <3> DEFINE f == acc.applied
               g == r.applied
    <3>1. /\ f \in [Note -> Nat] /\ g \in [Note -> Nat]
          /\ \A m \in Note \ {n} : g[m] = f[m]
          /\ n \in Note /\ IsFiniteSet(Note)
      BY <1>2, <2>0, IngestionAssumption
    <3> HIDE DEF f, g
    <3>2. SumFunction(g) = SumFunction(f) + g[n] - f[n]
      BY <3>1, CountChanges
    <3> QED
      BY <3>2 DEF f, g
  <2>2. SumFunction(acc.applied) \in Nat
    BY <2>0, CountSum, IngestionAssumption
  <2>3. acc.net + SumFunction(acc.applied) = payable
    BY DEF Netted
  <2> QED
    BY <1>1, <1>3, <1>4, <1>5, <2>1, <2>2, <2>3
<1>8. \A m \in Note \ notes : r.applied[m] = 0
  BY <1>5 DEF Netted
<1>9. ASSUME r.net > 0, NEW m \in notes PROVE r.left[m] = 0
  <2>1. acc.net > 0 /\ taken = pool[n]
    BY <1>1, <1>2, <1>3, <1>4, <1>9
  <2>2. CASE m = n
    BY <1>2, <1>5, <2>1, <2>2
  <2>3. CASE m # n
    BY <1>5, <2>1, <2>3 DEF Netted
  <2> QED
    BY <2>2, <2>3
<1>10. ASSUME NEW m \in notes, NEW k \in notes, r.applied[k] > 0, r.left[m] > 0
       PROVE  pool[k] >= pool[m]
  <2>0. pool[m] \in Nat /\ pool[k] \in Nat /\ pool[n] <= pool[k]
    BY DEF Pool
  <2>1. CASE m = n
    BY <2>0, <2>1
  <2>2. CASE m # n /\ k = n
    <3>1. taken > 0 /\ acc.net > 0
      BY <1>1, <1>3, <1>5, <1>10, <2>2
    <3>2. acc.left[m] = 0
      BY <2>2, <3>1 DEF Netted
    <3> QED
      BY <1>5, <1>10, <2>2, <3>2
  <2>3. CASE m # n /\ k # n
    BY <1>5, <1>10, <2>3 DEF Netted
  <2> QED
    BY <2>1, <2>2, <2>3
<1>11. Balanced(r, pool)
  BY <1>5, <1>6 DEF Balanced
<1>12. Netted(r, notes, payable, pool)
  BY <1>7, <1>8, <1>9, <1>10, <1>11 DEF Netted
<1> QED
  BY <1>12 DEF r

\* For every pool and every amount payable, netting draws on the credits what it
\* takes off the invoice, the largest first, and leaves nothing payable while
\* any credit is left.
THEOREM NettingExact ==
  ASSUME NEW payable \in Nat, NEW pool \in Pool
  PROVE  Netted(Netting(payable, pool), Note, payable, pool)
<1> DEFINE S == Open(pool)
<1>0. S \subseteq Note /\ IsFiniteSet(S) /\ \A n \in Note \ S : pool[n] = 0
  BY IngestionAssumption, FS_Subset DEF Open, Pool
<1>1. PICK run : NettingRuns(run, payable, pool) /\ Netting(payable, pool) = run[S]
  BY NettingRun
<1> HIDE DEF S
<1> DEFINE F == {notes \in SUBSET S : ~Netted(run[notes], notes, payable, pool)}
<1>2. F = {}
  <2>1. SUFFICES ASSUME F # {} PROVE FALSE
    OBVIOUS
  <2>2. F \in SUBSET SUBSET S
    OBVIOUS
  <2> HIDE DEF F
  <2>3. PICK notes \in F : \A U \in F : ~(U \subseteq notes /\ U # notes)
    BY <1>0, <2>1, <2>2, SmallestSubset
  <2>4. /\ notes \in SUBSET S /\ notes \in SUBSET Note
        /\ ~Netted(run[notes], notes, payable, pool)
    BY <1>0, <2>2, <2>3 DEF F
  <2>5. CASE notes = {}
    <3> DEFINE r == NothingTaken(payable, pool)
    <3>1. run[notes] = r
      BY <1>1, <2>4, <2>5 DEF NettingRuns, S
    <3>2. r.net = payable /\ r.applied = EmptyPool /\ r.left = pool
      BY DEF NothingTaken
    <3> HIDE DEF r
    <3>3. EmptyPool \in [Note -> Nat] /\ \A n \in Note : EmptyPool[n] = 0
      BY DEF EmptyPool
    <3>4. SumFunction(EmptyPool) = 0
      BY <3>3, CountNothing, IngestionAssumption
    <3>5. Balanced(r, pool)
      BY <3>2, <3>3 DEF Balanced, Pool
    <3>6. r.net + SumFunction(r.applied) = payable
      BY <3>2, <3>4
    <3>7. Netted(r, {}, payable, pool)
      BY <3>2, <3>3, <3>5, <3>6 DEF Netted
    <3> QED
      BY <2>4, <2>5, <3>1, <3>7
  <2>6. CASE notes # {}
    <3> DEFINE n == Smallest(pool, notes)
    <3>1. n \in notes /\ \A m \in notes : pool[n] <= pool[m]
      BY <2>4, <2>6, SmallestFirst
    <3> HIDE DEF n
    <3>2. notes \ {n} \in SUBSET S /\ run[notes \ {n}] \in Partial
      BY <1>1, <2>4 DEF NettingRuns, S
    <3>3. Netted(run[notes \ {n}], notes \ {n}, payable, pool)
      BY <2>3, <3>1, <3>2 DEF F
    <3>4. run[notes] = Take(pool, n, run[notes \ {n}])
      BY <1>1, <2>4, <2>6 DEF NettingRuns, S, n
    <3> QED
      BY <2>4, <3>1, <3>2, <3>3, <3>4, TakeNets
  <2> QED
    BY <2>5, <2>6
<1>3. Netted(run[S], S, payable, pool)
  BY <1>2
<1> DEFINE r == run[S]
<1>4. \A n \in Note \ S : r.applied[n] = 0 /\ r.left[n] = 0
  BY <1>0, <1>3 DEF Netted, Balanced, Pool
<1>5. Netted(r, Note, payable, pool)
  BY <1>0, <1>3, <1>4 DEF Netted
<1> QED
  BY <1>1, <1>5

----------------------------------------------------------------------------
(* The pool of credits, and what requests have read and made of it.        *)

Bundles == [inv : Invoice \cup {"none"}, pool : Pool]

Outcome == [net : Nat, applied : Pool, left : Pool]

\* What a request is about to draw and to leave is what it read.
DrawingOf(w) == at[w] = "draw" =>
  \A n \in Note : netting[w].applied[n] + netting[w].left[n] = seen[w][n]

CreditInv ==
  /\ credits \in Pool /\ issued \in Balances /\ drawn \in [Invoice -> Pool]
  /\ pending \in [Numbers -> Bundles]
  /\ seen \in [Worker -> Pool] /\ netting \in [Worker -> Outcome]
  /\ \A w \in Worker : DrawingOf(w)

LEMMA EmptyShapes == EmptyPool \in Pool /\ Untouched \in Outcome
BY DEF EmptyPool, Pool, Untouched, Outcome

LEMMA NettingOutcome ==
  ASSUME NEW payable \in Nat, NEW pool \in Pool
  PROVE  LET r == Netting(payable, pool) IN
         /\ r = [net |-> r.net, applied |-> r.applied, left |-> r.left]
         /\ r \in Outcome
         /\ \A n \in Note : r.applied[n] + r.left[n] = pool[n]
<1> DEFINE r == Netting(payable, pool)
<1>1. Balanced(r, pool)
  BY NettingExact DEF Netted
<1>2. r \in Partial
  <2>1. PICK run : NettingRuns(run, payable, pool) /\ r = run[Open(pool)]
    BY NettingRun
  <2> QED
    BY <2>1 DEF NettingRuns
<1> HIDE DEF r
<1>3. r = [net |-> r.net, applied |-> r.applied, left |-> r.left]
  BY <1>2 DEF Partial
<1>4. r \in Outcome /\ \A n \in Note : r.applied[n] + r.left[n] = pool[n]
  BY <1>1, <1>3 DEF Balanced, Outcome
<1> QED
  BY <1>3, <1>4 DEF r

LEMMA InitCredit == IngestionInit => CreditInv
<1> SUFFICES ASSUME IngestionInit PROVE CreditInv
  OBVIOUS
<1>1. /\ credits = EmptyPool /\ issued = EmptyPool
      /\ drawn = [i \in Invoice |-> EmptyPool]
      /\ pending = [num \in Numbers |-> NoBundle]
      /\ at = [w \in Worker |-> "idle"]
      /\ seen = [w \in Worker |-> EmptyPool] /\ netting = [w \in Worker |-> Untouched]
  BY DEF IngestionInit
<1>2. EmptyPool \in Balances
  BY DEF EmptyPool, Balances
<1>3. NoBundle \in Bundles
  BY EmptyShapes DEF NoBundle, Bundles
<1> QED
  BY <1>1, <1>2, <1>3, EmptyShapes DEF CreditInv, DrawingOf

\* The pool and the bundles after a step.
StoreShape ==
  /\ credits \in Pool /\ issued \in Balances /\ drawn \in [Invoice -> Pool]
  /\ pending \in [Numbers -> Bundles]

\* A step of one request, in what it has read and what it makes of it.
LEMMA CreditLocal ==
  ASSUME CreditInv, at \in [Worker -> Labels], StoreShape', NEW w \in Worker,
         NEW label, NEW pool \in Pool, NEW outcome \in Outcome,
         at' = [at EXCEPT ![w] = label],
         seen' = [seen EXCEPT ![w] = pool],
         netting' = [netting EXCEPT ![w] = outcome],
         label = "draw" =>
           \A n \in Note : outcome.applied[n] + outcome.left[n] = pool[n]
  PROVE  CreditInv'
<1>1. seen' \in [Worker -> Pool] /\ netting' \in [Worker -> Outcome]
  BY DEF CreditInv
<1>2. ASSUME NEW v \in Worker PROVE DrawingOf(v)'
  BY DEF CreditInv, DrawingOf
<1> QED
  BY <1>1, <1>2 DEF CreditInv, StoreShape

\* A step that forgets what it has read, or keeps it and does not go on to draw.
LEMMA CreditQuiet ==
  ASSUME CreditInv, at \in [Worker -> Labels], StoreShape', NEW w \in Worker,
         NEW label, label # "draw", at' = [at EXCEPT ![w] = label],
         \/ UNCHANGED <<seen, netting>>
         \/ Forget(w)
         \/ seen' = [seen EXCEPT ![w] = credits] /\ netting' = netting
         \/ /\ seen' = seen
            /\ netting' = [netting EXCEPT ![w] =
                 [Untouched EXCEPT !.net = netting[w].net]]
  PROVE  CreditInv'
<1>0. seen \in [Worker -> Pool] /\ netting \in [Worker -> Outcome] /\ credits \in Pool
  BY DEF CreditInv
<1>1. [Untouched EXCEPT !.net = netting[w].net] \in Outcome
  BY <1>0, EmptyShapes DEF Outcome
<1>2. seen = [seen EXCEPT ![w] = seen[w]] /\ netting = [netting EXCEPT ![w] = netting[w]]
  BY <1>0
<1>3. PICK pool \in Pool : seen' = [seen EXCEPT ![w] = pool]
  BY <1>0, <1>2, EmptyShapes DEF Forget
<1>4. PICK outcome \in Outcome : netting' = [netting EXCEPT ![w] = outcome]
  BY <1>0, <1>1, <1>2, EmptyShapes DEF Forget
<1> QED
  BY <1>3, <1>4, CreditLocal

\* Steps that leave the pool and the bundles alone.
LEMMA CreditRest ==
  ASSUME HandlingInv, CreditInv, NEW w \in Worker,
         \/ AcquireLease(w) \/ MarkDone(w) \/ ReadNotes(w) \/ CheckRegister(w)
         \/ ReadPool(w) \/ ReadBilled(w) \/ ReadJournal(w) \/ Post(w)
         \/ PersistDecision(w) \/ StagePayout(w) \/ ReleaseLease(w)
         \/ MakeOutApproved(w) \/ RecordBilled(w) \/ Requests(w) \/ Raise(w) \/ Crash(w)
  PROVE  CreditInv'
<1>0. at \in [Worker -> Labels] /\ StoreShape
  BY DEF HandlingInv, ShapeInv, CreditInv, StoreShape
<1>1. UNCHANGED <<creditVars, pending>>
  BY DEF AcquireLease, MarkDone, ReadNotes, CheckRegister, ReadPool, ReadBilled,
         ReadJournal, Post, PersistDecision, StagePayout, ReleaseLease, MakeOutApproved,
         RecordBilled, Requests, Receive, PressButton, BeginUpload, Raise, Crash, Fault,
         storeVars, journalVars, approvalVars, recordVars, registerVars
<1>2. StoreShape'
  BY <1>0, <1>1 DEF StoreShape, creditVars
<1>3. ASSUME NEW label, label # "draw", Goto(w, label),
             \/ UNCHANGED workVars \/ Forget(w)
             \/ seen' = [seen EXCEPT ![w] = credits] /\ netting' = netting
             \/ UNCHANGED <<seen, netting>>
      PROVE  CreditInv'
  BY <1>0, <1>2, <1>3, CreditQuiet DEF Goto, workVars
<1>4. CASE AcquireLease(w)
  BY <1>3, <1>4 DEF AcquireLease, Enter, Finish
<1>5. CASE MarkDone(w) \/ ReadBilled(w) \/ Post(w)
  BY <1>3, <1>5 DEF MarkDone, ReadBilled, Post, AfterJournal
<1>6. CASE ReadNotes(w) \/ ReadPool(w)
  BY <1>3, <1>6 DEF ReadNotes, ReadPool
<1>7. CASE CheckRegister(w)
  BY <1>3, <1>7 DEF CheckRegister, NextDocument, TakeUp
<1>8. CASE ReadJournal(w)
  BY <1>3, <1>8 DEF ReadJournal, AfterJournal
<1>9. CASE PersistDecision(w) \/ StagePayout(w) \/ RecordBilled(w)
  BY <1>3, <1>9 DEF PersistDecision, StagePayout, RecordBilled, ToPay, AfterPayment
<1>10. CASE ReleaseLease(w) \/ Crash(w)
  BY <1>3, <1>10 DEF ReleaseLease, Crash, Finish
<1>11. CASE MakeOutApproved(w) \/ Raise(w)
  BY <1>3, <1>11 DEF MakeOutApproved, Raise
<1>12. CASE Requests(w)
  BY <1>3, <1>12 DEF Requests, Receive, PressButton, BeginUpload, Start
<1> QED
  BY <1>4, <1>5, <1>6, <1>7, <1>8, <1>9, <1>10, <1>11, <1>12

\* The invoice a request is about, where it draws, parks or is registered.
LEMMA InvoiceAt ==
  ASSUME HandlingInv, NEW w \in Worker,
         at[w] \in OnInvoice
  PROVE  job[w].doc \in Invoice
<1>1. WorkerInv(w) /\ job[w] \in JobRec
  BY KindAt
<1>2. at[w] \in LabelsOf(job[w].kind) /\ job[w].kind \in Kinds
  BY <1>1 DEF WorkerInv, JobRec
<1>3. CASE job[w].kind = "file"
  BY <1>1, <1>3 DEF WorkerInv, FileOf
<1>4. CASE job[w].kind = "approve"
  <2>1. at[w] \in Approving
    BY <1>2, <1>4 DEF LabelsOf, OnInvoice
  <2> QED
    BY <1>1, <1>4, <2>1 DEF WorkerInv, Held
<1>5. job[w].kind \in {"file", "approve"}
  BY <1>2 DEF LabelsOf, Kinds, OnInvoice
<1> QED
  BY <1>3, <1>4, <1>5

LEMMA PutNoteCredit ==
  ASSUME HandlingInv, CreditInv, NEW w \in Worker, PutNote(w)
  PROVE  CreditInv'
<1> DEFINE n == job[w].doc
<1>0. /\ at \in [Worker -> Labels] /\ StoreShape /\ seen[w] \in Pool
      /\ Face \in [Note -> Nat \ {0}]
  BY IngestionAssumption DEF HandlingInv, ShapeInv, CreditInv, StoreShape
<1>1. /\ credits' = [seen[w] EXCEPT ![n] = Face[n]]
      /\ issued' = [issued EXCEPT ![n] = @ + Face[n] - credits[n]]
      /\ UNCHANGED <<drawn, pending>>
  BY DEF PutNote, approvalVars, recordVars, registerVars
<1>2. n \in Note => Face[n] \in Nat /\ credits[n] \in Nat /\ issued[n] \in Int
  BY <1>0 DEF StoreShape, Pool, Balances
<1> HIDE DEF n
<1>3. credits' \in Pool
  BY <1>0, <1>1, <1>2 DEF Pool
<1>4. issued' \in Balances
  <2>1. CASE n \in Note
    <3>1. issued[n] + Face[n] - credits[n] \in Int
      BY <1>2, <2>1
    <3> QED
      BY <1>0, <1>1, <3>1 DEF StoreShape, Balances
  <2>2. CASE n \notin Note
    BY <1>0, <1>1, <2>2 DEF StoreShape, Balances
  <2> QED
    BY <2>1, <2>2
<1>5. StoreShape'
  BY <1>0, <1>1, <1>3, <1>4 DEF StoreShape
<1>6. PICK label \in {"idle", "document"} : at' = [at EXCEPT ![w] = label] /\ Forget(w)
  BY DEF PutNote, NextDocument, Finish, Goto
<1> QED
  BY <1>0, <1>5, <1>6, CreditQuiet

LEMMA PipelineCredit ==
  ASSUME HandlingInv, CreditInv, NEW w \in Worker, ExecutePipeline(w)
  PROVE  CreditInv'
<1> DEFINE r == Netting(Payable[job[w].doc], seen[w])
<1>0. /\ at \in [Worker -> Labels] /\ StoreShape /\ seen \in [Worker -> Pool]
      /\ seen[w] \in Pool
  BY DEF HandlingInv, ShapeInv, CreditInv, StoreShape
<1>1. Payable[job[w].doc] \in Nat
  BY InvoiceAt, IngestionAssumption DEF ExecutePipeline, OnInvoice
<1>2. r \in Outcome /\ \A n \in Note : r.applied[n] + r.left[n] = seen[w][n]
  BY <1>0, <1>1, NettingOutcome
<1>3. netting' = [netting EXCEPT ![w] = r] /\ seen' = [seen EXCEPT ![w] = seen[w]]
  BY <1>0 DEF ExecutePipeline
<1> HIDE DEF r
<1>4. PICK label : at' = [at EXCEPT ![w] = label]
  BY DEF ExecutePipeline, Goto
<1>5. StoreShape'
  BY <1>0 DEF StoreShape, ExecutePipeline, creditVars, approvalVars, recordVars,
              registerVars
<1> QED
  BY <1>0, <1>2, <1>3, <1>4, <1>5, CreditLocal

LEMMA BundleCredit ==
  ASSUME HandlingInv, CreditInv, NEW w \in Worker, ReadBundle(w)
  PROVE  CreditInv'
<1>0. at \in [Worker -> Labels] /\ StoreShape
  BY DEF HandlingInv, ShapeInv, CreditInv, StoreShape
<1>1. job[w].on \in Numbers
  BY KindAt DEF ReadBundle, WorkerInv
<1>2. StoreShape'
  BY <1>0 DEF StoreShape, ReadBundle, storeVars, journalVars, creditVars, approvalVars,
              recordVars, registerVars
<1>3. CASE (Goto(w, "release") \/ Goto(w, "drop")) /\ UNCHANGED workVars
  BY <1>0, <1>2, <1>3, CreditQuiet DEF Goto, workVars
<1>4. CASE pending[job[w].on] # NoBundle /\ ApproveBundle(w)
  <2> DEFINE pool == pending[job[w].on].pool
             i == pending[job[w].on].inv
             r == Netting(Approvable[i], pool)
  <2>1. pool \in Pool
    BY <1>0, <1>1, <1>4 DEF StoreShape, Bundles
  <2>2. Approvable[i] \in Nat
    BY <1>1, <1>4, IngestionAssumption DEF HandlingInv, ShapeInv
  <2>3. r \in Outcome /\ \A n \in Note : r.applied[n] + r.left[n] = pool[n]
    BY <2>1, <2>2, NettingOutcome
  <2>4. netting' = [netting EXCEPT ![w] = r] /\ seen' = [seen EXCEPT ![w] = pool]
    BY <1>4 DEF ApproveBundle
  <2> HIDE DEF r, pool
  <2>5. PICK label : at' = [at EXCEPT ![w] = label]
    BY <1>4 DEF ApproveBundle, Goto
  <2> QED
    BY <1>0, <1>2, <2>1, <2>3, <2>4, <2>5, CreditLocal
<1> QED
  BY <1>3, <1>4 DEF ReadBundle

\* What the draw of an invoice makes of the pool and of what invoices drew.
DrawnBy(w, i) ==
  IF job[w].kind = "approve" THEN netting[w].applied
  ELSE [n \in Note |-> drawn[i][n] + netting[w].applied[n]]

LEMMA DrawTypes ==
  ASSUME HandlingInv, CreditInv, NEW w \in Worker, Draw(w)
  PROVE  LET i == job[w].doc IN
         /\ i \in Invoice /\ drawn[i] \in Pool /\ seen[w] \in Pool
         /\ netting[w].applied \in Pool /\ netting[w].left \in Pool
         /\ \A n \in Note : netting[w].applied[n] + netting[w].left[n] = seen[w][n]
         /\ DrawnBy(w, i) \in Pool
         /\ credits' = netting[w].left /\ drawn' = [drawn EXCEPT ![i] = DrawnBy(w, i)]
<1> DEFINE i == job[w].doc
<1>1. i \in Invoice /\ at[w] = "draw"
  BY InvoiceAt DEF Draw, OnInvoice
<1>2. /\ drawn[i] \in Pool /\ seen[w] \in Pool
      /\ netting[w].applied \in Pool /\ netting[w].left \in Pool
  BY <1>1 DEF CreditInv, Outcome
<1>3. \A n \in Note : netting[w].applied[n] + netting[w].left[n] = seen[w][n]
  BY <1>1 DEF CreditInv, DrawingOf
<1>4. DrawnBy(w, i) \in Pool
  BY <1>2 DEF DrawnBy, Pool
<1>5. credits' = netting[w].left
  BY DEF Draw
<1>6. drawn' = [drawn EXCEPT ![i] = DrawnBy(w, i)]
  BY DEF Draw, DrawnBy
<1> QED
  BY <1>1, <1>2, <1>3, <1>4, <1>5, <1>6

LEMMA DrawCredit ==
  ASSUME HandlingInv, CreditInv, NEW w \in Worker, Draw(w)
  PROVE  CreditInv'
<1>0. at \in [Worker -> Labels] /\ StoreShape
  BY DEF HandlingInv, ShapeInv, CreditInv, StoreShape
<1>1. /\ credits' \in Pool /\ drawn' \in [Invoice -> Pool]
  BY <1>0, DrawTypes DEF StoreShape
<1>2. StoreShape'
  BY <1>0, <1>1 DEF StoreShape, Draw, approvalVars, recordVars, registerVars
<1>3. PICK label \in {"makeOut", "readJournal", "park"} : at' = [at EXCEPT ![w] = label]
  BY DEF Draw, Goto
<1>4. /\ seen' = seen
      /\ netting' = [netting EXCEPT ![w] = [Untouched EXCEPT !.net = netting[w].net]]
  BY DEF Draw
<1> QED
  BY <1>0, <1>2, <1>3, <1>4, CreditQuiet

\* Steps that change bundles or the register only.
LEMMA RegisterCredit ==
  ASSUME HandlingInv, CreditInv, NEW w \in Worker,
         Park(w) \/ Register(w) \/ DeletePending(w)
  PROVE  CreditInv'
<1>0. at \in [Worker -> Labels] /\ StoreShape /\ seen[w] \in Pool
  BY DEF HandlingInv, ShapeInv, CreditInv, StoreShape
<1>1. /\ Park(w) => job[w].doc \in Invoice
      /\ DeletePending(w) => job[w].on \in Numbers
  BY KindAt, InvoiceAt DEF Park, DeletePending, OnInvoice, WorkerInv, FileOf
<1>2. UNCHANGED creditVars
  BY DEF Park, Register, DeletePending
<1>3. pending' \in [Numbers -> Bundles]
  <2>1. NoBundle \in Bundles
    BY EmptyShapes DEF NoBundle, Bundles
  <2>2. Park(w) => [inv |-> job[w].doc, pool |-> seen[w]] \in Bundles
    BY <1>0, <1>1 DEF Bundles
  <2> QED
    BY <1>0, <1>1, <2>1, <2>2 DEF Park, Register, DeletePending, StoreShape, approvalVars
<1>4. StoreShape'
  BY <1>0, <1>2, <1>3 DEF StoreShape, creditVars
<1>5. PICK label \in {"document", "release"} :
        at' = [at EXCEPT ![w] = label] /\ (UNCHANGED <<seen, netting>> \/ Forget(w))
  BY DEF Park, Register, DeletePending, NextDocument, Goto, workVars
<1> QED
  BY <1>0, <1>4, <1>5, CreditQuiet

LEMMA SeedCredit ==
  ASSUME CreditInv, NEW notes \in SUBSET Note, SeedCredits(notes)
  PROVE  CreditInv'
<1> DEFINE pool == [n \in Note |-> IF n \in notes THEN Face[n] ELSE 0]
<1>1. pool \in Pool
  BY IngestionAssumption DEF Pool
<1>2. credits' = pool /\ issued' = [n \in Note |-> issued[n] + pool[n] - credits[n]]
  BY DEF SeedCredits
<1> HIDE DEF pool
<1>3. issued' \in Balances
  <2>1. \A n \in Note : issued[n] + pool[n] - credits[n] \in Int
    BY <1>1 DEF CreditInv, Balances, Pool
  <2> QED
    BY <1>2, <2>1 DEF Balances
<1>4. UNCHANGED <<drawn, pending, at, seen, netting>>
  BY DEF SeedCredits, approvalVars, recordVars, registerVars, workerVars, workVars
<1> QED
  BY <1>1, <1>2, <1>3, <1>4 DEF CreditInv, DrawingOf

LEMMA CreditStep ==
  ASSUME HandlingInv, CreditInv, [IngestionNext]_ingestionVars
  PROVE  CreditInv'
<1>1. ASSUME NEW x \in File \cup Numbers, Lapse(x) PROVE CreditInv'
  BY <1>1 DEF Lapse, creditVars, approvalVars, recordVars, registerVars, workerVars,
              workVars, CreditInv, DrawingOf
<1>2. CASE UNCHANGED ingestionVars
  BY <1>2 DEF ingestionVars, storeVars, journalVars, creditVars, approvalVars,
              recordVars, registerVars, workerVars, workVars, CreditInv, DrawingOf
<1>3. ASSUME NEW w \in Worker, FileStep(w) PROVE CreditInv'
  BY <1>3, CreditRest, PutNoteCredit, PipelineCredit, DrawCredit, RegisterCredit
     DEF FileStep
<1>4. ASSUME NEW w \in Worker, SlackStep(w) PROVE CreditInv'
  BY <1>4, CreditRest, BundleCredit, RegisterCredit DEF SlackStep
<1>5. ASSUME NEW pdf \in Pdf, NEW marked, UploadInvoice(pdf, marked) PROVE CreditInv'
  BY <1>5 DEF UploadInvoice, creditVars, approvalVars, workerVars, workVars,
              CreditInv, DrawingOf
<1> QED
  BY <1>1, <1>2, <1>3, <1>4, <1>5, CreditRest, SeedCredit DEF IngestionNext

\* What each request read and drew is a pool, and no note is ever overdrawn.
THEOREM CreditInvariant == IngestionSpec => []CreditInv
<1>1. HandlingInv /\ CreditInv /\ [IngestionNext]_ingestionVars => CreditInv'
  BY CreditStep
<1> QED
  BY InitCredit, HandlingInvariant, <1>1, PTL DEF IngestionSpec

\* Documents and requests keep their shapes and no balance of a credit goes
\* below zero, whatever notes are netted in whatever order.
THEOREM IngestionTypes == IngestionSpec => []IngestionTypeOK
<1>1. HandlingInv /\ CreditInv => IngestionTypeOK
  BY DEF HandlingInv, ShapeInv, RegisterInv, CreditInv, IngestionTypeOK, Bundles, Outcome,
         Labels
<1> QED
  BY HandlingInvariant, CreditInvariant, <1>1, PTL

----------------------------------------------------------------------------
(* Credit is conserved.                                                    *)

\* A write of the pool that hid another is never forgotten.
LEMMA OverwrittenStays ==
  ASSUME [IngestionNext]_ingestionVars, overwritten PROVE overwritten'
<1>1. CASE UNCHANGED overwritten
  BY <1>1
<1>2. ASSUME NEW w \in Worker, FileStep(w) \/ SlackStep(w) PROVE overwritten'
  BY <1>2 DEF FileStep, SlackStep, AcquireLease, MarkDone, ReadNotes, PutNote,
              CheckRegister, ReadPool, ReadBilled, ExecutePipeline, Draw, Park,
              ReadJournal, Post, PersistDecision, StagePayout, Register, ReleaseLease,
              ReadBundle, MakeOutApproved, RecordBilled, DeletePending, storeVars,
              creditVars
<1>3. ASSUME NEW w \in Worker, Requests(w) \/ Raise(w) \/ Crash(w)
      PROVE  UNCHANGED overwritten
  BY <1>3 DEF Requests, Receive, PressButton, BeginUpload, Raise, Crash, Fault,
              storeVars, creditVars
<1> QED
  BY <1>1, <1>2, <1>3 DEF IngestionNext, SeedCredits, UploadInvoice, Lapse,
                          ingestionVars, storeVars, creditVars

\* Most steps leave the pool, and what was put in and drawn, as it is.
LEMMA PoolSteps ==
  ASSUME [IngestionNext]_ingestionVars
  PROVE  \/ UNCHANGED creditVars
         \/ \E w \in Worker : PutNote(w) \/ Draw(w)
         \/ \E notes \in SUBSET Note : SeedCredits(notes)
<1>1. ASSUME NEW w \in Worker, FileStep(w) \/ SlackStep(w)
      PROVE  UNCHANGED creditVars \/ PutNote(w) \/ Draw(w)
  BY <1>1 DEF FileStep, SlackStep, AcquireLease, MarkDone, ReadNotes,
              CheckRegister, ReadPool, ReadBilled, ExecutePipeline, Park, ReadJournal,
              Post, PersistDecision, StagePayout, Register, ReleaseLease, ReadBundle,
              MakeOutApproved, RecordBilled, DeletePending, storeVars, journalVars
<1>2. ASSUME NEW w \in Worker, Requests(w) \/ Raise(w) \/ Crash(w)
      PROVE  UNCHANGED creditVars
  BY <1>2 DEF Requests, Receive, PressButton, BeginUpload, Raise, Crash, Fault,
              storeVars, journalVars
<1> QED
  BY <1>1, <1>2 DEF IngestionNext, UploadInvoice, Lapse, ingestionVars, storeVars,
                    journalVars

\* One invoice's draws changed, the sum over all changes by as much.
LEMMA DrawnChanges ==
  ASSUME drawn \in [Invoice -> Pool], NEW i \in Invoice, NEW pool \in Pool,
         drawn' = [drawn EXCEPT ![i] = pool], NEW n \in Note
  PROVE  /\ DrawnOf(n)' = DrawnOf(n) + pool[n] - drawn[i][n]
         /\ DrawnOf(n) \in Nat /\ pool[n] \in Nat /\ drawn[i][n] \in Nat
<1> DEFINE f == [k \in Invoice |-> drawn[k][n]]
           g == [k \in Invoice |-> drawn'[k][n]]
<1>1. f \in [Invoice -> Nat] /\ g \in [Invoice -> Nat]
  BY DEF Pool
<1>2. /\ \A k \in Invoice \ {i} : g[k] = f[k]
      /\ g[i] = pool[n] /\ f[i] = drawn[i][n]
  OBVIOUS
<1>3. IsFiniteSet(Invoice)
  BY IngestionAssumption
<1>4. DrawnOf(n) = SumFunction(f) /\ DrawnOf(n)' = SumFunction(g)
  BY DEF DrawnOf
<1> HIDE DEF f, g
<1>5. SumFunction(g) = SumFunction(f) + g[i] - f[i]
  BY <1>1, <1>2, <1>3, CountChanges
<1>6. SumFunction(f) \in Nat
  BY <1>1, <1>3, CountSum
<1> QED
  BY <1>2, <1>4, <1>5, <1>6 DEF Pool

LEMMA DrawConserves ==
  ASSUME HandlingInv, CreditInv, CreditsConserved, NEW w \in Worker, Draw(w),
         ~overwritten'
  PROVE  CreditsConserved'
<1> DEFINE i == job[w].doc
<1>1. /\ i \in Invoice /\ drawn[i] \in Pool /\ seen[w] \in Pool
      /\ netting[w].applied \in Pool /\ netting[w].left \in Pool
      /\ \A n \in Note : netting[w].applied[n] + netting[w].left[n] = seen[w][n]
      /\ DrawnBy(w, i) \in Pool
      /\ credits' = netting[w].left /\ drawn' = [drawn EXCEPT ![i] = DrawnBy(w, i)]
  BY DrawTypes
<1>2. /\ ~overwritten /\ issued' = issued
      /\ credits = IF job[w].kind = "approve"
                   THEN [n \in Note |-> seen[w][n] - drawn[i][n]] ELSE seen[w]
  BY DEF Draw
<1> SUFFICES ASSUME NEW n \in Note
             PROVE  credits'[n] + DrawnOf(n)' = issued[n]
  BY <1>2 DEF CreditsConserved
<1>3. credits[n] + DrawnOf(n) = issued[n]
  BY <1>2 DEF CreditsConserved
<1>4. /\ DrawnOf(n)' = DrawnOf(n) + DrawnBy(w, i)[n] - drawn[i][n]
      /\ DrawnOf(n) \in Nat /\ drawn[i][n] \in Nat
  BY <1>1, DrawnChanges DEF CreditInv
<1>5. /\ seen[w][n] \in Nat /\ netting[w].applied[n] \in Nat /\ netting[w].left[n] \in Nat
      /\ netting[w].applied[n] + netting[w].left[n] = seen[w][n]
  BY <1>1 DEF Pool
<1>6. CASE job[w].kind = "approve"
  <2>1. DrawnBy(w, i)[n] = netting[w].applied[n] /\ credits[n] = seen[w][n] - drawn[i][n]
    BY <1>2, <1>6 DEF DrawnBy
  <2> QED
    BY <1>1, <1>3, <1>4, <1>5, <2>1
<1>7. CASE job[w].kind # "approve"
  <2>1. /\ DrawnBy(w, i)[n] = drawn[i][n] + netting[w].applied[n]
        /\ credits[n] = seen[w][n]
    BY <1>2, <1>7 DEF DrawnBy
  <2> QED
    BY <1>1, <1>3, <1>4, <1>5, <2>1
<1> QED
  BY <1>6, <1>7

LEMMA DrawnCounted ==
  ASSUME CreditInv, NEW n \in Note PROVE DrawnOf(n) \in Nat
<1> DEFINE f == [k \in Invoice |-> drawn[k][n]]
<1>1. f \in [Invoice -> Nat]
  BY DEF CreditInv, Pool
<1>2. DrawnOf(n) = SumFunction(f)
  BY DEF DrawnOf
<1> HIDE DEF f
<1> QED
  BY <1>1, <1>2, CountSum, IngestionAssumption

LEMMA PutNoteConserves ==
  ASSUME CreditInv, CreditsConserved, NEW w \in Worker, PutNote(w), ~overwritten'
  PROVE  CreditsConserved'
<1> DEFINE m == job[w].doc
<1>1. /\ ~overwritten /\ seen[w] = credits /\ drawn' = drawn
      /\ credits' = [credits EXCEPT ![m] = Face[m]]
      /\ issued' = [issued EXCEPT ![m] = @ + Face[m] - credits[m]]
  BY DEF PutNote
<1> HIDE DEF m
<1> SUFFICES ASSUME NEW n \in Note
             PROVE  credits'[n] + DrawnOf(n) = issued'[n]
  BY <1>1 DEF CreditsConserved, DrawnOf
<1>2. /\ credits[n] + DrawnOf(n) = issued[n]
      /\ credits[n] \in Nat /\ issued[n] \in Int /\ Face[n] \in Nat
  BY <1>1, IngestionAssumption DEF CreditsConserved, CreditInv, Pool, Balances
<1>3. DrawnOf(n) \in Int
  BY DrawnCounted
<1>4. CASE n = m
  <2>1. credits'[n] = Face[n] /\ issued'[n] = issued[n] + Face[n] - credits[n]
    BY <1>1, <1>4 DEF CreditInv, Pool, Balances
  <2> QED
    BY <1>2, <1>3, <2>1
<1>5. CASE n # m
  BY <1>1, <1>2, <1>5 DEF CreditInv, Pool, Balances
<1> QED
  BY <1>4, <1>5

LEMMA SeedConserves ==
  ASSUME CreditInv, CreditsConserved, NEW notes \in SUBSET Note, SeedCredits(notes)
  PROVE  CreditsConserved'
<1> DEFINE pool == [n \in Note |-> IF n \in notes THEN Face[n] ELSE 0]
<1>1. pool \in Pool
  BY IngestionAssumption DEF Pool
<1>2. /\ credits' = pool /\ issued' = [n \in Note |-> issued[n] + pool[n] - credits[n]]
      /\ UNCHANGED <<drawn, overwritten>>
  BY DEF SeedCredits
<1> HIDE DEF pool
<1> SUFFICES ASSUME ~overwritten, NEW n \in Note
             PROVE  pool[n] + DrawnOf(n) = issued[n] + pool[n] - credits[n]
  BY <1>2 DEF CreditsConserved, DrawnOf
<1>3. /\ credits[n] + DrawnOf(n) = issued[n]
      /\ credits[n] \in Nat /\ issued[n] \in Int /\ pool[n] \in Nat
  BY <1>1 DEF CreditsConserved, CreditInv, Pool, Balances
<1>4. DrawnOf(n) \in Int
  BY DrawnCounted
<1> QED
  BY <1>3, <1>4

LEMMA InitConserved == IngestionInit => CreditsConserved
<1> SUFFICES ASSUME IngestionInit, NEW n \in Note
             PROVE  credits[n] + DrawnOf(n) = issued[n]
  BY DEF CreditsConserved
<1> DEFINE f == [k \in Invoice |-> drawn[k][n]]
<1>1. credits[n] = 0 /\ issued[n] = 0 /\ \A k \in Invoice : f[k] = 0
  BY DEF IngestionInit, EmptyPool
<1>2. f \in [Invoice -> Nat] /\ DrawnOf(n) = SumFunction(f)
  BY <1>1 DEF DrawnOf
<1> HIDE DEF f
<1>3. SumFunction(f) = 0
  BY <1>1, <1>2, CountNothing, IngestionAssumption
<1> QED
  BY <1>1, <1>2, <1>3

\* What is left of each credit note and what invoices drew of it is what was
\* put in, for any number of invoices and notes, parked and approved on older
\* pools, redelivered, cut short and seeded anew, while no write hid another.
THEOREM CreditConserved == IngestionSpec => []CreditsConserved
<1>1. HandlingInv /\ CreditInv /\ CreditsConserved /\ [IngestionNext]_ingestionVars
        => CreditsConserved'
  <2> SUFFICES ASSUME HandlingInv, CreditInv, CreditsConserved,
                      [IngestionNext]_ingestionVars, ~overwritten'
               PROVE  CreditsConserved'
    BY DEF CreditsConserved
  <2>1. ~overwritten
    BY OverwrittenStays
  <2>2. CASE UNCHANGED creditVars
    BY <2>1, <2>2 DEF CreditsConserved, DrawnOf, creditVars
  <2> QED
    BY <2>2, PoolSteps, PutNoteConserves, DrawConserves, SeedConserves
<1> QED
  BY InitConserved, HandlingInvariant, CreditInvariant, <1>1, PTL DEF IngestionSpec

----------------------------------------------------------------------------
(* Payouts have their journals.                                            *)

JournalRec == [inv : Invoice \cup {"none"}, net : Nat]

\* A request that posts, or is bound to, has the number of its journal; past the
\* posting its journal is there, if there is anything to pay; and only what is
\* to be paid is.
BookOf(w) ==
  /\ \/ at[w] \in {"readJournal", "post", "decide", "bill", "pay"}
     \/ at[w] = "draw" /\ job[w].kind # "approve" /\ job[w].ready
     => second[w] \in 1 .. Len(journals)
  /\ at[w] \in {"decide", "bill", "pay"} /\ netting[w].net > 0 =>
       journals[second[w]] = Journal(w)
  /\ at[w] = "pay" => netting[w].net > 0

BookInv ==
  /\ journals \in Seq(JournalRec) /\ Len(journals) > 0
  /\ second \in [Worker -> Nat]
  /\ bank \subseteq JournalRec
  /\ ~collided =>
       /\ \A w \in Worker : BookOf(w)
       /\ \A p \in bank : p.net > 0 /\ \E s \in 1 .. Len(journals) : journals[s] = p

\* A journal that hid another is never forgotten.
LEMMA CollidedStays ==
  ASSUME [IngestionNext]_ingestionVars, collided PROVE collided'
<1>1. ASSUME NEW w \in Worker, FileStep(w) \/ SlackStep(w) PROVE collided'
  BY <1>1 DEF FileStep, SlackStep, AcquireLease, MarkDone, ReadNotes, PutNote,
              CheckRegister, ReadPool, ReadBilled, ExecutePipeline, MakeOut, Draw, Park,
              ReadJournal, Post, PersistDecision, StagePayout, Register, ReleaseLease,
              ReadBundle, MakeOutApproved, RecordBilled, DeletePending, storeVars,
              journalVars
<1>2. ASSUME NEW w \in Worker, Requests(w) \/ Raise(w) \/ Crash(w) PROVE collided'
  BY <1>2 DEF Requests, Receive, PressButton, BeginUpload, Raise, Crash, Fault, storeVars,
              journalVars
<1> QED
  BY <1>1, <1>2 DEF IngestionNext, SeedCredits, UploadInvoice, Lapse, ingestionVars,
                    storeVars, journalVars

\* Journals only come to the end, or where nothing was to be paid.
Kept == \A s \in 1 .. Len(journals) :
  journals'[s] = journals[s] \/ journals[s].net = 0

Others(w) == \A v \in Worker \ {w} :
  /\ at'[v] = at[v] /\ job'[v] = job[v]
  /\ netting'[v] = netting[v] /\ second'[v] = second[v]

LEMMA BookLocal ==
  ASSUME CreditInv, BookInv, NEW w \in Worker, Others(w),
         second' \in [Worker -> Nat],
         journals' \in Seq(JournalRec), Len(journals) <= Len(journals'),
         bank' \subseteq JournalRec,
         collided => collided',
         ~collided' =>
           /\ Kept /\ BookOf(w)'
           /\ \A p \in bank' \ bank :
                p.net > 0 /\ second[w] \in 1 .. Len(journals) /\ journals'[second[w]] = p
  PROVE  BookInv'
<1>1. Len(journals) \in Nat /\ Len(journals') \in Nat /\ Len(journals) > 0
  BY DEF BookInv
<1>2. ASSUME ~collided', NEW v \in Worker PROVE BookOf(v)'
  <2>1. CASE v = w
    BY <1>2, <2>1
  <2>2. CASE v # w
    <3>1. /\ at'[v] = at[v] /\ job'[v] = job[v]
          /\ netting'[v] = netting[v] /\ second'[v] = second[v] /\ second[v] \in Nat
          /\ Journal(v)' = Journal(v) /\ Journal(v).net = netting[v].net
          /\ netting[v].net \in Nat
      BY <2>2 DEF Others, BookInv, Journal, CreditInv, Outcome
    <3>2. BookOf(v) /\ Kept
      BY <1>2 DEF BookInv
    <3>3. at[v] \in {"decide", "bill", "pay"} /\ netting[v].net > 0 =>
            journals'[second[v]] = Journal(v)
      BY <3>1, <3>2 DEF BookOf, Kept
    <3>4. second[v] \in 1 .. Len(journals) => second[v] \in 1 .. Len(journals')
      BY <1>1
    <3> QED
      BY <3>1, <3>2, <3>3, <3>4 DEF BookOf
  <2> QED
    BY <2>1, <2>2
<1>3. ASSUME ~collided', NEW p \in bank'
      PROVE  p.net > 0 /\ \E s \in 1 .. Len(journals') : journals'[s] = p
  <2>1. CASE p \in bank
    <3>1. PICK s \in 1 .. Len(journals) : journals[s] = p
      BY <1>3, <2>1 DEF BookInv
    <3>2. p.net > 0 /\ p.net \in Nat
      BY <1>3, <2>1 DEF BookInv, JournalRec
    <3>3. journals'[s] = p
      BY <1>3, <3>1, <3>2 DEF Kept
    <3>4. s \in 1 .. Len(journals')
      BY <1>1
    <3> QED
      BY <3>2, <3>3, <3>4
  <2>2. CASE p \notin bank
    <3>1. p.net > 0 /\ second[w] \in 1 .. Len(journals) /\ journals'[second[w]] = p
      BY <1>3, <2>2
    <3>2. second[w] \in 1 .. Len(journals')
      BY <1>1, <3>1
    <3> QED
      BY <3>1, <3>2
  <2> QED
    BY <2>1, <2>2
<1>4. Len(journals') > 0
  BY <1>1
<1> QED
  BY <1>2, <1>3, <1>4 DEF BookInv

\* A step of a request is about that request.
LEMMA OthersRest ==
  ASSUME HandlingInv, CreditInv, BookInv, NEW w \in Worker,
         FileStep(w) \/ SlackStep(w) \/ Requests(w) \/ Raise(w) \/ Crash(w)
  PROVE  Others(w)
<1>0. /\ at \in [Worker -> Labels] /\ job \in [Worker -> JobRec]
      /\ netting \in [Worker -> Outcome] /\ second \in [Worker -> Nat]
  BY DEF HandlingInv, ShapeInv, CreditInv, BookInv
<1>1. ASSUME NEW label, Goto(w, label) PROVE \A v \in Worker \ {w} : at'[v] = at[v]
  BY <1>0, <1>1 DEF Goto
<1>2. ASSUME \/ job' = job \/ \E j : job' = [job EXCEPT ![w] = j]
             \/ \E d : job' = [job EXCEPT ![w].doc = d]
             \/ \E r : job' = [job EXCEPT ![w].ready = r]
             \/ \E n : job' = [job EXCEPT ![w].pos = n]
      PROVE  \A v \in Worker \ {w} : job'[v] = job[v]
  BY <1>0, <1>2
<1>3. ASSUME \/ netting' = netting \/ Forget(w)
             \/ \E r : netting' = [netting EXCEPT ![w] = r]
      PROVE  \A v \in Worker \ {w} : netting'[v] = netting[v]
  BY <1>0, <1>3 DEF Forget
<1>4. ASSUME second' = second \/ Forget(w) \/ MakeOut(w)
      PROVE  \A v \in Worker \ {w} : second'[v] = second[v]
  BY <1>0, <1>4 DEF Forget, MakeOut
<1>5. CASE AcquireLease(w) \/ ReleaseLease(w) \/ MarkDone(w)
  BY <1>1, <1>2, <1>3, <1>4, <1>5
     DEF AcquireLease, ReleaseLease, Enter, Finish, MarkDone, Others, workVars
<1>6. CASE ReadNotes(w) \/ PutNote(w) \/ CheckRegister(w) \/ Park(w) \/ Register(w)
  BY <1>1, <1>2, <1>3, <1>4, <1>6
     DEF ReadNotes, PutNote, CheckRegister, TakeUp, Park, Register, NextDocument,
         Finish, Others, workVars
<1>7. CASE ReadPool(w) \/ ReadBilled(w) \/ ExecutePipeline(w) \/ Draw(w)
  BY <1>1, <1>2, <1>3, <1>4, <1>7
     DEF ReadPool, ReadBilled, ExecutePipeline, Draw, Others, workVars
<1>8. CASE ReadJournal(w) \/ Post(w) \/ PersistDecision(w) \/ StagePayout(w)
  BY <1>1, <1>2, <1>3, <1>4, <1>8
     DEF ReadJournal, Post, PersistDecision, StagePayout, Others, workVars
<1>9. CASE SlackStep(w)
  BY <1>1, <1>2, <1>3, <1>4, <1>9
     DEF SlackStep, ReadBundle, ApproveBundle, MakeOutApproved, RecordBilled,
         DeletePending, Others, workVars
<1>10. CASE Requests(w) \/ Raise(w) \/ Crash(w)
  BY <1>1, <1>2, <1>3, <1>4, <1>10
     DEF Requests, Receive, PressButton, BeginUpload, Start, Raise, Crash, Finish, Others,
         workVars
<1> QED
  BY <1>5, <1>6, <1>7, <1>8, <1>9, <1>10 DEF FileStep

Steps(w) == FileStep(w) \/ SlackStep(w) \/ Requests(w) \/ Raise(w) \/ Crash(w)

LEMMA HiddenStays ==
  ASSUME NEW w \in Worker, Steps(w) PROVE collided => collided'
<1>1. IngestionNext
  BY DEF Steps, IngestionNext
<1> QED
  BY <1>1, CollidedStays

\* Steps that neither post nor pay.
LEMMA BookQuiet ==
  ASSUME HandlingInv, CreditInv, BookInv, NEW w \in Worker, Steps(w),
         UNCHANGED <<journals, bank>>, second' \in [Worker -> Nat],
         ~collided' => BookOf(w)'
  PROVE  BookInv'
<1>1. Others(w)
  BY OthersRest DEF Steps
<1>2. Kept /\ bank' \ bank = {} /\ Len(journals) <= Len(journals')
  <2>1. Len(journals) \in Nat
    BY DEF BookInv
  <2> QED
    BY <2>1 DEF Kept
<1>3. journals' \in Seq(JournalRec) /\ bank' \subseteq JournalRec
  BY DEF BookInv
<1> QED
  BY <1>1, <1>2, <1>3, HiddenStays, BookLocal

\* Where a journal of the request matters.
Posting == {"draw", "readJournal", "post", "decide", "bill", "pay"}

\* Steps that go elsewhere.
LEMMA BookAway ==
  ASSUME HandlingInv, CreditInv, BookInv, NEW w \in Worker, Steps(w),
         UNCHANGED <<journals, bank>>, second' = second \/ Forget(w),
         NEW label, label \notin Posting, Goto(w, label)
  PROVE  BookInv'
<1>1. second' \in [Worker -> Nat]
  BY DEF BookInv, Forget
<1>2. at'[w] = label
  BY DEF Goto, HandlingInv, ShapeInv
<1>3. BookOf(w)'
  BY <1>2 DEF BookOf, Posting
<1> QED
  BY <1>1, <1>3, BookQuiet

LEMMA BookRest ==
  ASSUME HandlingInv, CreditInv, BookInv, NEW w \in Worker,
         \/ AcquireLease(w) \/ MarkDone(w) \/ ReadNotes(w) \/ PutNote(w) \/ CheckRegister(w)
         \/ ReadPool(w) \/ ReadBilled(w) \/ Park(w) \/ Register(w) \/ ReleaseLease(w)
         \/ DeletePending(w) \/ Requests(w) \/ Raise(w) \/ Crash(w)
  PROVE  BookInv'
<1>0. Steps(w)
  BY DEF Steps, FileStep, SlackStep
<1>1. UNCHANGED <<journals, bank>>
  <2>1. CASE \/ AcquireLease(w) \/ MarkDone(w) \/ ReadNotes(w) \/ PutNote(w)
             \/ CheckRegister(w) \/ ReadPool(w) \/ ReadBilled(w)
    BY <2>1 DEF AcquireLease, MarkDone, ReadNotes, PutNote, CheckRegister, ReadPool,
                ReadBilled, storeVars, journalVars, recordVars, registerVars
  <2>2. CASE Park(w) \/ Register(w) \/ ReleaseLease(w) \/ DeletePending(w)
    BY <2>2 DEF Park, Register, ReleaseLease, DeletePending, journalVars, recordVars,
                registerVars
  <2>3. CASE Requests(w) \/ Raise(w) \/ Crash(w)
    BY <2>3 DEF Requests, Receive, PressButton, BeginUpload, Raise, Crash, Fault,
                storeVars, journalVars, recordVars, registerVars
  <2> QED
    BY <2>1, <2>2, <2>3
<1>2. ASSUME NEW label, label \notin Posting, Goto(w, label), second' = second \/ Forget(w)
      PROVE  BookInv'
  BY <1>0, <1>1, <1>2, BookAway
<1>3. CASE AcquireLease(w) \/ MarkDone(w) \/ ReleaseLease(w) \/ Crash(w)
  BY <1>2, <1>3 DEF AcquireLease, MarkDone, ReleaseLease, Crash, Enter, Finish, Posting,
                    workVars
<1>4. CASE ReadNotes(w) \/ PutNote(w) \/ CheckRegister(w) \/ Park(w) \/ Register(w)
  BY <1>2, <1>4 DEF ReadNotes, PutNote, CheckRegister, TakeUp, Park, Register,
                    NextDocument, Finish, Posting, workVars
<1>5. CASE ReadPool(w) \/ ReadBilled(w) \/ DeletePending(w) \/ Raise(w)
  BY <1>2, <1>5 DEF ReadPool, ReadBilled, DeletePending, Raise, Posting, workVars
<1>6. CASE Requests(w)
  BY <1>2, <1>6 DEF Requests, Receive, PressButton, BeginUpload, Start, Posting, workVars
<1> QED
  BY <1>3, <1>4, <1>5, <1>6

\* An approval draws before its journal is made out.
LEMMA BundleBook ==
  ASSUME HandlingInv, CreditInv, BookInv, NEW w \in Worker, ReadBundle(w)
  PROVE  BookInv'
<1>0. Steps(w) /\ UNCHANGED <<journals, bank, collided, second>>
  BY DEF Steps, SlackStep, ReadBundle, ApproveBundle, storeVars, journalVars,
         recordVars, registerVars, workVars
<1>a. job' = job \/ \E i \in {pending[job[w].on].inv} : job' = [job EXCEPT ![w].doc = i]
  BY DEF ReadBundle, ApproveBundle
<1>1. CASE \E label \in {"release", "drop", "makeOut"} : Goto(w, label)
  BY <1>0, <1>1, BookAway DEF Posting
<1>2. CASE Goto(w, "draw") /\ job[w].kind # "reject"
  <2>1. job[w].kind = "approve"
    BY <1>2, KindAt DEF ReadBundle, Slack
  <2>2. at'[w] = "draw" /\ job'[w].kind = job[w].kind
    <3>1. at'[w] = "draw"
      BY <1>2 DEF Goto, HandlingInv, ShapeInv
    <3>2. job \in [Worker -> JobRec]
      BY DEF HandlingInv, ShapeInv
    <3>3. ASSUME NEW i, job' = [job EXCEPT ![w].doc = i]
          PROVE  job'[w].kind = job[w].kind
      BY <3>2, <3>3 DEF JobRec
    <3> QED
      BY <1>a, <3>1, <3>3
  <2>3. BookOf(w)'
    BY <2>1, <2>2 DEF BookOf
  <2> QED
    BY <1>0, <2>3, BookQuiet DEF BookInv
<1> QED
  BY <1>1, <1>2 DEF ReadBundle, ApproveBundle

\* A journal made out has a number that exists.
LEMMA MadeOut ==
  ASSUME BookInv, NEW w \in Worker, MakeOut(w)
  PROVE  /\ journals' \in Seq(JournalRec) /\ Len(journals) <= Len(journals') /\ Kept
         /\ second' \in [Worker -> Nat] /\ second'[w] \in 1 .. Len(journals')
<1>1. /\ journals \in Seq(JournalRec) /\ Len(journals) \in Nat /\ Len(journals) > 0
      /\ second \in [Worker -> Nat] /\ second' = [second EXCEPT ![w] = Len(journals')]
  BY DEF BookInv, MakeOut
<1>2. CASE UNCHANGED journals
  BY <1>1, <1>2 DEF Kept
<1>3. CASE journals' = Append(journals, NoJournal)
  <2>1. NoJournal \in JournalRec
    BY DEF NoJournal, JournalRec
  <2>2. /\ journals' \in Seq(JournalRec) /\ Len(journals') = Len(journals) + 1
        /\ \A s \in 1 .. Len(journals) : journals'[s] = journals[s]
    BY <1>1, <1>3, <2>1
  <2> QED
    BY <1>1, <2>2 DEF Kept
<1> QED
  BY <1>2, <1>3 DEF MakeOut

LEMMA MakeOutBook ==
  ASSUME HandlingInv, CreditInv, BookInv, NEW w \in Worker, Steps(w), MakeOut(w),
         UNCHANGED <<bank, collided>>,
         NEW label \in {"draw", "readJournal"}, Goto(w, label)
  PROVE  BookInv'
<1>1. Others(w) /\ bank' \ bank = {} /\ bank' \subseteq JournalRec
  BY OthersRest DEF Steps, BookInv
<1>2. at'[w] = label
  BY DEF Goto, HandlingInv, ShapeInv
<1>3. BookOf(w)'
  BY <1>2, MadeOut DEF BookOf
<1> QED
  BY <1>1, <1>3, MadeOut, HiddenStays, BookLocal

LEMMA PipelineBook ==
  ASSUME HandlingInv, CreditInv, BookInv, NEW w \in Worker, ExecutePipeline(w)
  PROVE  BookInv'
<1>0. Steps(w) /\ UNCHANGED <<bank, collided>>
  <2>1. Steps(w) /\ UNCHANGED bank
    BY DEF Steps, FileStep, ExecutePipeline, recordVars
  <2>2. UNCHANGED collided
    BY DEF ExecutePipeline, MakeOut, journalVars
  <2> QED
    BY <2>1, <2>2
<1>1. PICK ready \in BOOLEAN :
        /\ job' = [job EXCEPT ![w].ready = ready]
        /\ IF ready THEN MakeOut(w) ELSE UNCHANGED <<journalVars, second, events>>
        /\ \/ Goto(w, "draw")
           \/ ready /\ Goto(w, "readJournal")
           \/ ~ready /\ Goto(w, "park")
  BY DEF ExecutePipeline
<1>2. CASE ready
  BY <1>0, <1>1, <1>2, MakeOutBook
<1>3. CASE ~ready /\ Goto(w, "park")
  BY <1>0, <1>1, <1>3, BookAway DEF Posting, journalVars
<1>4. CASE ~ready /\ Goto(w, "draw")
  <2>1. at'[w] = "draw" /\ job'[w].ready = FALSE
    BY <1>1, <1>4 DEF Goto, HandlingInv, ShapeInv, JobRec
  <2>2. BookOf(w)'
    BY <2>1 DEF BookOf
  <2> QED
    BY <1>0, <1>1, <1>4, <2>2, BookQuiet DEF BookInv, journalVars
<1> QED
  BY <1>1, <1>2, <1>3, <1>4

LEMMA ApprovedBook ==
  ASSUME HandlingInv, CreditInv, BookInv, NEW w \in Worker, MakeOutApproved(w)
  PROVE  BookInv'
<1>1. Steps(w) /\ MakeOut(w) /\ UNCHANGED bank /\ Goto(w, "readJournal")
  BY DEF Steps, SlackStep, MakeOutApproved, recordVars
<1>2. UNCHANGED collided
  BY <1>1 DEF MakeOut
<1> QED
  BY <1>1, <1>2, MakeOutBook

LEMMA DrawBook ==
  ASSUME HandlingInv, CreditInv, BookInv, NEW w \in Worker, Draw(w)
  PROVE  BookInv'
<1>0. Steps(w) /\ UNCHANGED <<journals, bank, job, second>> /\ at[w] = "draw"
  BY DEF Steps, FileStep, Draw, journalVars, recordVars, registerVars
<1>1. CASE Goto(w, "makeOut") \/ Goto(w, "park")
  BY <1>0, <1>1, BookAway DEF Posting
<1>2. CASE Goto(w, "readJournal") /\ job[w].kind # "approve" /\ job[w].ready
  <2>1. at'[w] = "readJournal"
    BY <1>2 DEF Goto, HandlingInv, ShapeInv
  <2>2. ~collided' => BookOf(w)'
    BY <1>0, <1>2, <2>1, HiddenStays DEF BookInv, BookOf
  <2> QED
    BY <1>0, <2>2, BookQuiet DEF BookInv
<1> QED
  BY <1>1, <1>2 DEF Draw

LEMMA ReadJournalBook ==
  ASSUME HandlingInv, CreditInv, BookInv, NEW w \in Worker, ReadJournal(w)
  PROVE  BookInv'
<1>0. /\ Steps(w) /\ at[w] = "readJournal"
      /\ UNCHANGED <<journals, bank, job, netting, second, collided>>
  BY DEF Steps, FileStep, ReadJournal, storeVars, journalVars, recordVars,
         registerVars, workVars
<1>1. CASE Goto(w, "release")
  BY <1>0, <1>1, BookAway DEF Posting
<1>2. CASE \/ Goto(w, "post")
           \/ /\ Goto(w, "decide") \/ Goto(w, "bill")
              /\ journals[second[w]] = Journal(w)
  <2>1. \/ at'[w] = "post"
        \/ at'[w] \in {"decide", "bill"} /\ journals[second[w]] = Journal(w)
    BY <1>2 DEF Goto, HandlingInv, ShapeInv
  <2>2. Journal(w)' = Journal(w)
    BY <1>0 DEF Journal
  <2>3. ~collided' => BookOf(w)'
    BY <1>0, <2>1, <2>2 DEF BookInv, BookOf
  <2> QED
    BY <1>0, <2>3, BookQuiet DEF BookInv
<1> QED
  BY <1>1, <1>2 DEF ReadJournal, AfterJournal

\* A journal posted hides another only if two were made out in one second.
LEMMA PostBook ==
  ASSUME HandlingInv, CreditInv, BookInv, NEW w \in Worker, Post(w)
  PROVE  BookInv'
<1>0. /\ Steps(w) /\ at[w] = "post" /\ UNCHANGED <<bank, job, netting, second>>
      /\ journals' = [journals EXCEPT ![second[w]] = Journal(w)]
      /\ collided' = (collided \/ journals[second[w]] # NoJournal)
  BY DEF Steps, FileStep, Post, journalVars, recordVars, registerVars, workVars
<1>1. Others(w) /\ job[w].doc \in Invoice
  BY <1>0, OthersRest, InvoiceAt DEF Steps, OnInvoice
<1>2. /\ Journal(w) \in JournalRec /\ Journal(w)' = Journal(w)
      /\ journals \in Seq(JournalRec)
  BY <1>0, <1>1 DEF Journal, JournalRec, CreditInv, Outcome, BookInv
<1>3. /\ journals' \in Seq(JournalRec) /\ Len(journals') = Len(journals)
      /\ \A s \in 1 .. Len(journals) :
           journals'[s] = IF s = second[w] THEN Journal(w) ELSE journals[s]
  <2>1. ASSUME NEW j \in JournalRec, NEW n, journals' = [journals EXCEPT ![n] = j]
        PROVE  /\ journals' \in Seq(JournalRec) /\ Len(journals') = Len(journals)
               /\ \A s \in 1 .. Len(journals) :
                    journals'[s] = IF s = n THEN j ELSE journals[s]
    <3>1. CASE n \in 1 .. Len(journals)
      BY <1>2, <2>1, <3>1, ExceptSeq
    <3>2. CASE n \notin 1 .. Len(journals)
      <4>1. journals \in [1 .. Len(journals) -> JournalRec]
        BY <1>2
      <4>2. journals' = journals
        BY <2>1, <3>2, <4>1
      <4> QED
        BY <1>2, <3>2, <4>2
    <3> QED
      BY <3>1, <3>2
  <2> DEFINE j == Journal(w)
             n == second[w]
  <2>2. j \in JournalRec /\ journals' = [journals EXCEPT ![n] = j]
    BY <1>0, <1>2
  <2> HIDE DEF j, n
  <2>3. /\ journals' \in Seq(JournalRec) /\ Len(journals') = Len(journals)
        /\ \A s \in 1 .. Len(journals) :
             journals'[s] = IF s = n THEN j ELSE journals[s]
    BY <2>1, <2>2
  <2> QED
    BY <2>3 DEF j, n
<1>4. Len(journals) \in Nat
  BY <1>2
<1>5. PICK label \in {"decide", "bill"} : at' = [at EXCEPT ![w] = label]
  BY DEF Post, Goto, AfterJournal
<1>6. at'[w] \in {"decide", "bill"}
  BY <1>5 DEF HandlingInv, ShapeInv
<1>7. ASSUME ~collided' PROVE Kept /\ BookOf(w)'
  <2>1. journals[second[w]] = NoJournal
    BY <1>0, <1>7
  <2>2. journals[second[w]].net = 0
    BY <2>1 DEF NoJournal
  <2>3. second[w] \in 1 .. Len(journals)
    BY <1>0, <1>7, HiddenStays DEF BookInv, BookOf
  <2>4. Kept
    BY <1>3, <2>2 DEF Kept
  <2>5. journals'[second'[w]] = Journal(w)' /\ second'[w] \in 1 .. Len(journals')
    BY <1>0, <1>2, <1>3, <2>3
  <2>6. BookOf(w)'
    BY <1>6, <2>5 DEF BookOf
  <2> QED
    BY <2>4, <2>6
<1>8. /\ second' \in [Worker -> Nat] /\ bank' \subseteq JournalRec
      /\ bank' \ bank = {}
  BY <1>0 DEF BookInv
<1> QED
  BY <1>0, <1>1, <1>3, <1>4, <1>7, <1>8, HiddenStays, BookLocal

\* On to the payment only if there is something to pay.
LEMMA ToPayBook ==
  ASSUME HandlingInv, CreditInv, BookInv, NEW w \in Worker,
         PersistDecision(w) \/ RecordBilled(w)
  PROVE  BookInv'
<1>0. /\ Steps(w) /\ at[w] \in {"decide", "bill"}
      /\ UNCHANGED <<journals, bank, job, netting, second, collided>>
  BY DEF Steps, FileStep, SlackStep, PersistDecision, RecordBilled, journalVars,
         recordVars, registerVars, workVars
<1>1. CASE Goto(w, "register") \/ Goto(w, "drop")
  BY <1>0, <1>1, BookAway DEF Posting
<1>2. CASE Goto(w, "pay") /\ netting[w].net > 0
  <2>1. at'[w] = "pay"
    BY <1>2 DEF Goto, HandlingInv, ShapeInv
  <2>2. Journal(w)' = Journal(w)
    BY <1>0 DEF Journal
  <2>3. ~collided' => BookOf(w)'
    BY <1>0, <1>2, <2>1, <2>2 DEF BookInv, BookOf
  <2> QED
    BY <1>0, <2>3, BookQuiet DEF BookInv
<1> QED
  BY <1>1, <1>2 DEF PersistDecision, RecordBilled, ToPay, AfterPayment

\* What is paid is what the journal of the request says.
LEMMA PayBook ==
  ASSUME HandlingInv, CreditInv, BookInv, NEW w \in Worker, StagePayout(w)
  PROVE  BookInv'
<1>0. /\ Steps(w) /\ at[w] = "pay"
      /\ UNCHANGED <<journals, job, netting, second, collided>>
      /\ bank' = bank \/ bank' = bank \cup {Journal(w)}
      /\ Goto(w, "register") \/ Goto(w, "drop")
  BY DEF Steps, FileStep, StagePayout, AfterPayment, journalVars, workVars
<1>1. Others(w) /\ job[w].doc \in Invoice
  BY <1>0, OthersRest, InvoiceAt DEF Steps, OnInvoice
<1>2. CASE bank' = bank
  BY <1>0, <1>2, BookAway DEF Posting
<1>3. CASE bank' = bank \cup {Journal(w)}
  <2>1. /\ Journal(w) \in JournalRec /\ Journal(w).net = netting[w].net
        /\ journals \in Seq(JournalRec) /\ Len(journals) \in Nat /\ Kept
    BY <1>0, <1>1 DEF Journal, JournalRec, CreditInv, Outcome, BookInv, Kept
  <2>2. ~collided => /\ netting[w].net > 0 /\ second[w] \in 1 .. Len(journals)
                        /\ journals[second[w]] = Journal(w)
    BY <1>0 DEF BookInv, BookOf
  <2>3. at'[w] \in {"register", "drop"}
    BY <1>0 DEF Goto, HandlingInv, ShapeInv
  <2>4. BookOf(w)'
    BY <2>3 DEF BookOf
  <2>5. bank' \subseteq JournalRec /\ second' \in [Worker -> Nat]
    BY <1>0, <1>3, <2>1 DEF BookInv
  <2> QED
    BY <1>0, <1>1, <1>3, <2>1, <2>2, <2>4, <2>5, BookLocal
<1> QED
  BY <1>0, <1>2, <1>3

LEMMA InitBook == IngestionInit => BookInv
<1> SUFFICES ASSUME IngestionInit PROVE BookInv
  OBVIOUS
<1>1. NoJournal \in JournalRec
  BY DEF NoJournal, JournalRec
<1>2. journals \in Seq(JournalRec) /\ Len(journals) > 0
  BY <1>1 DEF IngestionInit
<1>3. \A w \in Worker : BookOf(w)
  BY DEF IngestionInit, BookOf
<1>4. second \in [Worker -> Nat] /\ bank = {}
  BY DEF IngestionInit
<1> QED
  BY <1>2, <1>3, <1>4 DEF BookInv

LEMMA BookStep ==
  ASSUME HandlingInv, CreditInv, BookInv, [IngestionNext]_ingestionVars
  PROVE  BookInv'
<1>1. ASSUME UNCHANGED <<at, job, netting, second, journals, bank, collided>>
      PROVE  BookInv'
  BY <1>1 DEF BookInv, BookOf, Journal
<1>2. ASSUME NEW x \in File \cup Numbers, Lapse(x) PROVE BookInv'
  BY <1>1, <1>2 DEF Lapse, journalVars, recordVars, registerVars, workerVars, workVars
<1>3. ASSUME NEW notes \in SUBSET Note, SeedCredits(notes) PROVE BookInv'
  BY <1>1, <1>3 DEF SeedCredits, journalVars, recordVars, workerVars, workVars
<1>7. ASSUME NEW pdf, NEW marked, UploadInvoice(pdf, marked) PROVE BookInv'
  BY <1>1, <1>7 DEF UploadInvoice, journalVars, workerVars, workVars
<1>4. CASE UNCHANGED ingestionVars
  BY <1>1, <1>4 DEF ingestionVars, storeVars, journalVars, recordVars, registerVars,
                    workerVars, workVars
<1>5. ASSUME NEW w \in Worker, FileStep(w) PROVE BookInv'
  BY <1>5, BookRest, PipelineBook, DrawBook, ReadJournalBook, PostBook, ToPayBook, PayBook
     DEF FileStep
<1>6. ASSUME NEW w \in Worker, SlackStep(w) PROVE BookInv'
  BY <1>6, BookRest, BundleBook, ApprovedBook, ToPayBook DEF SlackStep
<1> QED
  BY <1>2, <1>3, <1>4, <1>5, <1>6, <1>7, BookRest DEF IngestionNext

\* Every request that may post has a journal number, and past the posting its
\* journal, while no two journals of one second slipped past the check.
THEOREM BookInvariant == IngestionSpec => []BookInv
<1> QED
  BY InitBook, HandlingInvariant, CreditInvariant, BookStep, PTL DEF IngestionSpec

\* An invoice is in the books.
Booked(i) == \E s \in 1 .. Len(journals) : journals[s].inv = i

\* A request about to record a decision has posted its journal, of whatever
\* amount, and what is on record was booked before.
DecisionInv ==
  /\ decided \subseteq Invoice
  /\ ~collided =>
       /\ \A w \in Worker : at[w] = "decide" => Booked(job[w].doc)
       /\ \A i \in decided : Booked(i)

\* An unhidden post takes the place of no other journal.
LEMMA BookedStays ==
  ASSUME HandlingInv, CreditInv, BookInv, [IngestionNext]_ingestionVars, ~collided',
         NEW i \in Invoice, Booked(i)
  PROVE  Booked(i)'
<1>1. PICK s \in 1 .. Len(journals) : journals[s].inv = i
  BY DEF Booked
<1>2. /\ journals \in Seq(JournalRec) /\ Len(journals) \in Nat
      /\ journals \in [1 .. Len(journals) -> JournalRec]
  BY DEF BookInv
<1>3. CASE UNCHANGED journals
  BY <1>3 DEF Booked
<1>4. CASE journals' = Append(journals, NoJournal)
  <2>1. journals'[s] = journals[s] /\ s \in 1 .. Len(journals')
    BY <1>2, <1>4
  <2> QED
    BY <1>1, <2>1 DEF Booked
<1>5. ASSUME NEW w \in Worker, Post(w) PROVE Booked(i)'
  <2>1. /\ journals' = [journals EXCEPT ![second[w]] = Journal(w)]
        /\ journals[second[w]] = NoJournal
    BY <1>5 DEF Post
  <2>2. s # second[w]
    BY <1>1, <2>1, IngestionAssumption DEF NoJournal
  <2>3. journals' \in [1 .. Len(journals) -> JournalRec]
    <3>1. Steps(w) /\ at[w] = "post" /\ ~collided
      BY <1>5, HiddenStays DEF Steps, FileStep, Post
    <3>2. job[w].doc \in Invoice /\ Journal(w) \in JournalRec
      BY <3>1, InvoiceAt DEF OnInvoice, Journal, JournalRec, CreditInv, Outcome
    <3> QED
      BY <1>2, <2>1, <3>2
  <2>4. journals'[s] = journals[s]
    BY <1>2, <2>1, <2>2
  <2>5. Len(journals') = Len(journals)
    BY <1>2, <2>1
  <2> QED
    BY <1>1, <2>4, <2>5 DEF Booked
<1>6. ASSUME NEW w \in Worker, ~Post(w),
             FileStep(w) \/ SlackStep(w) \/ Requests(w) \/ Raise(w) \/ Crash(w)
      PROVE  UNCHANGED journals \/ journals' = Append(journals, NoJournal)
  BY <1>6 DEF FileStep, SlackStep, AcquireLease, MarkDone, ReadNotes, PutNote,
              CheckRegister, ReadPool, ReadBilled, ExecutePipeline, MakeOut, Draw,
              Park, ReadJournal, PersistDecision, StagePayout, Register, ReleaseLease,
              ReadBundle, MakeOutApproved, RecordBilled, DeletePending, Requests,
              Receive, PressButton, BeginUpload, Raise, Crash, Fault, storeVars,
              journalVars
<1>7. ASSUME NEW w \in Worker,
             FileStep(w) \/ SlackStep(w) \/ Requests(w) \/ Raise(w) \/ Crash(w)
      PROVE  Booked(i)'
  BY <1>3, <1>4, <1>5, <1>6, <1>7
<1> QED
  BY <1>3, <1>7 DEF IngestionNext, SeedCredits, UploadInvoice, Lapse, ingestionVars,
                    storeVars, journalVars

\* A request is past posting only once its invoice is in the books.
LEMMA PostedBooked ==
  ASSUME HandlingInv, CreditInv, BookInv, ~collided', NEW w \in Worker,
         ReadJournal(w) \/ Post(w), at'[w] = "decide"
  PROVE  Booked(job[w].doc)'
<1>1. Steps(w) /\ at[w] \in {"readJournal", "post"} /\ UNCHANGED job
  BY DEF Steps, FileStep, ReadJournal, Post
<1>2. /\ second[w] \in 1 .. Len(journals) /\ Len(journals) \in Nat
      /\ journals \in [1 .. Len(journals) -> JournalRec]
  <2>1. ~collided
    BY <1>1, HiddenStays
  <2> QED
    BY <1>1, <2>1 DEF BookInv, BookOf
<1>3. CASE ReadJournal(w)
  <2>1. journals' = journals /\ journals[second[w]] = Journal(w)
    <3>1. at'[w] = IF journals[second[w]] = NoJournal THEN "post"
                   ELSE IF journals[second[w]] = Journal(w) THEN AfterJournal(w)
                   ELSE "release"
      BY <1>3 DEF ReadJournal, Goto, HandlingInv, ShapeInv
    <3> QED
      BY <1>3, <3>1 DEF ReadJournal, storeVars, journalVars
  <2> QED
    BY <1>1, <1>2, <2>1 DEF Booked, Journal
<1>4. CASE Post(w)
  <2>1. journals' = [journals EXCEPT ![second[w]] = Journal(w)]
    BY <1>4 DEF Post
  <2>2. journals'[second[w]] = Journal(w) /\ Len(journals') = Len(journals)
    BY <1>2, <2>1
  <2> QED
    BY <1>1, <1>2, <2>2 DEF Booked, Journal
<1> QED
  BY <1>3, <1>4

\* Only these lead to the recording of a decision.
LEMMA Decides ==
  ASSUME HandlingInv, NEW w \in Worker, Steps(w), at'[w] = "decide"
  PROVE  ReadJournal(w) \/ Post(w)
<1>0. \A label : Goto(w, label) => at'[w] = label
  BY DEF Goto, HandlingInv, ShapeInv
<1>1. CASE AcquireLease(w) \/ MarkDone(w) \/ ReleaseLease(w) \/ Crash(w)
  BY <1>0, <1>1 DEF AcquireLease, MarkDone, ReleaseLease, Crash, Enter, Finish
<1>2. CASE ReadNotes(w) \/ PutNote(w) \/ CheckRegister(w) \/ Park(w) \/ Register(w)
  BY <1>0, <1>2 DEF ReadNotes, PutNote, CheckRegister, TakeUp, Park, Register,
                    NextDocument, Finish
<1>3. CASE ReadPool(w) \/ ReadBilled(w) \/ DeletePending(w) \/ Raise(w)
  BY <1>0, <1>3 DEF ReadPool, ReadBilled, DeletePending, Raise
<1>4. CASE Requests(w)
  BY <1>0, <1>4 DEF Requests, Receive, PressButton, BeginUpload, Start
<1>5. CASE ExecutePipeline(w) \/ Draw(w) \/ ReadBundle(w) \/ MakeOutApproved(w)
  BY <1>0, <1>5 DEF ExecutePipeline, Draw, ReadBundle, ApproveBundle, MakeOutApproved
<1>6. CASE PersistDecision(w) \/ RecordBilled(w) \/ StagePayout(w)
  BY <1>0, <1>6 DEF PersistDecision, RecordBilled, StagePayout, ToPay, AfterPayment
<1> QED
  BY <1>1, <1>2, <1>3, <1>4, <1>5, <1>6 DEF Steps, FileStep, SlackStep

LEMMA DecidedSteps ==
  ASSUME NEW w \in Worker, Steps(w)
  PROVE  decided' = decided \/ PersistDecision(w)
<1>1. CASE FileStep(w)
  BY <1>1 DEF FileStep, AcquireLease, MarkDone, ReadNotes, PutNote, CheckRegister,
              ReadPool, ReadBilled, ExecutePipeline, Draw, Park, ReadJournal, Post,
              StagePayout, Register, ReleaseLease, storeVars, journalVars, recordVars,
              registerVars
<1>2. CASE SlackStep(w)
  BY <1>2 DEF SlackStep, ReadBundle, MakeOutApproved, RecordBilled, DeletePending,
              storeVars, journalVars, recordVars, registerVars
<1>3. CASE Requests(w) \/ Raise(w) \/ Crash(w)
  BY <1>3 DEF Requests, Receive, PressButton, BeginUpload, Raise, Crash, Fault,
              storeVars, journalVars, recordVars, registerVars
<1> QED
  BY <1>1, <1>2, <1>3 DEF Steps

LEMMA DecisionStep ==
  ASSUME HandlingInv, CreditInv, BookInv, DecisionInv, [IngestionNext]_ingestionVars
  PROVE  DecisionInv'
<1>1. \A i \in Invoice : ~collided' /\ Booked(i) => ~collided /\ Booked(i)'
  BY BookedStays, CollidedStays
<1>2. \A v \in Worker : at[v] = "decide" => job[v].doc \in Invoice
  BY InvoiceAt DEF OnInvoice
<1>3. CASE UNCHANGED <<at, job, decided>>
  BY <1>1, <1>2, <1>3, CollidedStays DEF DecisionInv
<1>4. ASSUME NEW w \in Worker, Steps(w) PROVE DecisionInv'
  <2>1. Others(w)
    BY <1>4, OthersRest DEF Steps
  <2>2. ASSUME ~collided', NEW v \in Worker, at'[v] = "decide"
        PROVE  Booked(job[v].doc)' /\ job'[v] = job[v]
    <3>1. CASE v # w
      <4>1. at[v] = "decide" /\ job'[v] = job[v] /\ ~collided
        BY <1>4, <2>1, <2>2, <3>1, HiddenStays DEF Others
      <4> QED
        BY <1>1, <1>2, <2>2, <4>1 DEF DecisionInv, Booked
    <3>2. CASE v = w
      <4>1. ReadJournal(w) \/ Post(w)
        BY <1>4, <2>2, <3>2, Decides
      <4> QED
        BY <2>2, <3>2, <4>1, PostedBooked DEF ReadJournal, Post
    <3> QED
      BY <3>1, <3>2
  <2>3. decided' \subseteq Invoice /\ (~collided' => \A i \in decided' : Booked(i)')
    <3>1. CASE decided' = decided
      BY <1>1, <1>4, <3>1, HiddenStays DEF DecisionInv
    <3>2. CASE PersistDecision(w)
      <4>1. at[w] = "decide" /\ decided' = decided \cup {job[w].doc}
        BY <3>2 DEF PersistDecision
      <4> QED
        BY <1>1, <1>2, <1>4, <4>1, HiddenStays DEF DecisionInv
    <3> QED
      BY <1>4, <3>1, <3>2, DecidedSteps
  <2> QED
    BY <2>2, <2>3 DEF DecisionInv, Booked
<1> QED
  BY <1>3, <1>4 DEF IngestionNext, Steps, SeedCredits, UploadInvoice, Lapse,
                    ingestionVars, storeVars, recordVars, workerVars

\* A request about to record a decision, like every decision recorded, has a
\* journal of its invoice, unless two journals shared a second.
THEOREM DecisionInvariant == IngestionSpec => []DecisionInv
<1>1. IngestionInit => DecisionInv
  BY DEF IngestionInit, DecisionInv
<1> QED
  BY <1>1, HandlingInvariant, CreditInvariant, BookInvariant, DecisionStep, PTL
     DEF IngestionSpec

\* No payout without a journal of the same invoice and amount, for any number
\* of deliveries and approvals, dying or raising anywhere in between, and no
\* decision record without a journal of its invoice, unless two journals
\* shared a second and slipped past the check.
THEOREM PayoutsBacked == IngestionSpec => []PayoutBacked
<1>1. BookInv /\ DecisionInv => PayoutBacked
  BY DEF BookInv, DecisionInv, Booked, PayoutBacked
<1> QED
  BY BookInvariant, DecisionInvariant, <1>1, PTL
=============================================================================
