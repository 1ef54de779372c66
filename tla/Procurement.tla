---------------------------- MODULE Procurement ----------------------------
(***************************************************************************)
(* Purchase orders and what invoices take of them: PoRegistry (orders and  *)
(* goods received, in the memory of each process), ThreeWayPOMatchingEngine*)
(* (an upload's lines against order, receipt and earlier invoices), and    *)
(* the reservations and consumption totals FirestoreStateStore keeps for   *)
(* all processes.                                                          *)
(*                                                                         *)
(* One order number and one receipt number are modelled: reservations of   *)
(* different orders touch different documents.  Other orders count where   *)
(* they stand in for this one: a process that does not know an order goes  *)
(* by the one it last registered for the vendor, or for VEND-ALPHA-01.     *)
(* Rates are the same in all of them.  A worker is a process: an           *)
(* upload evaluates its lines without giving way to other requests of its  *)
(* process, so a process has one call under way.                           *)
(***************************************************************************)
EXTENDS Integers, Sequences, FiniteSets, FiniteSetsExt, SequencesExt

CONSTANTS
  Worker,       \* worker processes
  Invoice,      \* invoice numbers
  Sku,          \* stock units of the order
  Rate,         \* the order's unit rate, in paise, by stock unit
  Request,      \* the lines invoices are uploaded with, a set of sequences
  Quantities,   \* quantities orders and receipts are made out for, by unit
  Rejected,     \* quantities rejected on receipt, by unit
  DefaultPo,    \* quantities of the catalogue's order for the vendor
  MaxCalls,     \* bound: evaluations, reservations and releases in all
  MaxChanges    \* bound: orders, amendments, receipts, returns and crashes

ASSUME ProcurementAssumption ==
  /\ MaxCalls \in Nat /\ MaxChanges \in Nat
  /\ DefaultPo \in [Sku -> Nat]
  /\ Quantities \subseteq [Sku -> Nat]
  /\ Invoice # {} /\ IsFiniteSet(Invoice) /\ IsFiniteSet(Worker)

VARIABLES
  registry,   \* PoRegistry._PO_BY_NUMBER: the order as each process knows it
  receipts,   \* PoRegistry.GRN_REGISTRY: the receipt, likewise
  fallback,   \* DEFAULT_PO_REGISTRY of each process: the order it goes by
              \* where it does not know this one
  poDoc,      \* the order in the store
  alloc,      \* procurement_allocations, by invoice
  poLedger,   \* po_consumption_ledger: units taken of the order
  grnLedger,  \* grn_consumption_ledger: units taken of the receipt
  at,         \* what each worker does next
  job,        \* the call it has under way
  ceiling,    \* history: the most the order was ever made out for
  disturbed,  \* history: a release lost or repeated an update of a ledger
  substituted, \* history: units were reserved by the limits of another order
  calls, changes

registryVars == <<registry, receipts, fallback, poDoc, ceiling>>
storeVars == <<alloc, poLedger, grnLedger, disturbed, substituted>>
workerVars == <<at, job>>
procurementVars == <<registryVars, storeVars, workerVars, calls, changes>>

None == [kind |-> "none"]
Larger(a, b) == IF a >= b THEN a ELSE b

PoEntry(quantities) ==
  [kind |-> "order", authorized |-> quantities, verified |-> quantities]

AcceptedOf(grn) ==
  [s \in Sku |-> Larger(0, grn.received[s] - grn.rejected[s] - grn.returned[s])]

NoAllocation == [state |-> "NONE", items |-> << >>, grn |-> FALSE]

Active(a) == a.state = "COMMITTED"

UnitsOf(items, s) == SumFunction([n \in DOMAIN items |->
  IF items[n].sku = s THEN items[n].quantity ELSE 0])

\* The schema of a line takes positive quantities only.
ASSUME RequestAssumption ==
  Request \subseteq Seq([sku : Sku, quantity : Nat \ {0}, price : Int])

\* A dictionary by stock unit keeps the last of several lines.
Listed(items, s) ==
  FoldSeq(LAMBDA line, n : IF line.sku = s THEN line.quantity ELSE n, 0, items)

SameItems(a, b) == \A s \in Sku : Listed(a, s) = Listed(b, s)

\* Up to 2 % over the rate, or up to 5 % when that is no more than 10 rupees.
RateOk(price, rate) ==
  LET diff == price - rate IN
  \/ rate <= 0 \/ diff <= 0
  \/ 100 * diff <= 2 * rate
  \/ diff <= 1000 /\ 100 * diff <= 5 * rate

RatesOk(items) == \A n \in 1 .. Len(items) :
  RateOk(items[n].price, Rate[items[n].sku])

----------------------------------------------------------------------------
Idle(w) == at[w] = "idle"
NoJob == [inv |-> CHOOSE i \in Invoice : TRUE, items |-> << >>, grn |-> FALSE,
          po |-> [s \in Sku |-> 0], verdict |-> "none"]

ProcurementInit ==
  /\ registry = [w \in Worker |-> None]
  /\ receipts = [w \in Worker |-> None]
  /\ fallback = [w \in Worker |-> PoEntry(DefaultPo)]
  /\ poDoc = None
  /\ alloc = [i \in Invoice |-> NoAllocation]
  /\ poLedger = [s \in Sku |-> 0]
  /\ grnLedger = [s \in Sku |-> 0]
  /\ at = [w \in Worker |-> "idle"]
  /\ job = [w \in Worker |-> NoJob]
  /\ ceiling = [s \in Sku |-> 0]
  /\ disturbed = FALSE /\ substituted = FALSE
  /\ calls = 0 /\ changes = 0

Change ==
  /\ changes < MaxChanges
  /\ changes' = changes + 1
  /\ UNCHANGED calls

Raise(quantities) ==
  ceiling' = [s \in Sku |-> Larger(ceiling[s], quantities[s])]

\* POST /purchase-orders; saving it may fail, which is only logged.  The order
\* becomes the vendor's fallback too, which the process now has no use for.
CreatePurchaseOrder(w, quantities, saved) ==
  /\ Idle(w)
  /\ Change
  /\ registry' = [registry EXCEPT ![w] = PoEntry(quantities)]
  /\ poDoc' = IF saved THEN PoEntry(quantities) ELSE poDoc
  /\ Raise(quantities)
  /\ UNCHANGED <<receipts, fallback, storeVars, workerVars>>

\* The same for another order of the vendor, or of VEND-ALPHA-01.
CreateOtherOrder(w, quantities) ==
  /\ Idle(w)
  /\ Change
  /\ fallback' = [fallback EXCEPT ![w] = PoEntry(quantities)]
  /\ UNCHANGED <<registry, receipts, poDoc, ceiling, storeVars, workerVars>>

\* The amendment replaces the verified quantities too, and is not saved; the
\* revisions it keeps are read by nobody.
AmendPurchaseOrder(w, quantities) ==
  /\ Idle(w)
  /\ registry[w] # None
  /\ Change
  /\ registry' = [registry EXCEPT ![w].authorized = quantities,
                                 ![w].verified = quantities]
  /\ Raise(quantities)
  /\ UNCHANGED <<receipts, fallback, poDoc, storeVars, workerVars>>

RecordGrnReceipt(w, received, rejected) ==
  /\ Idle(w)
  /\ Change
  /\ receipts' = [receipts EXCEPT ![w] =
       [kind |-> "receipt", received |-> received, rejected |-> rejected,
        returned |-> [s \in Sku |-> 0]]]
  /\ UNCHANGED <<registry, fallback, poDoc, ceiling, storeVars, workerVars>>

AdjustGrnReturns(w, s) ==
  /\ Idle(w)
  /\ receipts[w] # None
  /\ Change
  /\ receipts' = [receipts EXCEPT ![w].returned[s] = @ + 1]
  /\ UNCHANGED <<registry, fallback, poDoc, ceiling, storeVars, workerVars>>

----------------------------------------------------------------------------
\* An order is looked up in the process's own registry; only the warm-up of an
\* upload looks in the store as well, and takes a failed read for no order.
Resolved(w) == IF registry[w] # None THEN registry[w] ELSE poDoc

\* The order lines are judged by: without one of this number, another.
Limits(w) == IF registry[w] # None THEN registry[w] ELSE fallback[w]

\* A receipt the process does not know is replaced by the verified quantities.
GrnLimits(w) ==
  IF job[w].grn /\ receipts[w] # None THEN AcceptedOf(receipts[w])
  ELSE Limits(w).verified

Call(w) ==
  /\ Idle(w)
  /\ calls < MaxCalls
  /\ calls' = calls + 1
  /\ UNCHANGED changes

Goto(w, label) == at' = [at EXCEPT ![w] = label]

\* The call answers; what it worked on is gone.
Finish(w, verdict) ==
  /\ Goto(w, "done")
  /\ job' = [job EXCEPT ![w] = [NoJob EXCEPT !.verdict = verdict]]

\* An upload warms the registry and reads what the order already gave.
BeginEvaluation(w, i, items, grn) ==
  /\ Call(w)
  /\ \/ registry' = [registry EXCEPT ![w] = Resolved(w)]
     \/ UNCHANGED registry
  /\ job' = [job EXCEPT ![w] =
       [NoJob EXCEPT !.inv = i, !.items = items, !.grn = grn, !.po = poLedger]]
  /\ Goto(w, "evaluate")
  /\ UNCHANGED <<receipts, fallback, poDoc, ceiling, storeVars>>

\* It reads what the receipt already gave and judges rates and quantities.
WithinPrior(w, priorGrn) == \A s \in Sku :
  LET billed == UnitsOf(job[w].items, s) IN
  billed > 0 =>
    /\ job[w].po[s] + billed <= Limits(w).authorized[s]
    /\ (IF job[w].grn THEN priorGrn[s] ELSE 0) + billed <= GrnLimits(w)[s]

EvaluateLineItems(w) ==
  /\ at[w] = "evaluate"
  /\ IF RatesOk(job[w].items) /\ WithinPrior(w, grnLedger)
     THEN Goto(w, "allocate") /\ UNCHANGED job
     ELSE Finish(w, "exception")
  /\ UNCHANGED <<registryVars, storeVars, calls, changes>>

\* allocate_procurement reserves without evaluating.
BeginAllocation(w, i, items, grn) ==
  /\ Call(w)
  /\ job' = [job EXCEPT ![w] =
       [NoJob EXCEPT !.inv = i, !.items = items, !.grn = grn]]
  /\ Goto(w, "allocate")
  /\ UNCHANGED <<registryVars, storeVars>>

\* Slip: the quantities are judged by what the evaluation read.
Fits_Evaluated(w) == \A s \in Sku :
  LET billed == UnitsOf(job[w].items, s) IN
  billed > 0 => job[w].po[s] + billed <= Limits(w).authorized[s]

\* Slip: a reservation against a receipt is judged by the receipt alone.
Fits_Either(w) == \A s \in Sku :
  LET billed == UnitsOf(job[w].items, s)
      limit == IF job[w].grn THEN GrnLimits(w)[s] ELSE Limits(w).authorized[s]
  IN (IF job[w].grn THEN grnLedger[s] ELSE poLedger[s]) + billed <= limit

Fits(w) == \A s \in Sku :
  LET billed == UnitsOf(job[w].items, s) IN
  billed > 0 =>
    /\ poLedger[s] + billed <= Limits(w).authorized[s]
    /\ job[w].grn => grnLedger[s] + billed <= GrnLimits(w)[s]

Reserve(w) ==
  LET j == job[w] IN
  /\ alloc' = [alloc EXCEPT ![j.inv] =
       [state |-> "COMMITTED", items |-> j.items, grn |-> j.grn]]
  /\ poLedger' = [s \in Sku |-> poLedger[s] + UnitsOf(j.items, s)]
  /\ grnLedger' = [s \in Sku |->
       grnLedger[s] + (IF j.grn THEN UnitsOf(j.items, s) ELSE 0)]
  /\ substituted' = (substituted \/ registry[w] = None)
  /\ UNCHANGED disturbed

\* Slip: a retry reserves again.
AllocateProcurement_Again(w) ==
  /\ at[w] = "allocate"
  /\ IF Fits(w) THEN Reserve(w) /\ Finish(w, "compliant")
     ELSE Finish(w, "exception") /\ UNCHANGED storeVars
  /\ UNCHANGED <<registryVars, calls, changes>>

\* Slip: a reservation of any state answers a retry.
AllocateProcurement_AnyState(w) ==
  /\ at[w] = "allocate"
  /\ IF alloc[job[w].inv].state # "NONE"
     THEN /\ Finish(w, IF SameItems(alloc[job[w].inv].items, job[w].items)
                       THEN "compliant" ELSE "exception")
          /\ UNCHANGED storeVars
     ELSE IF Fits(w)
     THEN Reserve(w) /\ Finish(w, "compliant")
     ELSE Finish(w, "exception") /\ UNCHANGED storeVars
  /\ UNCHANGED <<registryVars, calls, changes>>

\* The transaction of atomic_allocate_procurement.  Its error, after or
\* instead of the commit, is answered as a refusal.
AllocateProcurement(w) ==
  /\ at[w] = "allocate"
  /\ IF Active(alloc[job[w].inv])
     THEN /\ Finish(w, IF SameItems(alloc[job[w].inv].items, job[w].items)
                       THEN "compliant" ELSE "exception")
          /\ UNCHANGED storeVars
     ELSE IF Fits(w)
     THEN Reserve(w) /\ \E v \in {"compliant", "exception"} : Finish(w, v)
     ELSE Finish(w, "exception") /\ UNCHANGED storeVars
  /\ UNCHANGED <<registryVars, calls, changes>>

AllocationError(w) ==
  /\ at[w] = "allocate"
  /\ Finish(w, "exception")
  /\ UNCHANGED <<registryVars, storeVars, calls, changes>>

Return(w) ==
  /\ at[w] = "done"
  /\ Goto(w, "idle")
  /\ job' = [job EXCEPT ![w] = NoJob]
  /\ UNCHANGED <<registryVars, storeVars, calls, changes>>

----------------------------------------------------------------------------
(* release_procurement_allocation: one query, then single writes.          *)

BeginRelease(w, i) ==
  /\ Call(w)
  /\ Active(alloc[i])
  /\ job' = [job EXCEPT ![w] =
       [NoJob EXCEPT !.inv = i, !.items = alloc[i].items, !.grn = alloc[i].grn]]
  /\ Goto(w, "mark")
  /\ UNCHANGED <<registryVars, storeVars>>

MarkReleased(w) ==
  LET j == job[w] IN
  /\ at[w] = "mark"
  /\ alloc' = [alloc EXCEPT ![j.inv].state = "RELEASED"]
  /\ disturbed' =
       (disturbed \/ alloc[j.inv] # [state |-> "COMMITTED", items |-> j.items,
                                     grn |-> j.grn])
  /\ Goto(w, "readPo")
  /\ UNCHANGED <<registryVars, poLedger, grnLedger, substituted, job, calls,
                 changes>>

ReadLedger(w, label, ledger, next) ==
  /\ at[w] = label
  /\ job' = [job EXCEPT ![w].po = ledger]
  /\ Goto(w, next)
  /\ UNCHANGED <<registryVars, storeVars, calls, changes>>

ReadPoLedger(w) == ReadLedger(w, "readPo", poLedger, "writePo")
ReadGrnLedger(w) == ReadLedger(w, "readGrn", grnLedger, "writeGrn")

\* Slip: nothing keeps a total from going below zero.
GivenBack_Unbounded(w) == [s \in Sku |->
  job[w].po[s] - UnitsOf(job[w].items, s)]

GivenBack(w) == [s \in Sku |->
  Larger(0, job[w].po[s] - UnitsOf(job[w].items, s))]

WritePoLedger(w) ==
  /\ at[w] = "writePo"
  /\ poLedger' = GivenBack(w)
  /\ disturbed' = (disturbed \/ poLedger # job[w].po)
  /\ Goto(w, IF job[w].grn THEN "readGrn" ELSE "done")
  /\ UNCHANGED <<registryVars, alloc, grnLedger, substituted, job, calls, changes>>

WriteGrnLedger(w) ==
  /\ at[w] = "writeGrn"
  /\ grnLedger' = GivenBack(w)
  /\ disturbed' = (disturbed \/ grnLedger # job[w].po)
  /\ Goto(w, "done")
  /\ UNCHANGED <<registryVars, alloc, poLedger, substituted, job, calls, changes>>

\* A process dies: its orders and receipts are gone, and so is the rest of
\* a release.
GivingPo == {"readPo", "writePo"}
GivingGrn == {"readGrn", "writeGrn"}

Crash(w) ==
  /\ Change
  /\ registry' = [registry EXCEPT ![w] = None]
  /\ receipts' = [receipts EXCEPT ![w] = None]
  /\ fallback' = [fallback EXCEPT ![w] = PoEntry(DefaultPo)]
  /\ disturbed' = (disturbed \/ at[w] \in GivingPo \cup GivingGrn)
  /\ Goto(w, "idle")
  /\ job' = [job EXCEPT ![w] = NoJob]
  /\ UNCHANGED <<poDoc, ceiling, alloc, poLedger, grnLedger, substituted>>

Orders(w) ==
  \/ \E q \in Quantities :
       \/ \E saved \in BOOLEAN : CreatePurchaseOrder(w, q, saved)
       \/ CreateOtherOrder(w, q)
       \/ AmendPurchaseOrder(w, q)
       \/ \E r \in Rejected : RecordGrnReceipt(w, q, r)
  \/ \E s \in Sku : AdjustGrnReturns(w, s)

Calls(w) == \E i \in Invoice :
  \/ BeginRelease(w, i)
  \/ \E items \in Request, grn \in BOOLEAN :
       BeginEvaluation(w, i, items, grn) \/ BeginAllocation(w, i, items, grn)

ProcurementStep(w) ==
  \/ EvaluateLineItems(w) \/ AllocateProcurement(w) \/ AllocationError(w)
  \/ MarkReleased(w) \/ ReadPoLedger(w) \/ WritePoLedger(w)
  \/ ReadGrnLedger(w) \/ WriteGrnLedger(w) \/ Return(w)

ProcurementNext == \E w \in Worker :
  Orders(w) \/ Calls(w) \/ ProcurementStep(w) \/ Crash(w)

ProcurementSpec == ProcurementInit /\ [][ProcurementNext]_procurementVars

----------------------------------------------------------------------------
Lines == {"idle", "evaluate", "allocate", "mark", "done"}
           \cup GivingPo \cup GivingGrn

\* Orders, reservations and totals have their shapes; totals never go
\* below zero, however releases race.
ProcurementTypeOK ==
  /\ \A w \in Worker :
       /\ registry[w] # None => registry[w].authorized \in [Sku -> Nat]
       /\ fallback[w].authorized \in [Sku -> Nat]
       /\ at[w] \in Lines
       /\ job[w].verdict \in {"none", "compliant", "exception"}
  /\ \A i \in Invoice : alloc[i].state \in {"NONE", "COMMITTED", "RELEASED"}
  /\ poLedger \in [Sku -> Nat] /\ grnLedger \in [Sku -> Nat]

\* What a reservation holds of the order and of the receipt, and what a release
\* under way has yet to give back of each.
Held(a, s) == IF Active(a) THEN UnitsOf(a.items, s) ELSE 0
HeldGrn(a, s) == IF a.grn THEN Held(a, s) ELSE 0

Owing(label, j, s) == IF label \in GivingPo THEN UnitsOf(j.items, s) ELSE 0
OwingGrn(label, j, s) ==
  IF label \in GivingPo \cup GivingGrn /\ j.grn THEN UnitsOf(j.items, s) ELSE 0

Taken(s) == SumFunction([i \in Invoice |-> Held(alloc[i], s)])
Received(s) == SumFunction([i \in Invoice |-> HeldGrn(alloc[i], s)])
Owed(s) == SumFunction([w \in Worker |-> Owing(at[w], job[w], s)])
OwedGrn(s) == SumFunction([w \in Worker |-> OwingGrn(at[w], job[w], s)])

\* The consumption total of an order is what its active reservations hold
\* and what releases under way have yet to give back, whatever allocations,
\* retries and amendments ran in between, unless a release lost an update.
LedgerExplained == ~disturbed => \A s \in Sku :
  /\ poLedger[s] = Taken(s) + Owed(s)
  /\ grnLedger[s] = Received(s) + OwedGrn(s)

\* While every reservation goes by this order, the active reservations of all
\* invoices together never take more than it was ever made out for, with stale
\* versions of it in some processes, unless a release lost an update.
NoOverAllocation == ~disturbed /\ ~substituted =>
  \A s \in Sku : Taken(s) <= ceiling[s]

\* While every reservation goes by this order, its total never passes the most
\* it was made out for, races of releases included.
LedgerBounded == ~substituted => \A s \in Sku : poLedger[s] <= ceiling[s]

\* An upload found compliant leaves with its lines reserved, also when its
\* evaluation read totals that others had changed by then.
CompliantIsReserved == [][\A w \in Worker :
  job[w].verdict = "none" /\ job'[w].verdict = "compliant" =>
    /\ Active(alloc'[job[w].inv])
    /\ SameItems(alloc'[job[w].inv].items, job[w].items)]_procurementVars
=============================================================================
