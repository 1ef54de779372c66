-------------------------- MODULE ProcurementProofs --------------------------
(***************************************************************************)
(* OrderInv is an invariant of Procurement for every number of processes,  *)
(* invoices and stock units; ProcurementTypeOK, LedgerBounded and          *)
(* CompliantIsReserved follow.  On it rests that the totals are the sums   *)
(* of what is reserved and owed: LedgerExplained and NoOverAllocation.     *)
(***************************************************************************)
EXTENDS Procurement, Folding, TLAPS

----------------------------------------------------------------------------
(* The invariant.                                                          *)

Quantity == [Sku -> Nat]

OrderRec == [kind : {"order"}, authorized : Quantity, verified : Quantity]

AllocRec == [state : {"NONE", "COMMITTED", "RELEASED"},
             items : Request \cup {<< >>}, grn : BOOLEAN]

JobRec == [inv : Invoice, items : Request \cup {<< >>}, grn : BOOLEAN,
           po : Quantity, verdict : {"none", "compliant", "exception"}]

ShapeInv ==
  /\ registry \in [Worker -> OrderRec \cup {None}]
  /\ fallback \in [Worker -> OrderRec]
  /\ poDoc \in OrderRec \cup {None}
  /\ alloc \in [Invoice -> AllocRec]
  /\ job \in [Worker -> JobRec]
  /\ at \in [Worker -> Lines]
  /\ poLedger \in Quantity /\ grnLedger \in Quantity /\ ceiling \in Quantity
  /\ substituted \in BOOLEAN

\* Lines are those of an upload wherever they count.
ItemsOf(w) == at[w] \notin {"idle", "done"} => job[w].items \in Request

ItemsInv ==
  /\ \A w \in Worker : ItemsOf(w)
  /\ \A i \in Invoice : Active(alloc[i]) => alloc[i].items \in Request

UpTo(quantities, limits) == \A s \in Sku : quantities[s] <= limits[s]

Within(order, limits) == order # None => UpTo(order.authorized, limits)

\* Every version of the order is within the ceiling; until units were reserved by
\* another order, so is the total, and a total a release is about to write back.
ReadOf(w) == at[w] = "writePo" /\ ~substituted => UpTo(job[w].po, ceiling)

BoundInv ==
  /\ \A w \in Worker : Within(registry[w], ceiling) /\ ReadOf(w)
  /\ Within(poDoc, ceiling)
  /\ ~substituted => UpTo(poLedger, ceiling)

OrderInv == ShapeInv /\ ItemsInv /\ BoundInv

----------------------------------------------------------------------------
(* Records.                                                                *)

\* Lines add up to a natural number of each unit.
LEMMA UnitsCounted ==
  ASSUME NEW items \in Request, NEW s \in Sku PROVE UnitsOf(items, s) \in Nat
<1> DEFINE f == [n \in DOMAIN items |->
             IF items[n].sku = s THEN items[n].quantity ELSE 0]
<1>1. items \in Seq([sku : Sku, quantity : Nat \ {0}, price : Int])
  BY RequestAssumption
<1>2. DOMAIN items = 1 .. Len(items) /\ Len(items) \in Nat
  BY <1>1
<1>3. IsFiniteSet(DOMAIN items)
  <2>1. IsFiniteSet(1 .. Len(items))
    BY <1>2, FS_Interval
  <2> QED
    BY <1>2, <2>1
<1>4. \A n \in DOMAIN items : items[n].quantity \in Nat
  <2> SUFFICES ASSUME NEW n \in DOMAIN items PROVE items[n].quantity \in Nat
    OBVIOUS
  <2> DEFINE L == [sku : Sku, quantity : Nat \ {0}, price : Int]
  <2>1. items \in Seq(L) /\ n \in 1 .. Len(items)
    BY <1>1, <1>2
  <2> HIDE DEF L
  <2>2. items[n] \in L
    BY <2>1
  <2> QED
    BY <2>2 DEF L
<1>5. f \in [DOMAIN items -> Nat]
  BY <1>4
<1> HIDE DEF f
<1>6. SumFunction(f) \in Nat
  <2> DEFINE S == DOMAIN items
  <2>1. IsFiniteSet(S) /\ f \in [S -> Nat]
    BY <1>3, <1>5
  <2> HIDE DEF S
  <2> QED
    BY <2>1, CountSum
<1> QED
  BY <1>6 DEF UnitsOf, f

LEMMA NoneShape == None \notin OrderRec
BY DEF None, OrderRec

LEMMA NoJobShape == NoJob \in JobRec /\ NoJob.verdict = "none"
<1>1. (CHOOSE i \in Invoice : TRUE) \in Invoice
  BY ProcurementAssumption
<1>2. [s \in Sku |-> 0] \in Quantity
  BY DEF Quantity
<1> QED
  BY <1>1, <1>2 DEF NoJob, JobRec

LEMMA OrderMade ==
  ASSUME NEW q \in Quantities
  PROVE  /\ PoEntry(q) \in OrderRec /\ PoEntry(q).authorized = q /\ q \in Quantity
BY ProcurementAssumption DEF PoEntry, OrderRec, Quantity

LEMMA DefaultMade == PoEntry(DefaultPo) \in OrderRec
BY ProcurementAssumption DEF PoEntry, OrderRec, Quantity

\* The order a process goes by is this one, within the ceiling, or the fallback.
LEMMA LimitsBounded ==
  ASSUME OrderInv, NEW w \in Worker
  PROVE  /\ Resolved(w) \in OrderRec \cup {None} /\ Within(Resolved(w), ceiling)
         /\ Limits(w) \in OrderRec
         /\ registry[w] # None => UpTo(Limits(w).authorized, ceiling)
<1>1. Resolved(w) \in OrderRec \cup {None} /\ Within(Resolved(w), ceiling)
  BY DEF Resolved, OrderInv, ShapeInv, BoundInv
<1>2. /\ registry[w] \in OrderRec \cup {None} /\ Within(registry[w], ceiling)
      /\ fallback[w] \in OrderRec
  BY DEF OrderInv, ShapeInv, BoundInv
<1> QED
  BY <1>1, <1>2 DEF Limits, Within

LEMMA InitOrder == ProcurementInit => OrderInv
<1> SUFFICES ASSUME ProcurementInit PROVE OrderInv
  OBVIOUS
<1>1. /\ registry = [w \in Worker |-> None] /\ poDoc = None
      /\ alloc = [i \in Invoice |-> NoAllocation]
      /\ job = [w \in Worker |-> NoJob] /\ at = [w \in Worker |-> "idle"]
      /\ poLedger = [s \in Sku |-> 0] /\ grnLedger = [s \in Sku |-> 0]
      /\ fallback = [w \in Worker |-> PoEntry(DefaultPo)]
      /\ ceiling = [s \in Sku |-> 0] /\ substituted = FALSE
  BY DEF ProcurementInit
<1>2. NoAllocation \in AllocRec /\ ~Active(NoAllocation)
  BY DEF NoAllocation, AllocRec, Active
<1>3. ShapeInv
  <2>1. PoEntry(DefaultPo) \in OrderRec
    BY DefaultMade
  <2> QED
    BY <1>1, <1>2, <2>1, NoJobShape DEF ShapeInv, Quantity, Lines
<1>4. ItemsInv
  BY <1>1, <1>2 DEF ItemsInv, ItemsOf
<1>5. BoundInv
  BY <1>1 DEF BoundInv, Within, ReadOf, UpTo
<1> QED
  BY <1>3, <1>4, <1>5 DEF OrderInv

----------------------------------------------------------------------------
(* Orders, receipts and crashes.                                           *)

LEMMA Raised ==
  ASSUME ShapeInv, NEW q \in Quantity, Raise(q)
  PROVE  /\ ceiling' \in Quantity /\ UpTo(q, ceiling')
         /\ \A limits \in Quantity : UpTo(limits, ceiling) => UpTo(limits, ceiling')
BY DEF Raise, Larger, Quantity, UpTo, ShapeInv

LEMMA OrdersStep ==
  ASSUME OrderInv, NEW w \in Worker, Orders(w)
  PROVE  OrderInv'
<1>0. ShapeInv /\ ItemsInv /\ BoundInv
  BY DEF OrderInv
<1>1. ASSUME NEW q \in Quantities, NEW saved \in BOOLEAN,
             CreatePurchaseOrder(w, q, saved)
      PROVE  OrderInv'
  <2>1. /\ registry' = [registry EXCEPT ![w] = PoEntry(q)]
        /\ poDoc' \in {poDoc, PoEntry(q)} /\ Raise(q)
        /\ UNCHANGED <<fallback, alloc, job, at, poLedger, grnLedger, substituted>>
    BY <1>1 DEF CreatePurchaseOrder, storeVars, workerVars
  <2>2. q \in Quantity /\ PoEntry(q) \in OrderRec /\ PoEntry(q).authorized = q
    BY OrderMade
  <2>3. /\ ceiling' \in Quantity /\ UpTo(q, ceiling')
        /\ \A limits \in Quantity : UpTo(limits, ceiling) => UpTo(limits, ceiling')
    BY <1>0, <2>1, <2>2, Raised
  <2>4. ShapeInv'
    BY <1>0, <2>1, <2>2, <2>3 DEF ShapeInv
  <2>5. ItemsInv'
    BY <1>0, <2>1 DEF ItemsInv, ItemsOf
  <2>6. BoundInv'
    BY <1>0, <2>1, <2>2, <2>3, ProcurementAssumption
       DEF BoundInv, ShapeInv, Within, ReadOf, OrderRec, JobRec, Quantity
  <2> QED
    BY <2>4, <2>5, <2>6 DEF OrderInv
<1>2. ASSUME NEW q \in Quantities, AmendPurchaseOrder(w, q) PROVE OrderInv'
  <2>1. /\ registry' = [registry EXCEPT ![w].authorized = q, ![w].verified = q]
        /\ registry[w] # None /\ Raise(q)
        /\ UNCHANGED <<fallback, poDoc, alloc, job, at, poLedger, grnLedger,
                       substituted>>
    BY <1>2 DEF AmendPurchaseOrder, storeVars, workerVars
  <2>2. q \in Quantity
    BY OrderMade
  <2>3. /\ ceiling' \in Quantity /\ UpTo(q, ceiling')
        /\ \A limits \in Quantity : UpTo(limits, ceiling) => UpTo(limits, ceiling')
    BY <1>0, <2>1, <2>2, Raised
  <2>4. /\ registry' \in [Worker -> OrderRec \cup {None}]
        /\ registry'[w].authorized = q
        /\ \A v \in Worker : v # w => registry'[v] = registry[v]
    BY <1>0, <2>1, <2>2 DEF ShapeInv, OrderRec
  <2>5. ShapeInv'
    BY <1>0, <2>1, <2>3, <2>4 DEF ShapeInv
  <2>6. ItemsInv'
    BY <1>0, <2>1 DEF ItemsInv, ItemsOf
  <2>7. BoundInv'
    BY <1>0, <2>1, <2>3, <2>4, ProcurementAssumption
       DEF BoundInv, ShapeInv, Within, ReadOf, OrderRec, JobRec, Quantity
  <2> QED
    BY <2>5, <2>6, <2>7 DEF OrderInv
<1>3. ASSUME UNCHANGED <<registry, poDoc, ceiling, storeVars, workerVars>>,
             fallback' \in [Worker -> OrderRec]
      PROVE  OrderInv'
  BY <1>0, <1>3 DEF OrderInv, ShapeInv, ItemsInv, ItemsOf, BoundInv, ReadOf,
                    storeVars, workerVars
<1>4. ASSUME NEW q \in Quantities, CreateOtherOrder(w, q) PROVE OrderInv'
  <2>1. PoEntry(q) \in OrderRec
    BY OrderMade
  <2>2. fallback' \in [Worker -> OrderRec]
    BY <1>0, <1>4, <2>1 DEF CreateOtherOrder, ShapeInv
  <2> QED
    BY <1>3, <1>4, <2>2 DEF CreateOtherOrder
<1>5. fallback \in [Worker -> OrderRec]
  BY <1>0 DEF ShapeInv
<1> QED
  BY <1>1, <1>2, <1>3, <1>4, <1>5 DEF Orders, RecordGrnReceipt, AdjustGrnReturns

LEMMA CrashStep ==
  ASSUME OrderInv, NEW w \in Worker, Crash(w)
  PROVE  OrderInv'
<1>1. /\ registry' = [registry EXCEPT ![w] = None]
      /\ at' = [at EXCEPT ![w] = "idle"] /\ job' = [job EXCEPT ![w] = NoJob]
      /\ fallback' = [fallback EXCEPT ![w] = PoEntry(DefaultPo)]
      /\ UNCHANGED <<poDoc, ceiling, alloc, poLedger, grnLedger, substituted>>
  BY DEF Crash, Goto
<1>2. ShapeInv'
  BY <1>1, NoJobShape, DefaultMade DEF OrderInv, ShapeInv, Lines
<1>3. ItemsInv'
  BY <1>1 DEF OrderInv, ShapeInv, ItemsInv, ItemsOf
<1>4. BoundInv'
  BY <1>1 DEF OrderInv, ShapeInv, BoundInv, ReadOf, Within
<1> QED
  BY <1>2, <1>3, <1>4 DEF OrderInv

----------------------------------------------------------------------------
(* Steps that leave orders and their ceiling alone.                        *)

\* What is left to show of a step that changes what w does, reservations and
\* totals only.
LEMMA LocalStep ==
  ASSUME OrderInv, NEW w \in Worker, NEW j \in JobRec, NEW label \in Lines,
         at' = [at EXCEPT ![w] = label], job' = [job EXCEPT ![w] = j],
         UNCHANGED <<fallback, poDoc, ceiling>>,
         substituted' \in BOOLEAN, substituted => substituted',
         registry' \in [Worker -> OrderRec \cup {None}],
         \A v \in Worker : Within(registry'[v], ceiling),
         alloc' \in [Invoice -> AllocRec],
         \A i \in Invoice : Active(alloc'[i]) => alloc'[i].items \in Request,
         poLedger' \in Quantity, grnLedger' \in Quantity,
         ~substituted' => UpTo(poLedger', ceiling),
         label \notin {"idle", "done"} => j.items \in Request,
         label = "writePo" /\ ~substituted' => UpTo(j.po, ceiling)
  PROVE  OrderInv'
<1>1. ShapeInv'
  BY DEF OrderInv, ShapeInv
<1>2. ItemsInv'
  BY DEF OrderInv, ShapeInv, ItemsInv, ItemsOf
<1>3. BoundInv'
  BY DEF OrderInv, ShapeInv, BoundInv, ReadOf
<1> QED
  BY <1>1, <1>2, <1>3 DEF OrderInv

\* It needs to say nothing of what it leaves alone.
LEMMA QuietStep ==
  ASSUME OrderInv, NEW w \in Worker, NEW j \in JobRec, NEW label \in Lines,
         at' = [at EXCEPT ![w] = label], job' = [job EXCEPT ![w] = j],
         UNCHANGED <<registryVars, alloc, poLedger, grnLedger, substituted>>,
         label \notin {"idle", "done"} => j.items \in Request,
         label = "writePo" /\ ~substituted' => UpTo(j.po, ceiling)
  PROVE  OrderInv'
<1>1. UNCHANGED <<fallback, poDoc, ceiling, registry, alloc, poLedger, grnLedger,
                  substituted>>
  BY DEF registryVars
<1>2. /\ registry' \in [Worker -> OrderRec \cup {None}]
      /\ \A v \in Worker : Within(registry'[v], ceiling)
      /\ alloc' \in [Invoice -> AllocRec]
      /\ \A i \in Invoice : Active(alloc'[i]) => alloc'[i].items \in Request
      /\ poLedger' \in Quantity /\ grnLedger' \in Quantity
      /\ ~substituted' => UpTo(poLedger', ceiling)
      /\ substituted' \in BOOLEAN /\ (substituted => substituted')
  BY <1>1 DEF OrderInv, ShapeInv, ItemsInv, BoundInv
<1>3. UNCHANGED <<fallback, poDoc, ceiling>>
  BY <1>1
<1> QED
  BY <1>2, <1>3, LocalStep

LEMMA CallsStep ==
  ASSUME OrderInv, NEW w \in Worker, Calls(w)
  PROVE  OrderInv'
<1>0. /\ registry \in [Worker -> OrderRec \cup {None}] /\ alloc \in [Invoice -> AllocRec]
      /\ poLedger \in Quantity /\ grnLedger \in Quantity
      /\ \A v \in Worker : Within(registry[v], ceiling)
      /\ \A i \in Invoice : Active(alloc[i]) => alloc[i].items \in Request
      /\ ~substituted => UpTo(poLedger, ceiling)
      /\ substituted \in BOOLEAN
  BY DEF OrderInv, ShapeInv, ItemsInv, BoundInv
<1>1. ASSUME NEW i \in Invoice, BeginRelease(w, i) PROVE OrderInv'
  <2> DEFINE j == [NoJob EXCEPT !.inv = i, !.items = alloc[i].items,
                                !.grn = alloc[i].grn]
  <2>1. alloc[i].items \in Request /\ alloc[i].grn \in BOOLEAN
    BY <1>0, <1>1 DEF BeginRelease, AllocRec
  <2>2. j \in JobRec /\ j.items \in Request
    BY <2>1, NoJobShape DEF JobRec
  <2> HIDE DEF j
  <2>3. /\ at' = [at EXCEPT ![w] = "mark"] /\ job' = [job EXCEPT ![w] = j]
        /\ UNCHANGED <<registryVars, alloc, poLedger, grnLedger, substituted>>
    BY <1>1 DEF BeginRelease, Goto, storeVars, j
  <2>4. "mark" \in Lines
    BY DEF Lines
  <2> QED
    BY <2>2, <2>3, <2>4, QuietStep
<1>2. ASSUME NEW i \in Invoice, NEW items \in Request, NEW grn \in BOOLEAN,
             BeginAllocation(w, i, items, grn)
      PROVE  OrderInv'
  <2> DEFINE j == [NoJob EXCEPT !.inv = i, !.items = items, !.grn = grn]
  <2>1. j \in JobRec /\ j.items \in Request
    BY NoJobShape DEF JobRec
  <2> HIDE DEF j
  <2>2. /\ at' = [at EXCEPT ![w] = "allocate"] /\ job' = [job EXCEPT ![w] = j]
        /\ UNCHANGED <<registryVars, alloc, poLedger, grnLedger, substituted>>
    BY <1>2 DEF BeginAllocation, Goto, storeVars, j
  <2>3. "allocate" \in Lines
    BY DEF Lines
  <2> QED
    BY <2>1, <2>2, <2>3, QuietStep
<1>3. ASSUME NEW i \in Invoice, NEW items \in Request, NEW grn \in BOOLEAN,
             BeginEvaluation(w, i, items, grn)
      PROVE  OrderInv'
  <2> DEFINE j == [NoJob EXCEPT !.inv = i, !.items = items, !.grn = grn,
                                !.po = poLedger]
  <2>1. j \in JobRec /\ j.items \in Request
    BY <1>0, NoJobShape DEF JobRec
  <2> HIDE DEF j
  <2>2. /\ at' = [at EXCEPT ![w] = "evaluate"] /\ job' = [job EXCEPT ![w] = j]
        /\ \/ registry' = [registry EXCEPT ![w] = Resolved(w)]
           \/ registry' = registry
        /\ UNCHANGED <<fallback, poDoc, ceiling, alloc, poLedger, grnLedger,
                       substituted>>
    BY <1>3 DEF BeginEvaluation, Goto, storeVars, j
  <2>3. Resolved(w) \in OrderRec \cup {None} /\ Within(Resolved(w), ceiling)
    BY LimitsBounded
  <2>4. /\ registry' \in [Worker -> OrderRec \cup {None}]
        /\ \A v \in Worker : Within(registry'[v], ceiling)
    BY <1>0, <2>2, <2>3
  <2>5. "evaluate" \in Lines
    BY DEF Lines
  <2> QED
    BY <1>0, <2>1, <2>2, <2>4, <2>5, LocalStep
<1> QED
  BY <1>1, <1>2, <1>3 DEF Calls

\* Ending a call leaves its lines behind.
LEMMA FinishStep ==
  ASSUME OrderInv, NEW w \in Worker, NEW v \in {"none", "compliant", "exception"},
         Finish(w, v)
  PROVE  \E j \in JobRec : /\ job' = [job EXCEPT ![w] = j]
                           /\ at' = [at EXCEPT ![w] = "done"]
<1> DEFINE j == [NoJob EXCEPT !.verdict = v]
<1>1. j \in JobRec
  BY NoJobShape DEF JobRec
<1> QED
  BY <1>1 DEF Finish, Goto

LEMMA EvaluateStep ==
  ASSUME OrderInv, NEW w \in Worker, EvaluateLineItems(w)
  PROVE  OrderInv'
<1>0. UNCHANGED <<registryVars, alloc, poLedger, grnLedger, substituted>>
  BY DEF EvaluateLineItems, storeVars
<1>1. CASE Finish(w, "exception")
  BY <1>0, <1>1, FinishStep, QuietStep DEF Lines
<1>2. CASE Goto(w, "allocate") /\ UNCHANGED job
  <2>1. job[w] \in JobRec /\ job[w].items \in Request /\ job' = [job EXCEPT ![w] = job[w]]
    BY <1>2 DEF EvaluateLineItems, OrderInv, ShapeInv, ItemsInv, ItemsOf
  <2>2. "allocate" \in Lines
    BY DEF Lines
  <2> QED
    BY <1>0, <1>2, <2>1, <2>2, QuietStep DEF Goto
<1> QED
  BY <1>1, <1>2 DEF EvaluateLineItems

\* What is reserved is no more than the limits leave.
LEMMA ReserveStep ==
  ASSUME OrderInv, NEW w \in Worker, at[w] = "allocate", Fits(w), Reserve(w)
  PROVE  /\ alloc' \in [Invoice -> AllocRec]
         /\ \A i \in Invoice : Active(alloc'[i]) => alloc'[i].items \in Request
         /\ poLedger' \in Quantity /\ grnLedger' \in Quantity
         /\ substituted' \in BOOLEAN /\ (substituted => substituted')
         /\ ~substituted' => UpTo(poLedger', ceiling)
<1> DEFINE j == job[w]
<1>0. /\ j \in JobRec /\ j.items \in Request /\ ceiling \in Quantity
      /\ alloc \in [Invoice -> AllocRec] /\ poLedger \in Quantity /\ grnLedger \in Quantity
      /\ \A i \in Invoice : Active(alloc[i]) => alloc[i].items \in Request
      /\ ~substituted => UpTo(poLedger, ceiling)
      /\ substituted' = (substituted \/ registry[w] = None) /\ substituted \in BOOLEAN
  BY DEF OrderInv, ShapeInv, ItemsInv, ItemsOf, BoundInv, Reserve
<1>1. \A s \in Sku : UnitsOf(j.items, s) \in Nat
  BY <1>0, UnitsCounted
<1>2. /\ Limits(w) \in OrderRec
      /\ registry[w] # None => UpTo(Limits(w).authorized, ceiling)
  BY LimitsBounded
<1>3. ~substituted' =>
        \A s \in Sku : poLedger[s] + UnitsOf(j.items, s) <= ceiling[s]
  <2> SUFFICES ASSUME ~substituted', NEW s \in Sku
               PROVE  poLedger[s] + UnitsOf(j.items, s) <= ceiling[s]
    OBVIOUS
  <2>1. UnitsOf(j.items, s) > 0 =>
          poLedger[s] + UnitsOf(j.items, s) <= Limits(w).authorized[s]
    BY DEF Fits
  <2>2. /\ Limits(w).authorized[s] \in Nat /\ Limits(w).authorized[s] <= ceiling[s]
        /\ ceiling[s] \in Nat /\ poLedger[s] \in Nat /\ poLedger[s] <= ceiling[s]
        /\ UnitsOf(j.items, s) \in Nat
    BY <1>0, <1>1, <1>2 DEF OrderRec, Quantity, UpTo
  <2> QED
    BY <2>1, <2>2
<1>4. poLedger' = [s \in Sku |-> poLedger[s] + UnitsOf(j.items, s)]
  BY DEF Reserve
<1>5. poLedger' \in Quantity /\ (~substituted' => UpTo(poLedger', ceiling))
  BY <1>0, <1>1, <1>3, <1>4 DEF Quantity, UpTo
<1>6. grnLedger' \in Quantity
  <2>1. \A s \in Sku :
          grnLedger[s] + (IF j.grn THEN UnitsOf(j.items, s) ELSE 0) \in Nat
    BY <1>0, <1>1 DEF Quantity
  <2> QED
    BY <2>1 DEF Reserve, Quantity
<1> DEFINE a == [state |-> "COMMITTED", items |-> j.items, grn |-> j.grn]
<1>7. a \in AllocRec /\ a.items \in Request
  BY <1>0 DEF AllocRec, JobRec
<1>8. alloc' = [alloc EXCEPT ![j.inv] = a]
  BY DEF Reserve
<1> HIDE DEF a
<1>9. /\ alloc' \in [Invoice -> AllocRec]
      /\ \A i \in Invoice : Active(alloc'[i]) => alloc'[i].items \in Request
  BY <1>0, <1>7, <1>8
<1> QED
  BY <1>0, <1>5, <1>6, <1>9

LEMMA AllocateStep ==
  ASSUME OrderInv, NEW w \in Worker, AllocateProcurement(w) \/ AllocationError(w)
  PROVE  OrderInv'
<1>0. at[w] = "allocate" /\ UNCHANGED registryVars
  BY DEF AllocateProcurement, AllocationError
<1>1. PICK v \in {"none", "compliant", "exception"} :
        /\ Finish(w, v)
        /\ UNCHANGED storeVars \/ (Fits(w) /\ Reserve(w))
  BY DEF AllocateProcurement, AllocationError
<1>2. PICK j \in JobRec : /\ job' = [job EXCEPT ![w] = j]
                          /\ at' = [at EXCEPT ![w] = "done"]
  BY <1>1, FinishStep
<1>3. CASE UNCHANGED storeVars
  BY <1>0, <1>2, <1>3, QuietStep DEF storeVars, Lines
<1>4. CASE Fits(w) /\ Reserve(w)
  <2>1. /\ alloc' \in [Invoice -> AllocRec]
        /\ \A i \in Invoice : Active(alloc'[i]) => alloc'[i].items \in Request
        /\ poLedger' \in Quantity /\ grnLedger' \in Quantity
        /\ substituted' \in BOOLEAN /\ (substituted => substituted')
        /\ ~substituted' => UpTo(poLedger', ceiling)
    BY <1>0, <1>4, ReserveStep
  <2>2. /\ UNCHANGED <<fallback, poDoc, ceiling>>
        /\ registry' \in [Worker -> OrderRec \cup {None}]
        /\ \A u \in Worker : Within(registry'[u], ceiling)
    BY <1>0 DEF registryVars, OrderInv, ShapeInv, BoundInv
  <2>3. "done" \in Lines
    BY DEF Lines
  <2> QED
    BY <1>2, <2>1, <2>2, <2>3, LocalStep
<1> QED
  BY <1>1, <1>3, <1>4

LEMMA ReturnStep ==
  ASSUME OrderInv, NEW w \in Worker, Return(w)
  PROVE  OrderInv'
<1>1. /\ at' = [at EXCEPT ![w] = "idle"] /\ job' = [job EXCEPT ![w] = NoJob]
      /\ UNCHANGED <<registryVars, alloc, poLedger, grnLedger, substituted>>
  BY DEF Return, Goto, storeVars
<1>2. "idle" \in Lines
  BY DEF Lines
<1> QED
  BY <1>1, <1>2, NoJobShape, QuietStep

----------------------------------------------------------------------------
(* Releases.                                                               *)

LEMMA MarkStep ==
  ASSUME OrderInv, NEW w \in Worker, MarkReleased(w)
  PROVE  OrderInv'
<1>0. /\ job[w] \in JobRec /\ job[w].items \in Request
      /\ alloc \in [Invoice -> AllocRec]
      /\ \A i \in Invoice : Active(alloc[i]) => alloc[i].items \in Request
  BY DEF MarkReleased, OrderInv, ShapeInv, ItemsInv, ItemsOf
<1>1. /\ at' = [at EXCEPT ![w] = "readPo"] /\ job' = [job EXCEPT ![w] = job[w]]
      /\ UNCHANGED <<registry, fallback, poDoc, ceiling, poLedger, grnLedger,
                     substituted>>
      /\ alloc' = [alloc EXCEPT ![job[w].inv].state = "RELEASED"]
  BY DEF MarkReleased, Goto, registryVars, OrderInv, ShapeInv
<1>2. /\ alloc' \in [Invoice -> AllocRec]
      /\ \A i \in Invoice : Active(alloc'[i]) => alloc'[i] = alloc[i]
  BY <1>0, <1>1 DEF AllocRec, Active
<1>3. \A i \in Invoice : Active(alloc'[i]) => alloc'[i].items \in Request
  BY <1>0, <1>2
<1>4. /\ registry' \in [Worker -> OrderRec \cup {None}]
      /\ \A v \in Worker : Within(registry'[v], ceiling)
      /\ poLedger' \in Quantity /\ grnLedger' \in Quantity
      /\ substituted' \in BOOLEAN /\ (~substituted' => UpTo(poLedger', ceiling))
  BY <1>1 DEF OrderInv, ShapeInv, BoundInv
<1>5. "readPo" \in Lines
  BY DEF Lines, GivingPo
<1> QED
  BY <1>0, <1>1, <1>2, <1>3, <1>4, <1>5, LocalStep

LEMMA ReadStep ==
  ASSUME OrderInv, NEW w \in Worker, ReadPoLedger(w) \/ ReadGrnLedger(w)
  PROVE  OrderInv'
<1>0. PICK ledger \in Quantity, next \in {"writePo", "writeGrn"} :
        /\ job' = [job EXCEPT ![w].po = ledger] /\ Goto(w, next)
        /\ UNCHANGED <<registryVars, storeVars>>
        /\ next = "writePo" /\ ~substituted => UpTo(ledger, ceiling)
        /\ at[w] \in {"readPo", "readGrn"}
  BY DEF ReadPoLedger, ReadGrnLedger, ReadLedger, OrderInv, ShapeInv, BoundInv
<1> DEFINE j == [job[w] EXCEPT !.po = ledger]
<1>1. job[w] \in JobRec /\ job[w].items \in Request
  BY <1>0 DEF OrderInv, ShapeInv, ItemsInv, ItemsOf
<1>2. j \in JobRec /\ j.items \in Request /\ j.po = ledger
  BY <1>1 DEF JobRec
<1>3. job' = [job EXCEPT ![w] = j] /\ at' = [at EXCEPT ![w] = next]
  BY <1>0 DEF Goto
<1> HIDE DEF j
<1>4. next \in Lines
  BY DEF Lines, GivingPo, GivingGrn
<1> QED
  BY <1>0, <1>2, <1>3, <1>4, QuietStep DEF storeVars

\* Giving back never takes a total below zero, nor above what was read.
LEMMA GivenBackBounds ==
  ASSUME OrderInv, NEW w \in Worker, at[w] \in {"writePo", "writeGrn"}
  PROVE  /\ GivenBack(w) \in Quantity
         /\ \A s \in Sku : GivenBack(w)[s] <= job[w].po[s]
<1>1. job[w].po \in Quantity /\ job[w].items \in Request
  BY DEF OrderInv, ShapeInv, ItemsInv, ItemsOf, JobRec
<1>2. \A s \in Sku : UnitsOf(job[w].items, s) \in Nat
  BY <1>1, UnitsCounted
<1> QED
  BY <1>1, <1>2 DEF GivenBack, Larger, Quantity

LEMMA WriteStep ==
  ASSUME OrderInv, NEW w \in Worker, WritePoLedger(w) \/ WriteGrnLedger(w)
  PROVE  OrderInv'
<1>0. /\ at[w] \in {"writePo", "writeGrn"}
      /\ GivenBack(w) \in Quantity /\ \A s \in Sku : GivenBack(w)[s] <= job[w].po[s]
      /\ job[w] \in JobRec /\ job[w].items \in Request
      /\ job' = [job EXCEPT ![w] = job[w]]
      /\ UNCHANGED <<registry, fallback, poDoc, ceiling, alloc, substituted>>
  BY GivenBackBounds
     DEF WritePoLedger, WriteGrnLedger, registryVars, OrderInv, ShapeInv, ItemsInv, ItemsOf
<1>1. /\ poLedger' \in Quantity /\ grnLedger' \in Quantity
      /\ substituted' \in BOOLEAN /\ (~substituted' => UpTo(poLedger', ceiling))
  <2>1. CASE WritePoLedger(w)
    <3>1. /\ ~substituted => UpTo(job[w].po, ceiling)
          /\ poLedger' = GivenBack(w) /\ grnLedger' = grnLedger
      BY <2>1 DEF WritePoLedger, OrderInv, BoundInv, ReadOf
    <3>2. job[w].po \in Quantity /\ ceiling \in Quantity /\ grnLedger \in Quantity
      BY DEF OrderInv, ShapeInv, JobRec
    <3>3. ceiling' = ceiling /\ substituted' = substituted /\ substituted \in BOOLEAN
      BY <1>0 DEF OrderInv, ShapeInv
    <3>4. ASSUME ~substituted, NEW s \in Sku PROVE GivenBack(w)[s] <= ceiling[s]
      <4>1. /\ job[w].po[s] \in Nat /\ ceiling[s] \in Nat /\ GivenBack(w)[s] \in Nat
            /\ GivenBack(w)[s] <= job[w].po[s] /\ job[w].po[s] <= ceiling[s]
        BY <1>0, <3>1, <3>2, <3>4 DEF UpTo, Quantity
      <4> QED
        BY <4>1
    <3> QED
      BY <1>0, <3>1, <3>2, <3>3, <3>4 DEF UpTo
  <2>2. CASE WriteGrnLedger(w)
    BY <1>0, <2>2 DEF WriteGrnLedger, OrderInv, ShapeInv, BoundInv
  <2> QED
    BY <2>1, <2>2
<1>2. PICK label \in {"readGrn", "done"} : at' = [at EXCEPT ![w] = label]
  BY DEF WritePoLedger, WriteGrnLedger, Goto
<1>3. /\ registry' \in [Worker -> OrderRec \cup {None}]
      /\ \A v \in Worker : Within(registry'[v], ceiling)
      /\ alloc' \in [Invoice -> AllocRec]
      /\ \A i \in Invoice : Active(alloc'[i]) => alloc'[i].items \in Request
  BY <1>0 DEF OrderInv, ShapeInv, ItemsInv, BoundInv
<1>4. label \in Lines
  BY DEF Lines, GivingGrn
<1> QED
  BY <1>0, <1>1, <1>2, <1>3, <1>4, LocalStep

----------------------------------------------------------------------------
LEMMA OrderStep ==
  ASSUME OrderInv, [ProcurementNext]_procurementVars
  PROVE  OrderInv'
<1>1. CASE ProcurementNext
  BY <1>1, OrdersStep, CallsStep, CrashStep, EvaluateStep, AllocateStep, ReturnStep,
     MarkStep, ReadStep, WriteStep DEF ProcurementNext, ProcurementStep
<1>2. CASE UNCHANGED procurementVars
  BY <1>2 DEF procurementVars, registryVars, storeVars, workerVars, OrderInv, ShapeInv,
              ItemsInv, ItemsOf, BoundInv, ReadOf
<1> QED
  BY <1>1, <1>2

THEOREM OrderInvariant == ProcurementSpec => []OrderInv
<1>1. OrderInv /\ [ProcurementNext]_procurementVars => OrderInv'
  BY OrderStep
<1> QED
  BY InitOrder, <1>1, PTL DEF ProcurementSpec

\* Orders, reservations and totals keep their shapes, and no total goes below
\* zero, for every number of releases at once.
THEOREM ProcurementTypes == ProcurementSpec => []ProcurementTypeOK
<1>1. OrderInv => ProcurementTypeOK
  BY NoneShape DEF OrderInv, ShapeInv, OrderRec, AllocRec, JobRec, Quantity,
                   ProcurementTypeOK
<1> QED
  BY OrderInvariant, <1>1, PTL

\* While every reservation goes by the order itself, its total never passes the
\* most it was made out for, whichever versions the processes know of it and
\* however releases and reservations meet (the limits of allocate_procurement).
THEOREM TotalsBounded == ProcurementSpec => []LedgerBounded
<1>1. OrderInv => LedgerBounded
  BY DEF OrderInv, BoundInv, UpTo, LedgerBounded
<1> QED
  BY OrderInvariant, <1>1, PTL

\* Only the transaction finds an upload compliant, and only its own.
LEMMA Verdicts ==
  ASSUME OrderInv, NEW v \in Worker, NEW w \in Worker,
         Orders(v) \/ Calls(v) \/ ProcurementStep(v) \/ Crash(v),
         job[w].verdict = "none", job'[w].verdict = "compliant"
  PROVE  AllocateProcurement(v) /\ v = w
<1>0. job \in [Worker -> JobRec] /\ NoJob \in JobRec /\ NoJob.verdict = "none"
  BY NoJobShape DEF OrderInv, ShapeInv
<1>1. job' # job
  OBVIOUS
<1>2. ASSUME NEW j, job' = [job EXCEPT ![v] = j] PROVE v = w /\ j.verdict = "compliant"
  BY <1>0, <1>2
<1>3. ~Orders(v)
  BY <1>1 DEF Orders, CreatePurchaseOrder, CreateOtherOrder, AmendPurchaseOrder,
              RecordGrnReceipt, AdjustGrnReturns, workerVars
<1>4. ASSUME NEW i \in Invoice, BeginRelease(v, i) PROVE FALSE
  <2> DEFINE j == [NoJob EXCEPT !.inv = i, !.items = alloc[i].items,
                                !.grn = alloc[i].grn]
  <2>1. job' = [job EXCEPT ![v] = j]
    BY <1>4 DEF BeginRelease
  <2>2. j.verdict = "none"
    BY <1>0 DEF JobRec
  <2> QED
    BY <1>2, <2>1, <2>2
<1>5. ASSUME NEW i \in Invoice, NEW items \in Request, NEW grn \in BOOLEAN,
             BeginAllocation(v, i, items, grn)
      PROVE  FALSE
  <2> DEFINE j == [NoJob EXCEPT !.inv = i, !.items = items, !.grn = grn]
  <2>1. job' = [job EXCEPT ![v] = j]
    BY <1>5 DEF BeginAllocation
  <2>2. j.verdict = "none"
    BY <1>0 DEF JobRec
  <2> QED
    BY <1>2, <2>1, <2>2
<1>6. ASSUME NEW i \in Invoice, NEW items \in Request, NEW grn \in BOOLEAN,
             BeginEvaluation(v, i, items, grn)
      PROVE  FALSE
  <2> DEFINE j == [NoJob EXCEPT !.inv = i, !.items = items, !.grn = grn,
                                !.po = poLedger]
  <2>1. job' = [job EXCEPT ![v] = j]
    BY <1>6 DEF BeginEvaluation
  <2>2. j.verdict = "none"
    BY <1>0 DEF JobRec
  <2> QED
    BY <1>2, <2>1, <2>2
<1>7. ~Crash(v) /\ ~Return(v)
  BY <1>0, <1>2 DEF Crash, Return
<1>8. ~Finish(v, "exception")
  <2>1. [NoJob EXCEPT !.verdict = "exception"].verdict = "exception"
    BY <1>0 DEF JobRec
  <2>2. Finish(v, "exception") =>
          job' = [job EXCEPT ![v] = [NoJob EXCEPT !.verdict = "exception"]]
    BY DEF Finish
  <2> QED
    BY <1>2, <2>1, <2>2
<1>9. ~EvaluateLineItems(v) /\ ~AllocationError(v)
  BY <1>1, <1>8 DEF EvaluateLineItems, AllocationError
<1>10. ~MarkReleased(v) /\ ~WritePoLedger(v) /\ ~WriteGrnLedger(v)
  BY <1>1 DEF MarkReleased, WritePoLedger, WriteGrnLedger
<1>11. ~ReadPoLedger(v) /\ ~ReadGrnLedger(v)
  <2> SUFFICES ASSUME NEW ledger, job' = [job EXCEPT ![v].po = ledger] PROVE FALSE
    BY DEF ReadPoLedger, ReadGrnLedger, ReadLedger
  <2>1. job' = [job EXCEPT ![v] = [job[v] EXCEPT !.po = ledger]]
    OBVIOUS
  <2>2. [job[v] EXCEPT !.po = ledger].verdict = job[v].verdict
    BY <1>0 DEF JobRec
  <2> QED
    BY <1>2, <2>1, <2>2
<1>12. AllocateProcurement(v)
  BY <1>3, <1>4, <1>5, <1>6, <1>7, <1>9, <1>10, <1>11 DEF Calls, ProcurementStep
<1>13. job'[w] = job[w] \/ v = w
  BY <1>0, <1>12 DEF AllocateProcurement, Finish
<1> QED
  BY <1>12, <1>13

\* An upload is found compliant only with its lines reserved.
THEOREM CompliantReserved == ProcurementSpec => CompliantIsReserved
<1>1. OrderInv /\ [ProcurementNext]_procurementVars =>
        [\A w \in Worker :
           job[w].verdict = "none" /\ job'[w].verdict = "compliant" =>
             /\ Active(alloc'[job[w].inv])
             /\ SameItems(alloc'[job[w].inv].items, job[w].items)]_procurementVars
  <2> SUFFICES ASSUME OrderInv, ProcurementNext, NEW w \in Worker,
                      job[w].verdict = "none", job'[w].verdict = "compliant"
               PROVE  /\ Active(alloc'[job[w].inv])
                      /\ SameItems(alloc'[job[w].inv].items, job[w].items)
    OBVIOUS
  <2>0. job \in [Worker -> JobRec] /\ alloc \in [Invoice -> AllocRec]
    BY DEF OrderInv, ShapeInv
  <2>1. PICK v \in Worker : Orders(v) \/ Calls(v) \/ ProcurementStep(v) \/ Crash(v)
    BY DEF ProcurementNext
  <2>2. AllocateProcurement(v) /\ v = w
    BY <2>1, Verdicts
  <2>3. CASE /\ Active(alloc[job[w].inv]) /\ alloc' = alloc
             /\ Finish(w, IF SameItems(alloc[job[w].inv].items, job[w].items)
                          THEN "compliant" ELSE "exception")
    <3>1. job'[w].verdict = IF SameItems(alloc[job[w].inv].items, job[w].items)
                            THEN "compliant" ELSE "exception"
      BY <2>0, <2>3, NoJobShape DEF Finish, JobRec
    <3> QED
      BY <2>3, <3>1
  <2>4. CASE Reserve(w)
    <3>1. alloc'[job[w].inv] =
            [state |-> "COMMITTED", items |-> job[w].items, grn |-> job[w].grn]
      BY <2>0, <2>4 DEF Reserve, JobRec
    <3> QED
      BY <3>1 DEF Active, SameItems
  <2>5. CASE Finish(w, "exception")
    BY <2>0, <2>5, NoJobShape DEF Finish, JobRec
  <2> QED
    BY <2>2, <2>3, <2>4, <2>5 DEF AllocateProcurement, storeVars
<1> QED
  BY <1>1, OrderInvariant, PTL DEF ProcurementSpec, CompliantIsReserved

----------------------------------------------------------------------------
(* The totals are explained by reservations and releases under way.        *)

LEMMA CountedAllocation ==
  ASSUME NEW a \in AllocRec, Active(a) => a.items \in Request, NEW s \in Sku
  PROVE  Held(a, s) \in Nat /\ HeldGrn(a, s) \in Nat
BY UnitsCounted DEF Held, HeldGrn

LEMMA CountedRelease ==
  ASSUME NEW label \in Lines, NEW j \in JobRec,
         label \notin {"idle", "done"} => j.items \in Request, NEW s \in Sku
  PROVE  Owing(label, j, s) \in Nat /\ OwingGrn(label, j, s) \in Nat
BY UnitsCounted DEF Owing, OwingGrn, GivingPo, GivingGrn

\* Only the reservation and the process a step changes count differently.
LEMMA Accounts ==
  ASSUME OrderInv, OrderInv', NEW w \in Worker, NEW i \in Invoice, NEW s \in Sku,
         \A v \in Worker \ {w} : at'[v] = at[v] /\ job'[v] = job[v],
         \A k \in Invoice \ {i} : alloc'[k] = alloc[k]
  PROVE  /\ Taken(s)' = Taken(s) + Held(alloc'[i], s) - Held(alloc[i], s)
         /\ Received(s)' = Received(s) + HeldGrn(alloc'[i], s) - HeldGrn(alloc[i], s)
         /\ Owed(s)' = Owed(s) + Owing(at'[w], job'[w], s) - Owing(at[w], job[w], s)
         /\ OwedGrn(s)' = OwedGrn(s) + OwingGrn(at'[w], job'[w], s)
                                     - OwingGrn(at[w], job[w], s)
         /\ Taken(s) \in Nat /\ Received(s) \in Nat
         /\ Owed(s) \in Nat /\ Owing(at[w], job[w], s) <= Owed(s)
         /\ OwedGrn(s) \in Nat /\ OwingGrn(at[w], job[w], s) <= OwedGrn(s)
         /\ Held(alloc[i], s) \in Nat /\ HeldGrn(alloc[i], s) \in Nat
         /\ Held(alloc'[i], s) \in Nat /\ HeldGrn(alloc'[i], s) \in Nat
         /\ Owing(at[w], job[w], s) \in Nat /\ OwingGrn(at[w], job[w], s) \in Nat
         /\ Owing(at'[w], job'[w], s) \in Nat /\ OwingGrn(at'[w], job'[w], s) \in Nat
<1> DEFINE held == [k \in Invoice |-> Held(alloc[k], s)]
           heldAfter == [k \in Invoice |-> Held(alloc'[k], s)]
           grn == [k \in Invoice |-> HeldGrn(alloc[k], s)]
           grnAfter == [k \in Invoice |-> HeldGrn(alloc'[k], s)]
           owed == [v \in Worker |-> Owing(at[v], job[v], s)]
           owedAfter == [v \in Worker |-> Owing(at'[v], job'[v], s)]
           owedGrn == [v \in Worker |-> OwingGrn(at[v], job[v], s)]
           owedGrnAfter == [v \in Worker |-> OwingGrn(at'[v], job'[v], s)]
<1>1. \A k \in Invoice : alloc[k] \in AllocRec /\ (Active(alloc[k]) => alloc[k].items \in Request)
  BY DEF OrderInv, ShapeInv, ItemsInv
<1>2. \A k \in Invoice :
        alloc'[k] \in AllocRec /\ (Active(alloc'[k]) => alloc'[k].items \in Request)
  BY DEF OrderInv, ShapeInv, ItemsInv
<1>3. \A v \in Worker : /\ at[v] \in Lines /\ job[v] \in JobRec
                        /\ at[v] \notin {"idle", "done"} => job[v].items \in Request
  BY DEF OrderInv, ShapeInv, ItemsInv, ItemsOf
<1>4. \A v \in Worker : /\ at'[v] \in Lines /\ job'[v] \in JobRec
                        /\ at'[v] \notin {"idle", "done"} => job'[v].items \in Request
  BY DEF OrderInv, ShapeInv, ItemsInv, ItemsOf
<1>5. /\ held \in [Invoice -> Nat] /\ heldAfter \in [Invoice -> Nat]
      /\ grn \in [Invoice -> Nat] /\ grnAfter \in [Invoice -> Nat]
  BY <1>1, <1>2, CountedAllocation
<1>6. /\ owed \in [Worker -> Nat] /\ owedAfter \in [Worker -> Nat]
      /\ owedGrn \in [Worker -> Nat] /\ owedGrnAfter \in [Worker -> Nat]
  BY <1>3, <1>4, CountedRelease
<1>7. \A k \in Invoice \ {i} : heldAfter[k] = held[k] /\ grnAfter[k] = grn[k]
  OBVIOUS
<1>8. \A v \in Worker \ {w} : owedAfter[v] = owed[v] /\ owedGrnAfter[v] = owedGrn[v]
  OBVIOUS
<1>9. IsFiniteSet(Invoice) /\ IsFiniteSet(Worker)
  BY ProcurementAssumption
<1>10. /\ Taken(s) = SumFunction(held) /\ Taken(s)' = SumFunction(heldAfter)
       /\ Received(s) = SumFunction(grn) /\ Received(s)' = SumFunction(grnAfter)
       /\ Owed(s) = SumFunction(owed) /\ Owed(s)' = SumFunction(owedAfter)
       /\ OwedGrn(s) = SumFunction(owedGrn) /\ OwedGrn(s)' = SumFunction(owedGrnAfter)
  BY DEF Taken, Received, Owed, OwedGrn
<1>11. /\ held[i] = Held(alloc[i], s) /\ heldAfter[i] = Held(alloc'[i], s)
       /\ grn[i] = HeldGrn(alloc[i], s) /\ grnAfter[i] = HeldGrn(alloc'[i], s)
       /\ owed[w] = Owing(at[w], job[w], s) /\ owedAfter[w] = Owing(at'[w], job'[w], s)
       /\ owedGrn[w] = OwingGrn(at[w], job[w], s)
       /\ owedGrnAfter[w] = OwingGrn(at'[w], job'[w], s)
  OBVIOUS
<1> HIDE DEF held, heldAfter, grn, grnAfter, owed, owedAfter, owedGrn, owedGrnAfter
<1>12. /\ SumFunction(heldAfter) = SumFunction(held) + heldAfter[i] - held[i]
       /\ SumFunction(grnAfter) = SumFunction(grn) + grnAfter[i] - grn[i]
  BY <1>5, <1>7, <1>9, CountChanges
<1>13. /\ SumFunction(owedAfter) = SumFunction(owed) + owedAfter[w] - owed[w]
       /\ SumFunction(owedGrnAfter) = SumFunction(owedGrn) + owedGrnAfter[w] - owedGrn[w]
  BY <1>6, <1>8, <1>9, CountChanges
<1>14. /\ SumFunction(held) \in Nat /\ SumFunction(grn) \in Nat
       /\ SumFunction(owed) \in Nat /\ owed[w] <= SumFunction(owed)
       /\ SumFunction(owedGrn) \in Nat /\ owedGrn[w] <= SumFunction(owedGrn)
  BY <1>5, <1>6, <1>9, CountSum
<1>15. /\ held[i] \in Nat /\ heldAfter[i] \in Nat /\ grn[i] \in Nat /\ grnAfter[i] \in Nat
       /\ owed[w] \in Nat /\ owedAfter[w] \in Nat
       /\ owedGrn[w] \in Nat /\ owedGrnAfter[w] \in Nat
  BY <1>5, <1>6
<1> QED
  BY <1>10, <1>11, <1>12, <1>13, <1>14, <1>15

\* The part of the step a process takes with one reservation.
Touches(w, i) ==
  /\ \A v \in Worker \ {w} : at'[v] = at[v] /\ job'[v] = job[v]
  /\ \A k \in Invoice \ {i} : alloc'[k] = alloc[k]

\* How much more is reserved, and is owed, of the order and of the receipt.
Moved(w, i, s) ==
  Held(alloc'[i], s) - Held(alloc[i], s)
    + Owing(at'[w], job'[w], s) - Owing(at[w], job[w], s)

MovedGrn(w, i, s) ==
  HeldGrn(alloc'[i], s) - HeldGrn(alloc[i], s)
    + OwingGrn(at'[w], job'[w], s) - OwingGrn(at[w], job[w], s)

\* A total that changes by what moved stays explained.
LEMMA BalancedStep ==
  ASSUME OrderInv, OrderInv', LedgerExplained, ~disturbed,
         NEW w \in Worker, NEW i \in Invoice, Touches(w, i),
         \A s \in Sku : /\ poLedger'[s] = poLedger[s] + Moved(w, i, s)
                        /\ grnLedger'[s] = grnLedger[s] + MovedGrn(w, i, s)
  PROVE  LedgerExplained'
<1> SUFFICES ASSUME NEW s \in Sku
             PROVE  /\ poLedger'[s] = Taken(s)' + Owed(s)'
                    /\ grnLedger'[s] = Received(s)' + OwedGrn(s)'
  BY DEF LedgerExplained
<1>1. poLedger[s] = Taken(s) + Owed(s) /\ grnLedger[s] = Received(s) + OwedGrn(s)
  BY DEF LedgerExplained
<1>2. /\ Taken(s)' = Taken(s) + Held(alloc'[i], s) - Held(alloc[i], s)
      /\ Received(s)' = Received(s) + HeldGrn(alloc'[i], s) - HeldGrn(alloc[i], s)
      /\ Owed(s)' = Owed(s) + Owing(at'[w], job'[w], s) - Owing(at[w], job[w], s)
      /\ OwedGrn(s)' = OwedGrn(s) + OwingGrn(at'[w], job'[w], s)
                                  - OwingGrn(at[w], job[w], s)
      /\ Taken(s) \in Nat /\ Received(s) \in Nat /\ Owed(s) \in Nat /\ OwedGrn(s) \in Nat
      /\ Held(alloc[i], s) \in Nat /\ HeldGrn(alloc[i], s) \in Nat
      /\ Held(alloc'[i], s) \in Nat /\ HeldGrn(alloc'[i], s) \in Nat
      /\ Owing(at[w], job[w], s) \in Nat /\ OwingGrn(at[w], job[w], s) \in Nat
      /\ Owing(at'[w], job'[w], s) \in Nat /\ OwingGrn(at'[w], job'[w], s) \in Nat
  BY Accounts DEF Touches
<1> QED
  BY <1>1, <1>2 DEF Moved, MovedGrn

\* Where nothing is reserved, released or owed the totals may rest.
LEMMA RestingStep ==
  ASSUME OrderInv, OrderInv', LedgerExplained, ~disturbed, NEW w \in Worker,
         \A v \in Worker \ {w} : at'[v] = at[v] /\ job'[v] = job[v],
         UNCHANGED <<alloc, poLedger, grnLedger>>,
         \A s \in Sku : /\ Owing(at'[w], job'[w], s) = Owing(at[w], job[w], s)
                        /\ OwingGrn(at'[w], job'[w], s) = OwingGrn(at[w], job[w], s)
  PROVE  LedgerExplained'
<1>1. PICK i \in Invoice : TRUE
  BY ProcurementAssumption
<1>2. Touches(w, i)
  BY DEF Touches
<1>3. poLedger \in Quantity /\ grnLedger \in Quantity
  BY DEF OrderInv, ShapeInv
<1>4. ASSUME NEW s \in Sku
      PROVE  /\ poLedger'[s] = poLedger[s] + Moved(w, i, s)
             /\ grnLedger'[s] = grnLedger[s] + MovedGrn(w, i, s)
  <2>1. /\ Held(alloc[i], s) \in Nat /\ HeldGrn(alloc[i], s) \in Nat
        /\ Owing(at[w], job[w], s) \in Nat /\ OwingGrn(at[w], job[w], s) \in Nat
    BY <1>2, Accounts DEF Touches
  <2>2. poLedger[s] \in Nat /\ grnLedger[s] \in Nat
    BY <1>3 DEF Quantity
  <2> QED
    BY <2>1, <2>2 DEF Moved, MovedGrn
<1> QED
  BY <1>2, <1>4, BalancedStep

\* At these labels nothing is owed.
LEMMA NothingOwed ==
  ASSUME NEW label, label \notin GivingPo \cup GivingGrn, NEW j, NEW s
  PROVE  Owing(label, j, s) = 0 /\ OwingGrn(label, j, s) = 0
BY DEF Owing, OwingGrn

LEMMA OrdersExplained ==
  ASSUME OrderInv, OrderInv', LedgerExplained, ~disturbed, NEW w \in Worker, Orders(w)
  PROVE  LedgerExplained'
<1>1. UNCHANGED <<storeVars, workerVars>>
  BY DEF Orders, CreatePurchaseOrder, CreateOtherOrder, AmendPurchaseOrder,
         RecordGrnReceipt, AdjustGrnReturns
<1>2. UNCHANGED <<alloc, poLedger, grnLedger, at, job>>
  BY <1>1 DEF storeVars, workerVars
<1> QED
  BY <1>2, RestingStep

LEMMA CallsExplained ==
  ASSUME OrderInv, OrderInv', LedgerExplained, ~disturbed, NEW w \in Worker, Calls(w)
  PROVE  LedgerExplained'
<1>1. PICK label \in {"evaluate", "allocate", "mark"} :
        /\ at[w] = "idle" /\ UNCHANGED storeVars
        /\ at' = [at EXCEPT ![w] = label]
        /\ \A v \in Worker \ {w} : job'[v] = job[v]
  <2>0. job \in [Worker -> JobRec]
    BY DEF OrderInv, ShapeInv
  <2>1. ASSUME NEW j, job' = [job EXCEPT ![w] = j]
        PROVE  \A v \in Worker \ {w} : job'[v] = job[v]
    BY <2>0, <2>1
  <2>2. CASE \E i \in Invoice : BeginRelease(w, i)
    BY <2>1, <2>2 DEF BeginRelease, Call, Idle, Goto
  <2>3. CASE \E i \in Invoice, items \in Request, grn \in BOOLEAN :
               BeginEvaluation(w, i, items, grn)
    BY <2>1, <2>3 DEF BeginEvaluation, Call, Idle, Goto
  <2>4. CASE \E i \in Invoice, items \in Request, grn \in BOOLEAN :
               BeginAllocation(w, i, items, grn)
    BY <2>1, <2>4 DEF BeginAllocation, Call, Idle, Goto
  <2> QED
    BY <2>2, <2>3, <2>4 DEF Calls
<1>2. /\ at \in [Worker -> Lines] /\ job \in [Worker -> JobRec]
      /\ UNCHANGED <<alloc, poLedger, grnLedger>>
  BY <1>1 DEF OrderInv, ShapeInv, storeVars
<1>3. at'[w] \notin GivingPo \cup GivingGrn /\ at[w] \notin GivingPo \cup GivingGrn
  BY <1>1, <1>2 DEF GivingPo, GivingGrn
<1>4. \A v \in Worker \ {w} : at'[v] = at[v] /\ job'[v] = job[v]
  BY <1>1, <1>2
<1> QED
  BY <1>2, <1>3, <1>4, NothingOwed, RestingStep

\* So may they when a call ends or dies before it has anything to give back.
LEMMA EndingExplained ==
  ASSUME OrderInv, OrderInv', LedgerExplained, ~disturbed, NEW w \in Worker,
         at[w] \notin GivingPo \cup GivingGrn,
         NEW j, NEW label \in {"idle", "allocate", "done"},
         at' = [at EXCEPT ![w] = label], job' = [job EXCEPT ![w] = j],
         UNCHANGED <<alloc, poLedger, grnLedger>>
  PROVE  LedgerExplained'
<1>1. at \in [Worker -> Lines] /\ job \in [Worker -> JobRec]
  BY DEF OrderInv, ShapeInv
<1>2. at'[w] \notin GivingPo \cup GivingGrn
  BY <1>1 DEF GivingPo, GivingGrn
<1>3. \A v \in Worker \ {w} : at'[v] = at[v] /\ job'[v] = job[v]
  BY <1>1
<1> QED
  BY <1>2, <1>3, NothingOwed, RestingStep

\* A reservation takes of the totals what it holds from then on.
LEMMA ReserveExplained ==
  ASSUME OrderInv, OrderInv', LedgerExplained, ~disturbed, NEW w \in Worker,
         at[w] = "allocate", ~Active(alloc[job[w].inv]), Reserve(w),
         NEW j, at' = [at EXCEPT ![w] = "done"], job' = [job EXCEPT ![w] = j]
  PROVE  LedgerExplained'
<1> DEFINE i == job[w].inv
<1>1. /\ at \in [Worker -> Lines] /\ job \in [Worker -> JobRec] /\ job[w] \in JobRec
      /\ alloc \in [Invoice -> AllocRec] /\ job[w].items \in Request
      /\ poLedger \in Quantity /\ grnLedger \in Quantity
  BY DEF OrderInv, ShapeInv, ItemsInv, ItemsOf
<1>2. i \in Invoice /\ job[w].grn \in BOOLEAN
  BY <1>1 DEF JobRec
<1>3. /\ alloc'[i] = [state |-> "COMMITTED", items |-> job[w].items, grn |-> job[w].grn]
      /\ Touches(w, i)
  BY <1>1, <1>2 DEF Reserve, Touches
<1>4. ASSUME NEW s \in Sku
      PROVE  /\ poLedger'[s] = poLedger[s] + Moved(w, i, s)
             /\ grnLedger'[s] = grnLedger[s] + MovedGrn(w, i, s)
  <2>1. UnitsOf(job[w].items, s) \in Nat /\ poLedger[s] \in Nat /\ grnLedger[s] \in Nat
    BY <1>1, UnitsCounted DEF Quantity
  <2>2. /\ Held(alloc[i], s) = 0 /\ HeldGrn(alloc[i], s) = 0
        /\ Held(alloc'[i], s) = UnitsOf(job[w].items, s)
        /\ HeldGrn(alloc'[i], s) = IF job[w].grn THEN UnitsOf(job[w].items, s) ELSE 0
    BY <1>2, <1>3 DEF Held, HeldGrn, Active
  <2>3. /\ at[w] \notin GivingPo \cup GivingGrn /\ at'[w] \notin GivingPo \cup GivingGrn
    BY <1>1 DEF GivingPo, GivingGrn
  <2>4. /\ Owing(at[w], job[w], s) = 0 /\ Owing(at'[w], job'[w], s) = 0
        /\ OwingGrn(at[w], job[w], s) = 0 /\ OwingGrn(at'[w], job'[w], s) = 0
    BY <2>3, NothingOwed
  <2>5. /\ poLedger'[s] = poLedger[s] + UnitsOf(job[w].items, s)
        /\ grnLedger'[s] = grnLedger[s]
                             + (IF job[w].grn THEN UnitsOf(job[w].items, s) ELSE 0)
    BY DEF Reserve
  <2> QED
    BY <2>1, <2>2, <2>4, <2>5 DEF Moved, MovedGrn
<1> QED
  BY <1>2, <1>3, <1>4, BalancedStep

\* A release owes what its reservation held, when it marks the one it read.
LEMMA MarkExplained ==
  ASSUME OrderInv, OrderInv', LedgerExplained, ~disturbed', NEW w \in Worker,
         MarkReleased(w)
  PROVE  LedgerExplained'
<1> DEFINE i == job[w].inv
<1>1. /\ at \in [Worker -> Lines] /\ job[w] \in JobRec
      /\ alloc \in [Invoice -> AllocRec] /\ job[w].items \in Request
      /\ poLedger \in Quantity /\ grnLedger \in Quantity /\ at[w] = "mark"
  BY DEF OrderInv, ShapeInv, ItemsInv, ItemsOf, MarkReleased
<1>2. i \in Invoice /\ job[w].grn \in BOOLEAN /\ alloc[i] \in AllocRec
  BY <1>1 DEF JobRec
<1>3. /\ ~disturbed /\ UNCHANGED <<poLedger, grnLedger, job>>
      /\ alloc[i] = [state |-> "COMMITTED", items |-> job[w].items, grn |-> job[w].grn]
      /\ at' = [at EXCEPT ![w] = "readPo"]
      /\ alloc' = [alloc EXCEPT ![i].state = "RELEASED"]
  BY DEF MarkReleased, Goto
<1>4. Touches(w, i) /\ ~Active(alloc'[i])
  BY <1>1, <1>2, <1>3 DEF Touches, Active, AllocRec
<1>5. ASSUME NEW s \in Sku
      PROVE  /\ poLedger'[s] = poLedger[s] + Moved(w, i, s)
             /\ grnLedger'[s] = grnLedger[s] + MovedGrn(w, i, s)
  <2>1. UnitsOf(job[w].items, s) \in Nat /\ poLedger[s] \in Nat /\ grnLedger[s] \in Nat
    BY <1>1, UnitsCounted DEF Quantity
  <2>2. /\ Held(alloc'[i], s) = 0 /\ HeldGrn(alloc'[i], s) = 0
        /\ Held(alloc[i], s) = UnitsOf(job[w].items, s)
        /\ HeldGrn(alloc[i], s) = IF job[w].grn THEN UnitsOf(job[w].items, s) ELSE 0
    BY <1>2, <1>3, <1>4 DEF Held, HeldGrn, Active
  <2>3. at[w] \notin GivingPo \cup GivingGrn /\ at'[w] \in GivingPo
    BY <1>1, <1>3 DEF GivingPo, GivingGrn
  <2>4. /\ Owing(at[w], job[w], s) = 0 /\ OwingGrn(at[w], job[w], s) = 0
    BY <2>3, NothingOwed
  <2>5. /\ Owing(at'[w], job'[w], s) = UnitsOf(job[w].items, s)
        /\ OwingGrn(at'[w], job'[w], s) = IF job[w].grn THEN UnitsOf(job[w].items, s) ELSE 0
    BY <1>3, <2>3 DEF Owing, OwingGrn
  <2> QED
    BY <1>3, <2>1, <2>2, <2>4, <2>5 DEF Moved, MovedGrn
<1> QED
  BY <1>2, <1>3, <1>4, <1>5, BalancedStep

\* Reading a total changes nothing that is owed.
LEMMA ReadExplained ==
  ASSUME OrderInv, OrderInv', LedgerExplained, ~disturbed, NEW w \in Worker,
         ReadPoLedger(w) \/ ReadGrnLedger(w)
  PROVE  LedgerExplained'
<1>1. PICK label \in {"readPo", "readGrn"}, next \in {"writePo", "writeGrn"} :
        /\ at[w] = label /\ (label = "readPo") = (next = "writePo")
        /\ \E ledger : job' = [job EXCEPT ![w].po = ledger]
        /\ at' = [at EXCEPT ![w] = next] /\ UNCHANGED storeVars
  <2>1. CASE ReadPoLedger(w)
    BY <2>1 DEF ReadPoLedger, ReadLedger, Goto
  <2>2. CASE ReadGrnLedger(w)
    BY <2>2 DEF ReadGrnLedger, ReadLedger, Goto
  <2> QED
    BY <2>1, <2>2
<1>2. /\ at \in [Worker -> Lines] /\ job \in [Worker -> JobRec]
      /\ UNCHANGED <<alloc, poLedger, grnLedger>>
  BY <1>1 DEF OrderInv, ShapeInv, storeVars
<1>3. /\ \A v \in Worker \ {w} : at'[v] = at[v] /\ job'[v] = job[v]
      /\ at'[w] = next
  BY <1>1, <1>2
<1>4. job'[w].items = job[w].items /\ job'[w].grn = job[w].grn
  BY <1>1, <1>2 DEF JobRec
<1>5. ASSUME NEW s \in Sku
      PROVE  /\ Owing(at'[w], job'[w], s) = Owing(at[w], job[w], s)
             /\ OwingGrn(at'[w], job'[w], s) = OwingGrn(at[w], job[w], s)
  BY <1>1, <1>3, <1>4 DEF Owing, OwingGrn, GivingPo, GivingGrn
<1> QED
  BY <1>2, <1>3, <1>5, RestingStep

\* Only what took of a receipt gives back to one.
ReceiptOwed == \A w \in Worker : at[w] \in GivingGrn => job[w].grn

LEMMA ReceiptStep ==
  ASSUME OrderInv, ReceiptOwed, [ProcurementNext]_procurementVars
  PROVE  ReceiptOwed'
<1>0. at \in [Worker -> Lines] /\ job \in [Worker -> JobRec]
  BY DEF OrderInv, ShapeInv
<1>1. CASE UNCHANGED workerVars
  BY <1>1 DEF workerVars, ReceiptOwed
<1>2. ASSUME NEW w \in Worker, NEW label \in Lines \ GivingGrn, Goto(w, label),
             \A v \in Worker \ {w} : job'[v] = job[v]
      PROVE  ReceiptOwed'
  BY <1>0, <1>2 DEF ReceiptOwed, Goto
<1>3. ASSUME NEW w \in Worker, ReadGrnLedger(w) \/ WritePoLedger(w) PROVE ReceiptOwed'
  <2>1. /\ \A v \in Worker \ {w} : at'[v] = at[v] /\ job'[v].grn = job[v].grn
        /\ job'[w].grn = job[w].grn
        /\ at'[w] \in GivingGrn => at[w] \in GivingGrn \/ job[w].grn
    BY <1>0, <1>3 DEF ReadGrnLedger, ReadLedger, WritePoLedger, Goto, GivingGrn, JobRec
  <2> QED
    BY <2>1 DEF ReceiptOwed
<1>4. ASSUME NEW w \in Worker, NEW j, job' = [job EXCEPT ![w] = j]
      PROVE  \A v \in Worker \ {w} : job'[v] = job[v]
  BY <1>0, <1>4
<1>5. {"idle", "evaluate", "allocate", "mark", "done", "readPo", "writePo"}
        \subseteq Lines \ GivingGrn
  BY DEF Lines, GivingPo, GivingGrn
<1>6. ASSUME NEW w \in Worker, Calls(w) PROVE ReceiptOwed'
  <2>1. CASE \E i \in Invoice : BeginRelease(w, i)
    BY <1>2, <1>4, <1>5, <2>1 DEF BeginRelease
  <2>2. CASE \E i \in Invoice, items \in Request, grn \in BOOLEAN :
               BeginEvaluation(w, i, items, grn)
    BY <1>2, <1>4, <1>5, <2>2 DEF BeginEvaluation
  <2>3. CASE \E i \in Invoice, items \in Request, grn \in BOOLEAN :
               BeginAllocation(w, i, items, grn)
    BY <1>2, <1>4, <1>5, <2>3 DEF BeginAllocation
  <2> QED
    BY <1>6, <2>1, <2>2, <2>3 DEF Calls
<1>7. ASSUME NEW w \in Worker, ProcurementStep(w) PROVE ReceiptOwed'
  <2>1. ASSUME NEW v, Finish(w, v) PROVE ReceiptOwed'
    BY <1>0, <1>2, <1>5, <2>1 DEF Finish
  <2>2. CASE EvaluateLineItems(w)
    BY <1>2, <1>5, <2>1, <2>2 DEF EvaluateLineItems
  <2>3. CASE AllocateProcurement(w) \/ AllocationError(w)
    BY <2>1, <2>3 DEF AllocateProcurement, AllocationError
  <2>4. CASE MarkReleased(w)
    BY <1>2, <1>5, <2>4 DEF MarkReleased
  <2>5. CASE ReadPoLedger(w)
    BY <1>0, <1>2, <1>5, <2>5 DEF ReadPoLedger, ReadLedger
  <2>6. CASE WriteGrnLedger(w)
    BY <1>2, <1>5, <2>6 DEF WriteGrnLedger
  <2>7. CASE Return(w)
    BY <1>2, <1>4, <1>5, <2>7 DEF Return
  <2> QED
    BY <1>3, <1>7, <2>2, <2>3, <2>4, <2>5, <2>6, <2>7 DEF ProcurementStep
<1>8. ASSUME NEW w \in Worker, Crash(w) PROVE ReceiptOwed'
  BY <1>2, <1>4, <1>5, <1>8 DEF Crash
<1>9. ASSUME NEW w \in Worker, Orders(w) PROVE ReceiptOwed'
  BY <1>1, <1>9 DEF Orders, CreatePurchaseOrder, CreateOtherOrder,
                    AmendPurchaseOrder, RecordGrnReceipt, AdjustGrnReturns
<1> QED
  BY <1>1, <1>6, <1>7, <1>8, <1>9 DEF ProcurementNext, procurementVars

\* A total nobody changed since it was read has room for what is given back:
\* it counts that release among those that owe.
LEMMA WriteExplained ==
  ASSUME OrderInv, OrderInv', LedgerExplained, ReceiptOwed, ~disturbed',
         NEW w \in Worker, WritePoLedger(w) \/ WriteGrnLedger(w)
  PROVE  LedgerExplained'
<1>1. PICK i \in Invoice : TRUE
  BY ProcurementAssumption
<1>2. /\ at \in [Worker -> Lines] /\ job[w] \in JobRec /\ job[w].items \in Request
      /\ poLedger \in Quantity /\ grnLedger \in Quantity
      /\ ~disturbed /\ UNCHANGED <<alloc, job>>
  BY DEF OrderInv, ShapeInv, ItemsInv, ItemsOf, WritePoLedger, WriteGrnLedger
<1>3. Touches(w, i)
  BY <1>2 DEF Touches, WritePoLedger, WriteGrnLedger, Goto
<1>4. ASSUME NEW s \in Sku
      PROVE  /\ poLedger'[s] = poLedger[s] + Moved(w, i, s)
             /\ grnLedger'[s] = grnLedger[s] + MovedGrn(w, i, s)
  <2> DEFINE units == UnitsOf(job[w].items, s)
  <2>1. /\ units \in Nat /\ poLedger[s] \in Nat /\ grnLedger[s] \in Nat
        /\ Held(alloc[i], s) \in Nat /\ HeldGrn(alloc[i], s) \in Nat
        /\ Taken(s) \in Nat /\ Received(s) \in Nat
        /\ Owed(s) \in Nat /\ Owing(at[w], job[w], s) <= Owed(s)
        /\ OwedGrn(s) \in Nat /\ OwingGrn(at[w], job[w], s) <= OwedGrn(s)
        /\ Owing(at[w], job[w], s) \in Nat /\ OwingGrn(at[w], job[w], s) \in Nat
    BY <1>2, <1>3, UnitsCounted, Accounts DEF Quantity, Touches
  <2>2. /\ poLedger[s] = Taken(s) + Owed(s)
        /\ grnLedger[s] = Received(s) + OwedGrn(s)
    BY <1>2 DEF LedgerExplained
  <2>3. CASE WritePoLedger(w)
    <3>1. /\ at[w] = "writePo" /\ poLedger = job[w].po /\ poLedger' = GivenBack(w)
          /\ grnLedger' = grnLedger /\ at'[w] = IF job[w].grn THEN "readGrn" ELSE "done"
      BY <1>2, <2>3 DEF WritePoLedger, Goto
    <3>2. /\ Owing(at[w], job[w], s) = units
          /\ Owing(at'[w], job'[w], s) = 0
          /\ OwingGrn(at'[w], job'[w], s) = OwingGrn(at[w], job[w], s)
      BY <1>2, <3>1 DEF Owing, OwingGrn, GivingPo, GivingGrn
    <3>3. poLedger'[s] = poLedger[s] - units
      <4>1. poLedger'[s] = Larger(0, poLedger[s] - units)
        BY <3>1 DEF GivenBack
      <4>2. poLedger[s] >= units
        BY <2>1, <2>2, <3>2
      <4> QED
        BY <2>1, <4>1, <4>2 DEF Larger
    <3> QED
      BY <1>2, <2>1, <3>1, <3>2, <3>3 DEF Moved, MovedGrn
  <2>4. CASE WriteGrnLedger(w)
    <3>1. /\ at[w] = "writeGrn" /\ grnLedger = job[w].po /\ grnLedger' = GivenBack(w)
          /\ poLedger' = poLedger /\ at'[w] = "done"
      BY <1>2, <2>4 DEF WriteGrnLedger, Goto
    <3>2. /\ OwingGrn(at[w], job[w], s) = units
          /\ Owing(at[w], job[w], s) = 0
          /\ Owing(at'[w], job'[w], s) = 0 /\ OwingGrn(at'[w], job'[w], s) = 0
      BY <1>2, <3>1 DEF ReceiptOwed, Owing, OwingGrn, GivingPo, GivingGrn
    <3>3. grnLedger'[s] = grnLedger[s] - units
      <4>1. grnLedger'[s] = Larger(0, grnLedger[s] - units)
        BY <3>1 DEF GivenBack
      <4>2. grnLedger[s] >= units
        BY <2>1, <2>2, <3>2
      <4> QED
        BY <2>1, <4>1, <4>2 DEF Larger
    <3> QED
      BY <1>2, <2>1, <3>1, <3>2, <3>3 DEF Moved, MovedGrn
  <2> QED
    BY <2>3, <2>4
<1> QED
  BY <1>2, <1>3, <1>4, BalancedStep

LEMMA AllocateExplained ==
  ASSUME OrderInv, OrderInv', LedgerExplained, ~disturbed, NEW w \in Worker,
         AllocateProcurement(w) \/ AllocationError(w)
  PROVE  LedgerExplained'
<1>1. /\ at[w] = "allocate"
      /\ \E v \in {"none", "compliant", "exception"} : Finish(w, v)
      /\ \/ UNCHANGED storeVars
         \/ ~Active(alloc[job[w].inv]) /\ Reserve(w)
  BY DEF AllocateProcurement, AllocationError
<1>2. PICK j \in JobRec : /\ job' = [job EXCEPT ![w] = j]
                          /\ at' = [at EXCEPT ![w] = "done"]
  BY <1>1, FinishStep
<1>3. at[w] \notin GivingPo \cup GivingGrn
  BY <1>1 DEF GivingPo, GivingGrn
<1>4. CASE UNCHANGED storeVars
  BY <1>2, <1>3, <1>4, EndingExplained DEF storeVars
<1>5. CASE ~Active(alloc[job[w].inv]) /\ Reserve(w)
  BY <1>1, <1>2, <1>5, ReserveExplained
<1> QED
  BY <1>1, <1>4, <1>5

LEMMA EvaluateExplained ==
  ASSUME OrderInv, OrderInv', LedgerExplained, ~disturbed, NEW w \in Worker,
         EvaluateLineItems(w)
  PROVE  LedgerExplained'
<1>1. at[w] = "evaluate" /\ UNCHANGED <<alloc, poLedger, grnLedger>>
  BY DEF EvaluateLineItems, storeVars
<1>2. at[w] \notin GivingPo \cup GivingGrn
  BY <1>1 DEF GivingPo, GivingGrn
<1>3. CASE Finish(w, "exception")
  BY <1>1, <1>2, <1>3, FinishStep, EndingExplained
<1>4. CASE Goto(w, "allocate") /\ UNCHANGED job
  <2>1. job' = [job EXCEPT ![w] = job[w]] /\ at' = [at EXCEPT ![w] = "allocate"]
    BY <1>4 DEF Goto, OrderInv, ShapeInv
  <2> QED
    BY <1>1, <1>2, <2>1, EndingExplained
<1> QED
  BY <1>3, <1>4 DEF EvaluateLineItems

LEMMA CrashExplained ==
  ASSUME OrderInv, OrderInv', LedgerExplained, ~disturbed', NEW w \in Worker, Crash(w)
  PROVE  LedgerExplained'
<1>1. /\ ~disturbed /\ at[w] \notin GivingPo \cup GivingGrn
      /\ at' = [at EXCEPT ![w] = "idle"] /\ job' = [job EXCEPT ![w] = NoJob]
      /\ UNCHANGED <<alloc, poLedger, grnLedger>>
  BY DEF Crash, Goto
<1> QED
  BY <1>1, EndingExplained

LEMMA ReturnExplained ==
  ASSUME OrderInv, OrderInv', LedgerExplained, ~disturbed, NEW w \in Worker, Return(w)
  PROVE  LedgerExplained'
<1>1. /\ at[w] = "done"
      /\ at' = [at EXCEPT ![w] = "idle"] /\ job' = [job EXCEPT ![w] = NoJob]
      /\ UNCHANGED <<alloc, poLedger, grnLedger>>
  BY DEF Return, Goto, storeVars
<1>2. at[w] \notin GivingPo \cup GivingGrn
  BY <1>1 DEF GivingPo, GivingGrn
<1> QED
  BY <1>1, <1>2, EndingExplained

\* A lost update is never forgotten.
LEMMA DisturbedStays ==
  ASSUME [ProcurementNext]_procurementVars, disturbed PROVE disturbed'
<1>1. CASE UNCHANGED disturbed
  BY <1>1
<1>2. ASSUME NEW w \in Worker, Orders(w) \/ Calls(w) PROVE UNCHANGED disturbed
  BY <1>2 DEF Orders, Calls, CreatePurchaseOrder, CreateOtherOrder, AmendPurchaseOrder,
              RecordGrnReceipt, AdjustGrnReturns, BeginRelease, BeginEvaluation,
              BeginAllocation, storeVars
<1>3. ASSUME NEW w \in Worker, ProcurementStep(w) PROVE disturbed'
  BY <1>3 DEF ProcurementStep, EvaluateLineItems, AllocateProcurement, AllocationError,
              Reserve, MarkReleased, ReadPoLedger, ReadGrnLedger, ReadLedger,
              WritePoLedger, WriteGrnLedger, Return, storeVars
<1>4. ASSUME NEW w \in Worker, Crash(w) PROVE disturbed'
  BY <1>4 DEF Crash
<1> QED
  BY <1>1, <1>2, <1>3, <1>4 DEF ProcurementNext, procurementVars, storeVars

LEMMA ExplainedStep ==
  ASSUME OrderInv, OrderInv', LedgerExplained, ReceiptOwed,
         [ProcurementNext]_procurementVars
  PROVE  LedgerExplained'
<1>1. CASE disturbed'
  BY <1>1 DEF LedgerExplained
<1>2. CASE ~disturbed' /\ ProcurementNext
  <2>1. ~disturbed
    BY <1>2, DisturbedStays
  <2>2. PICK w \in Worker : Orders(w) \/ Calls(w) \/ ProcurementStep(w) \/ Crash(w)
    BY <1>2 DEF ProcurementNext
  <2>3. CASE Orders(w) \/ Calls(w) \/ Crash(w)
    BY <1>2, <2>1, <2>3, OrdersExplained, CallsExplained, CrashExplained
  <2>4. CASE ProcurementStep(w)
    BY <1>2, <2>1, <2>4, EvaluateExplained, AllocateExplained, MarkExplained,
       ReadExplained, WriteExplained, ReturnExplained DEF ProcurementStep
  <2> QED
    BY <2>2, <2>3, <2>4
<1>3. CASE UNCHANGED procurementVars
  BY <1>3 DEF procurementVars, registryVars, storeVars, workerVars, LedgerExplained,
              Taken, Received, Owed, OwedGrn
<1> QED
  BY <1>1, <1>2, <1>3

LEMMA InitExplained == ProcurementInit => LedgerExplained /\ ReceiptOwed
<1> SUFFICES ASSUME ProcurementInit PROVE LedgerExplained /\ ReceiptOwed
  OBVIOUS
<1>1. /\ at = [w \in Worker |-> "idle"] /\ job = [w \in Worker |-> NoJob]
      /\ alloc = [i \in Invoice |-> NoAllocation]
      /\ poLedger = [s \in Sku |-> 0] /\ grnLedger = [s \in Sku |-> 0]
  BY DEF ProcurementInit
<1>2. ReceiptOwed
  BY <1>1 DEF ReceiptOwed, GivingGrn
<1>3. ASSUME NEW s \in Sku
      PROVE Taken(s) = 0 /\ Received(s) = 0 /\ Owed(s) = 0 /\ OwedGrn(s) = 0
  <2> DEFINE held == [i \in Invoice |-> Held(alloc[i], s)]
             grn == [i \in Invoice |-> HeldGrn(alloc[i], s)]
             owed == [w \in Worker |-> Owing(at[w], job[w], s)]
             owedGrn == [w \in Worker |-> OwingGrn(at[w], job[w], s)]
  <2>1. \A i \in Invoice : held[i] = 0 /\ grn[i] = 0
    BY <1>1 DEF Held, HeldGrn, Active, NoAllocation
  <2>2. \A w \in Worker : owed[w] = 0 /\ owedGrn[w] = 0
    BY <1>1, NothingOwed DEF GivingPo, GivingGrn
  <2>3. /\ held \in [Invoice -> Nat] /\ grn \in [Invoice -> Nat]
        /\ owed \in [Worker -> Nat] /\ owedGrn \in [Worker -> Nat]
    BY <2>1, <2>2
  <2>4. /\ Taken(s) = SumFunction(held) /\ Received(s) = SumFunction(grn)
        /\ Owed(s) = SumFunction(owed) /\ OwedGrn(s) = SumFunction(owedGrn)
    BY DEF Taken, Received, Owed, OwedGrn
  <2> HIDE DEF held, grn, owed, owedGrn
  <2> QED
    BY <2>1, <2>2, <2>3, <2>4, CountNothing, ProcurementAssumption
<1>4. LedgerExplained
  BY <1>1, <1>3 DEF LedgerExplained
<1> QED
  BY <1>2, <1>4

\* The totals kept of an order and of a receipt are, unit by unit, what active
\* reservations hold and what releases under way owe, while no release met
\* another update of the same total.
THEOREM TotalsExplained == ProcurementSpec => []LedgerExplained
<1>1. /\ OrderInv /\ OrderInv' /\ LedgerExplained /\ ReceiptOwed
      /\ [ProcurementNext]_procurementVars
      => LedgerExplained' /\ ReceiptOwed'
  BY ExplainedStep, ReceiptStep
<1> QED
  BY InitExplained, OrderInvariant, <1>1, PTL DEF ProcurementSpec

\* All active reservations together take no more than the order was ever made
\* out for, for any number of invoices, processes and amendments.
THEOREM NoOverAllocated == ProcurementSpec => []NoOverAllocation
<1>1. OrderInv /\ LedgerExplained => NoOverAllocation
  <2> SUFFICES ASSUME OrderInv, LedgerExplained, ~disturbed, ~substituted, NEW s \in Sku
               PROVE  Taken(s) <= ceiling[s]
    BY DEF NoOverAllocation
  <2> DEFINE held == [i \in Invoice |-> Held(alloc[i], s)]
             owed == [w \in Worker |-> Owing(at[w], job[w], s)]
  <2>1. held \in [Invoice -> Nat]
    BY CountedAllocation DEF OrderInv, ShapeInv, ItemsInv
  <2>2. owed \in [Worker -> Nat]
    BY CountedRelease DEF OrderInv, ShapeInv, ItemsInv, ItemsOf
  <2>3. Taken(s) = SumFunction(held) /\ Owed(s) = SumFunction(owed)
    BY DEF Taken, Owed
  <2> HIDE DEF held, owed
  <2>4. Taken(s) \in Nat /\ Owed(s) \in Nat
    BY <2>1, <2>2, <2>3, CountSum, ProcurementAssumption
  <2>5. poLedger[s] = Taken(s) + Owed(s) /\ poLedger[s] <= ceiling[s]
    BY DEF LedgerExplained, OrderInv, BoundInv, UpTo
  <2>6. ceiling[s] \in Nat
    BY DEF OrderInv, ShapeInv, Quantity
  <2> QED
    BY <2>4, <2>5, <2>6
<1> QED
  BY <1>1, OrderInvariant, TotalsExplained, PTL
=============================================================================
