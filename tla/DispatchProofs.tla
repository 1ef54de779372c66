--------------------------- MODULE DispatchProofs ---------------------------
(***************************************************************************)
(* Proofs about PaymentDispatch, for every set of workers, provider keys   *)
(* and snapshots, any number of calls and any mix of gateway outcomes,     *)
(* store faults, crashes and lapsing leases: what dispatch may never do,   *)
(* and what it records and answers, that SETTLED and SUCCESS mean a payout,*)
(* that statuses follow the transition matrix, and that PaymentDispatch    *)
(* implements PayoutOnce.  The second part holds while no holder outlives  *)
(* a lease, no submission is refused and nothing is replayed, as each      *)
(* theorem says.                                                           *)
(***************************************************************************)
EXTENDS DispatchInvariant, DispatchRefinement, TLAPS

-----------------------------------------------------------------------------
(***************************************************************************)
(* Types.                                                                  *)
(***************************************************************************)
\* The factory builds a well-formed record.
LEMMA FreshIntentType ==
  ASSUME NEW k \in ProviderKey, NEW s \in Snapshot, NEW c \in Clearance
  PROVE  FreshIntent(k, s, c) \in Record
BY DispatchAssumption DEF FreshIntent, Record, PaymentState

\* So is the absent intent, the value of an idle call's object.
LEMMA NoIntentType == NoIntent \in Record
BY DEF NoIntent, Record

\* So does an update, of a stored intent or of none.
LEMMA UpdateType ==
  ASSUME intent \in Record, NEW s \in PaymentState, UpdateIntent(s)
  PROVE  intent' \in Record
<1>1. CASE Exists
  <2>1. intent' = [intent EXCEPT !.status = s, !.version = intent.version + 1]
    BY <1>1 DEF UpdateIntent
  <2>2. intent' = [status |-> s, version |-> intent.version + 1,
                   key |-> intent.key, snap |-> intent.snap,
                   cleared |-> intent.cleared]
    BY <2>1 DEF Record
  <2> QED BY <2>2 DEF Record
<1>2. CASE ~Exists
  BY <1>2 DEF UpdateIntent
<1> QED BY <1>1, <1>2

\* The gateway keeps its books in order.
LEMMA GatewayType ==
  ASSUME TypeOK, NEW k \in ProviderKey, NEW o \in Outcome, Gateway(k, o)
  PROVE  /\ bank' \in [ProviderKey -> PayoutState]
         /\ inflight' \subseteq ProviderKey
BY DEF TypeOK, Gateway, PayoutState

\* The types hold initially.
LEMMA TypeInit == Init => TypeOK
<1> SUFFICES ASSUME Init PROVE TypeOK
  OBVIOUS
<1>1. intent \in Record
  <2>1. CASE Preregistered
    BY <2>1, FreshIntentType DEF Init
  <2>2. CASE ~Preregistered
    BY <2>2, NoIntentType DEF Init
  <2> QED BY <2>1, <2>2
<1>2. mine \in [Worker -> Record]
  BY NoIntentType DEF Init
<1>3. pc \in [Worker -> Label] /\ drawn \subseteq ProviderKey
  BY DEF Init, Label
<1>4. /\ lease \in Worker \cup {None, Orphan}
      /\ outbox \in [Worker -> {"none", "PENDING", "PROCESSING", "COMPLETED",
                               "AMBIGUOUS"}]
      /\ bank \in [ProviderKey -> PayoutState]
  BY DEF Init, PayoutState
<1>5. /\ inflight \subseteq ProviderKey
      /\ forked \in BOOLEAN
      /\ reply \in [Worker -> {"none", "SUCCESS", "AMBIGUOUS", "ERROR"}]
      /\ calls \in [Worker -> Nat]
  BY DEF Init
<1> QED BY <1>1, <1>2, <1>3, <1>4, <1>5 DEF TypeOK

\* No action leaves the types; one step per action.
LEMMA TypeStep == TypeOK /\ Keyed /\ [Next]_vars => TypeOK'
<1> SUFFICES ASSUME TypeOK, Keyed, Next PROVE TypeOK'
  BY DEF TypeOK, vars
<1> USE DispatchAssumption DEF Goto, Answer, At, CallUnchanged
<1>1. ASSUME NEW w \in Worker, Start(w) PROVE TypeOK'
  <2>1. ASSUME NEW s \in Snapshot, NEW c \in Clearance, NEW k \in ProviderKey, CreateIntent(w, s, c, k)
        PROVE TypeOK'
    BY <2>1, FreshIntentType DEF TypeOK, Label, CreateIntent, BeginCall
  <2>2. ASSUME NEW s \in Snapshot, FetchIntent(w, s) PROVE TypeOK'
    BY <2>2 DEF TypeOK, Label, FetchIntent, BeginCall
  <2>3. ASSUME NEW s \in Snapshot, MaterialConflict(w, s) PROVE TypeOK'
    BY <2>3 DEF TypeOK, Label, MaterialConflict, BeginCall
  <2>4. CASE RequestRecovery(w)
    BY <2>4 DEF TypeOK, Label, RequestRecovery, BeginCall
  <2> QED BY <1>1, <2>1, <2>2, <2>3, <2>4 DEF Start
<1>2. ASSUME NEW w \in Worker, Prepare(w) PROVE TypeOK'
  <2>1. CASE ReturnCached(w)
    BY <2>1, NoIntentType DEF TypeOK, Label, ReturnCached, Return
  <2>2. CASE FenceIndeterminate(w)
    BY <2>2 DEF TypeOK, Label, FenceIndeterminate
  <2>3. CASE RejectUncleared(w)
    BY <2>3, NoIntentType DEF TypeOK, Label, RejectUncleared, Return
  <2>4. CASE Proceed(w)
    BY <2>4 DEF TypeOK, Label, Proceed
  <2>5. CASE SaveIntent(w)
    BY <2>5 DEF TypeOK, Label, SaveIntent
  <2>6. CASE SaveOutboxItem(w)
    BY <2>6 DEF TypeOK, Label, SaveOutboxItem
  <2>7. CASE Bypass(w)
    <3>1. intent' \in Record
      BY <2>7, UpdateType DEF TypeOK, PaymentState, Bypass
    <3> QED BY <2>7, <3>1 DEF TypeOK, Label, Bypass
  <2>8. CASE CloseBypass(w)
    BY <2>8, NoIntentType DEF TypeOK, Label, CloseBypass, Return
  <2>9. CASE FirstAttempt(w)
    BY <2>9 DEF TypeOK, Label, FirstAttempt, AcquireLease
  <2>10. CASE SecondAttempt(w)
    BY <2>10 DEF TypeOK, Label, SecondAttempt, AcquireLease
  <2>11. CASE PollSeesSettled(w)
    BY <2>11, NoIntentType DEF TypeOK, Label, PollSeesSettled, Return
  <2>12. CASE PollExhausted(w)
    BY <2>12 DEF TypeOK, Label, PollExhausted
  <2>13. CASE LeaseConflict(w)
    BY <2>13, NoIntentType DEF TypeOK, Label, LeaseConflict, Return
  <2> QED BY <1>2, <2>1, <2>2, <2>3, <2>4, <2>5, <2>6, <2>7, <2>8, <2>9, <2>10,
      <2>11, <2>12, <2>13 DEF Prepare
<1>3. ASSUME NEW w \in Worker, Execute(w) PROVE TypeOK'
  <2>1. CASE Recheck(w)
    BY <2>1 DEF TypeOK, Label, Recheck, Leave
  <2>2. CASE MarkProcessing(w)
    BY <2>2 DEF TypeOK, Label, MarkProcessing
  <2>3. CASE Claim(w)
    <3>1. intent' \in Record
      BY <2>3, UpdateType DEF TypeOK, PaymentState, Claim
    <3> QED BY <2>3, <3>1 DEF TypeOK, Label, Claim
  <2>4. CASE ClaimLost(w)
    <3>1. intent' \in Record
      BY <2>4, UpdateType DEF TypeOK, PaymentState, ClaimLost
    <3> QED BY <2>4, <3>1 DEF TypeOK, Label, ClaimLost
  <2>5. CASE Reread(w)
    BY <2>5 DEF TypeOK, Label, Reread, Leave
  <2>6. ASSUME NEW o \in Outcome, Submit(w, o) PROVE TypeOK'
    <3>1. mine[w].key \in ProviderKey /\ Gateway(mine[w].key, o)
      BY <2>6 DEF Keyed, Submit
    <3>2. /\ bank' \in [ProviderKey -> PayoutState]
          /\ inflight' \subseteq ProviderKey
      BY <3>1, GatewayType
    <3> QED BY <2>6, <3>2 DEF TypeOK, Label, Submit
  <2>7. CASE RecordSettled(w)
    <3>1. intent' \in Record
      BY <2>7, UpdateType DEF TypeOK, PaymentState, RecordSettled, RecordOutcome
    <3> QED BY <2>7, <3>1 DEF TypeOK, Label, RecordSettled, RecordOutcome
  <2>8. CASE RecordUnknown(w)
    <3>1. intent' \in Record
      BY <2>8, UpdateType DEF TypeOK, PaymentState, RecordUnknown, RecordOutcome
    <3> QED BY <2>8, <3>1 DEF TypeOK, Label, RecordUnknown, RecordOutcome
  <2>9. CASE CloseOutboxItem(w)
    BY <2>9 DEF TypeOK, Label, CloseOutboxItem, Leave
  <2>10. CASE ReleaseLease(w)
    BY <2>10, NoIntentType DEF TypeOK, Label, ReleaseLease, Return
  <2> QED BY <1>3, <2>1, <2>2, <2>3, <2>4, <2>5, <2>6, <2>7, <2>8, <2>9,
      <2>10 DEF Execute
<1>4. ASSUME NEW w \in Worker, Reconcile(w) PROVE TypeOK'
  <2>1. CASE QueryConfirms(w)
    BY <2>1 DEF TypeOK, Label, QueryConfirms
  <2>2. CASE QueryInconclusive(w)
    BY <2>2, NoIntentType DEF TypeOK, Label, QueryInconclusive, Return
  <2>3. CASE QueryEmpty(w)
    BY <2>3, NoIntentType DEF TypeOK, Label, QueryEmpty, Return
  <2>4. ASSUME NEW o \in Outcome, Replay(w, o) PROVE TypeOK'
    <3>1. mine[w].key \in ProviderKey /\ Gateway(mine[w].key, o)
      BY <2>4 DEF Keyed, Replay
    <3>2. /\ bank' \in [ProviderKey -> PayoutState]
          /\ inflight' \subseteq ProviderKey
      BY <3>1, GatewayType
    <3> QED BY <2>4, <3>2 DEF TypeOK, Label, Replay
  <2>5. CASE SettleReconciled(w)
    <3>1. intent' \in Record
      BY <2>5, UpdateType DEF TypeOK, PaymentState, SettleReconciled, Return
    <3> QED BY <2>5, <3>1, NoIntentType DEF TypeOK, Label, SettleReconciled,
        Return
  <2> QED BY <1>4, <2>1, <2>2, <2>3, <2>4, <2>5 DEF Reconcile
<1>5. CASE Environment
  <2>1. ASSUME NEW k \in ProviderKey, GatewayLate(k) PROVE TypeOK'
    BY <2>1 DEF TypeOK, PayoutState, GatewayLate, callVars
  <2>2. ASSUME NEW k \in ProviderKey, GatewayResolves(k) PROVE TypeOK'
    BY <2>2 DEF TypeOK, PayoutState, GatewayResolves, callVars
  <2>3. ASSUME NEW w \in Worker, Crash(w) PROVE TypeOK'
    BY <2>3, NoIntentType DEF TypeOK, Label, Crash, Return
  <2>4. CASE LeaseLapses
    BY <2>4 DEF TypeOK, LeaseLapses, callVars
  <2> QED BY <1>5, <2>1, <2>2, <2>3, <2>4 DEF Environment
<1> QED BY <1>1, <1>2, <1>3, <1>4, <1>5 DEF Next
-----------------------------------------------------------------------------
(***************************************************************************)
(* Kinds of steps.  The stored intent, the calls' intent objects and the   *)
(* gateway's books are touched in few ways; every action is of one kind.   *)
(***************************************************************************)
\* The other calls stay where they are.
Others(w) == \A v \in Worker : v # w => pc'[v] = pc[v] /\ mine'[v] = mine[v]

\* The call is no longer one that works for the stored intent.
Off(w) ==
  /\ pc'[w] \notin Bound \cup {"check", "save"}
  /\ pc'[w] = "idle" \/ (pc[w] # "idle" /\ mine'[w] = mine[w])

Settled == UNCHANGED <<bank, inflight, drawn, forked>>

\* A call moves on towards its claim, or towards its replay.
Moves(w) ==
  /\ Others(w) /\ mine'[w] = mine[w]
  /\ \/ /\ pc[w] = "enqueue"
        /\ pc'[w] = IF mine[w].snap \in ZeroSnapshot THEN "bypass" ELSE "lock"
     \/ /\ pc[w] \in PreClaim \ {"enqueue", "bypass"}
        /\ pc'[w] \in PreClaim \ {"enqueue", "bypass"}
     \/ pc[w] = "replayQuery" /\ pc'[w] = "replay"
  /\ Settled /\ UNCHANGED intent

\* A call returns, crashes, or turns to clearing up.
Stops(w) == Others(w) /\ Off(w) /\ Settled /\ UNCHANGED intent

\* A call writes a status as it stops working for the intent.
Writes(w, s) ==
  /\ Others(w) /\ Off(w) /\ Settled
  /\ UpdateIntent(s)
  /\ \/ s = "SETTLED"
     \/ s = "UNKNOWN" /\ pc[w] = "recordUnknown"
     \/ s = "BYPASSED_ZERO_PAYOUT" /\ pc[w] = "bypass"
     \/ s = "SUBMISSION_PENDING" /\ pc[w] = "claim" /\ VersionMatches(w)

\* A call submits its payout.
Pays(w, o) ==
  /\ Others(w) /\ mine'[w] = mine[w]
  /\ Gateway(mine[w].key, o)
  /\ \/ pc[w] = "submit" /\ pc'[w] \in {"recordSettled", "recordUnknown"}
     \/ pc[w] = "replay" /\ Off(w)
  /\ UNCHANGED <<intent, drawn, forked>>

\* The gateway works on what it has; a lease lapses.
Elapses ==
  /\ \A k \in ProviderKey : bank'[k] # "none" \/ k \in inflight' =>
                            bank[k] # "none" \/ k \in inflight
  /\ UNCHANGED <<intent, drawn, forked, pc, mine>>

CallKind(w) ==
  \/ \E s \in Snapshot :
       \/ \E c \in Clearance, k \in ProviderKey : CreateIntent(w, s, c, k)
       \/ FetchIntent(w, s)
  \/ RequestRecovery(w) \/ Proceed(w) \/ SaveIntent(w) \/ Claim(w)
  \/ Moves(w) \/ Stops(w)
  \/ \E s \in PaymentState : Writes(w, s)
  \/ \E o \in Outcome : Pays(w, o)

Kind == (\E w \in Worker : CallKind(w)) \/ Elapses

\* Every step of the system is of one kind, or changes nothing.
LEMMA StepKind == TypeOK /\ [Next]_vars => Kind \/ UNCHANGED vars
<1> SUFFICES ASSUME TypeOK, Next PROVE Kind
  OBVIOUS
<1> USE DEF Goto, Answer, At, CallUnchanged, Others, Settled
<1>1. ASSUME NEW w \in Worker, Start(w) PROVE CallKind(w)
  <2>1. ASSUME NEW s \in Snapshot, NEW c \in Clearance, NEW k \in ProviderKey, CreateIntent(w, s, c, k)
        PROVE CallKind(w)
    BY <2>1 DEF CallKind
  <2>2. ASSUME NEW s \in Snapshot, FetchIntent(w, s) PROVE CallKind(w)
    BY <2>2 DEF CallKind
  <2>3. ASSUME NEW s \in Snapshot, MaterialConflict(w, s) PROVE CallKind(w)
    <3>1. Stops(w)
      BY <2>3 DEF TypeOK, Stops, Off, Bound, PreClaim, MaterialConflict,
          BeginCall
    <3> QED BY <3>1 DEF CallKind
  <2>4. CASE RequestRecovery(w)
    BY <2>4 DEF CallKind
  <2> QED BY <1>1, <2>1, <2>2, <2>3, <2>4 DEF Start
<1>2. ASSUME NEW w \in Worker, Prepare(w) PROVE CallKind(w)
  <2>1. CASE ReturnCached(w)
    <3>1. Stops(w)
      BY <2>1 DEF TypeOK, Stops, Off, Bound, PreClaim, ReturnCached, Return
    <3> QED BY <3>1 DEF CallKind
  <2>2. CASE FenceIndeterminate(w)
    <3>1. Stops(w)
      BY <2>2 DEF TypeOK, Stops, Off, Bound, PreClaim, FenceIndeterminate
    <3> QED BY <3>1 DEF CallKind
  <2>3. CASE RejectUncleared(w)
    <3>1. Stops(w)
      BY <2>3 DEF TypeOK, Stops, Off, Bound, PreClaim, RejectUncleared, Return
    <3> QED BY <3>1 DEF CallKind
  <2>4. CASE Proceed(w)
    BY <2>4 DEF CallKind
  <2>5. CASE SaveIntent(w)
    BY <2>5 DEF CallKind
  <2>6. CASE SaveOutboxItem(w)
    <3>1. Moves(w)
      BY <2>6 DEF TypeOK, Moves, PreClaim, SaveOutboxItem
    <3> QED BY <3>1 DEF CallKind
  <2>7. CASE Bypass(w)
    <3>1. Writes(w, "BYPASSED_ZERO_PAYOUT") \/ Stops(w)
      BY <2>7 DEF TypeOK, Writes, Stops, Off, Bound, PreClaim, Bypass
    <3> QED BY <3>1 DEF CallKind, PaymentState
  <2>8. CASE CloseBypass(w)
    <3>1. Stops(w)
      BY <2>8 DEF TypeOK, Stops, Off, Bound, PreClaim, CloseBypass, Return
    <3> QED BY <3>1 DEF CallKind
  <2>9. CASE FirstAttempt(w)
    <3>1. Moves(w)
      BY <2>9 DEF TypeOK, Moves, PreClaim, FirstAttempt, AcquireLease
    <3> QED BY <3>1 DEF CallKind
  <2>10. CASE SecondAttempt(w)
    <3>1. Moves(w)
      BY <2>10 DEF TypeOK, Moves, PreClaim, SecondAttempt, AcquireLease
    <3> QED BY <3>1 DEF CallKind
  <2>11. CASE PollSeesSettled(w)
    <3>1. Stops(w)
      BY <2>11 DEF TypeOK, Stops, Off, Bound, PreClaim, PollSeesSettled, Return
    <3> QED BY <3>1 DEF CallKind
  <2>12. CASE PollExhausted(w)
    <3>1. Moves(w)
      BY <2>12 DEF TypeOK, Moves, PreClaim, PollExhausted
    <3> QED BY <3>1 DEF CallKind
  <2>13. CASE LeaseConflict(w)
    <3>1. Stops(w)
      BY <2>13 DEF TypeOK, Stops, Off, Bound, PreClaim, LeaseConflict, Return
    <3> QED BY <3>1 DEF CallKind
  <2> QED BY <1>2, <2>1, <2>2, <2>3, <2>4, <2>5, <2>6, <2>7, <2>8, <2>9, <2>10,
      <2>11, <2>12, <2>13 DEF Prepare
<1>3. ASSUME NEW w \in Worker, Execute(w) PROVE CallKind(w)
  <2>1. CASE Recheck(w)
    <3>1. Moves(w) \/ Stops(w)
      BY <2>1 DEF TypeOK, Moves, Stops, Off, Bound, PreClaim, Recheck, Leave
    <3> QED BY <3>1 DEF CallKind
  <2>2. CASE MarkProcessing(w)
    <3>1. Moves(w)
      BY <2>2 DEF TypeOK, Moves, PreClaim, MarkProcessing
    <3> QED BY <3>1 DEF CallKind
  <2>3. CASE Claim(w)
    BY <2>3 DEF CallKind
  <2>4. CASE ClaimLost(w)
    <3>1. Writes(w, "SUBMISSION_PENDING") \/ Stops(w)
      BY <2>4 DEF TypeOK, Writes, Stops, Off, Bound, PreClaim, ClaimLost
    <3> QED BY <3>1 DEF CallKind, PaymentState
  <2>5. CASE Reread(w)
    <3>1. Stops(w)
      BY <2>5 DEF TypeOK, Stops, Off, Bound, PreClaim, Reread, Leave
    <3> QED BY <3>1 DEF CallKind
  <2>6. ASSUME NEW o \in Outcome, Submit(w, o) PROVE CallKind(w)
    <3>1. Pays(w, o)
      BY <2>6 DEF TypeOK, Pays, Off, Bound, PreClaim, Submit
    <3> QED BY <3>1 DEF CallKind
  <2>7. CASE RecordSettled(w)
    <3>1. Writes(w, "SETTLED") \/ Stops(w)
      BY <2>7 DEF TypeOK, Writes, Stops, Off, Bound, PreClaim, RecordSettled,
          RecordOutcome
    <3> QED BY <3>1 DEF CallKind, PaymentState
  <2>8. CASE RecordUnknown(w)
    <3>1. Writes(w, "UNKNOWN") \/ Stops(w)
      BY <2>8 DEF TypeOK, Writes, Stops, Off, Bound, PreClaim, RecordUnknown,
          RecordOutcome
    <3> QED BY <3>1 DEF CallKind, PaymentState
  <2>9. CASE CloseOutboxItem(w)
    <3>1. Stops(w)
      BY <2>9 DEF TypeOK, Stops, Off, Bound, PreClaim, CloseOutboxItem, Leave
    <3> QED BY <3>1 DEF CallKind
  <2>10. CASE ReleaseLease(w)
    <3>1. Stops(w)
      BY <2>10 DEF TypeOK, Stops, Off, Bound, PreClaim, ReleaseLease, Return
    <3> QED BY <3>1 DEF CallKind
  <2> QED BY <1>3, <2>1, <2>2, <2>3, <2>4, <2>5, <2>6, <2>7, <2>8, <2>9,
      <2>10 DEF Execute
<1>4. ASSUME NEW w \in Worker, Reconcile(w) PROVE CallKind(w)
  <2>1. CASE QueryConfirms(w)
    <3>1. Stops(w)
      BY <2>1 DEF TypeOK, Stops, Off, Bound, PreClaim, QueryConfirms, Querying
    <3> QED BY <3>1 DEF CallKind
  <2>2. CASE QueryInconclusive(w)
    <3>1. Stops(w)
      BY <2>2 DEF TypeOK, Stops, Off, Bound, PreClaim, QueryInconclusive, Return
    <3> QED BY <3>1 DEF CallKind
  <2>3. CASE QueryEmpty(w)
    <3>1. Moves(w) \/ Stops(w)
      BY <2>3 DEF TypeOK, Moves, Stops, Off, Bound, PreClaim, QueryEmpty, Return
    <3> QED BY <3>1 DEF CallKind
  <2>4. ASSUME NEW o \in Outcome, Replay(w, o) PROVE CallKind(w)
    <3>1. Pays(w, o)
      BY <2>4 DEF TypeOK, Pays, Off, Bound, PreClaim, Replay
    <3> QED BY <3>1 DEF CallKind
  <2>5. CASE SettleReconciled(w)
    <3>1. Writes(w, "SETTLED") \/ Stops(w)
      BY <2>5 DEF TypeOK, Writes, Stops, Off, Bound, PreClaim,
          SettleReconciled, Return
    <3> QED BY <3>1 DEF CallKind, PaymentState
  <2> QED BY <1>4, <2>1, <2>2, <2>3, <2>4, <2>5 DEF Reconcile
<1>5. ASSUME Environment PROVE Kind
  <2>1. ASSUME NEW k \in ProviderKey, GatewayLate(k) PROVE Elapses
    BY <2>1 DEF TypeOK, GatewayLate, Elapses, callVars
  <2>2. ASSUME NEW k \in ProviderKey, GatewayResolves(k) PROVE Elapses
    BY <2>2 DEF TypeOK, GatewayResolves, Elapses, callVars
  <2>3. ASSUME NEW w \in Worker, Crash(w) PROVE CallKind(w)
    <3>1. Stops(w)
      BY <2>3 DEF TypeOK, Stops, Off, Bound, PreClaim, Crash, Return
    <3> QED BY <3>1 DEF CallKind
  <2>4. CASE LeaseLapses
    BY <2>4 DEF LeaseLapses, Elapses, callVars, Kind
  <2> QED BY <1>5, <2>1, <2>2, <2>3, <2>4 DEF Environment, Kind
<1> QED BY <1>1, <1>2, <1>3, <1>4, <1>5 DEF Next, Kind
-----------------------------------------------------------------------------
(***************************************************************************)
(* The inductive invariant.                                                *)
(***************************************************************************)
\* An update keeps the stored key, snapshot and clearance, and counts up.
LEMMA UpdateFields ==
  ASSUME intent \in Record, NEW s \in PaymentState, UpdateIntent(s)
  PROVE  /\ Exists' <=> Exists
         /\ ~Exists => intent' = intent
         /\ Exists => intent'.status = s /\ intent'.version = intent.version + 1
         /\ intent'.key = intent.key
         /\ intent'.snap = intent.snap
         /\ intent'.cleared = intent.cleared
<1>1. CASE Exists
  <2>1. intent' = [intent EXCEPT !.status = s, !.version = intent.version + 1]
    BY <1>1 DEF UpdateIntent
  <2>2. intent' = [status |-> s, version |-> intent.version + 1,
                   key |-> intent.key, snap |-> intent.snap,
                   cleared |-> intent.cleared]
    BY <2>1 DEF Record
  <2> QED BY <1>1, <2>2 DEF Exists, PaymentState
<1>2. CASE ~Exists
  BY <1>2 DEF UpdateIntent, Exists
<1> QED BY <1>1, <1>2

\* Initially no call runs, so the parts hold of the preregistered intent alone.
LEMMA InvInit == Init => Keyed /\ StoredInv /\ LeaseInv
<1> SUFFICES ASSUME Init PROVE Keyed /\ StoredInv /\ LeaseInv
  OBVIOUS
<1>1. /\ \A w \in Worker : pc[w] = "idle"
      /\ \A k \in ProviderKey : bank[k] = "none" /\ k \notin inflight
  BY DEF Init
<1>2. /\ Exists => intent.key \in ProviderKey
      /\ StatusInv /\ intent.status # "FAILED"
  BY DEF Init, FreshIntent, NoIntent, Exists, StatusInv
<1>3. Keyed /\ LeaseInv
  BY <1>1, <1>2 DEF Keyed, At, LeaseInv, CriticalSection
<1>4. ReadInv /\ DistinctInv /\ BoundInv
  BY <1>1 DEF ReadInv, DistinctInv, BoundInv, Reading, Bound, PreClaim
<1>5. BankInv /\ FenceInv /\ ClaimInv
  BY <1>1 DEF BankInv, FenceInv, ClaimInv, Claimant, PreClaim
<1> QED BY <1>2, <1>3, <1>4, <1>5 DEF StoredInv, Parts

\* Provider keys travel from intent object to document and back, never None.
LEMMA KeyedStep == TypeOK /\ Keyed /\ [Next]_vars => Keyed'
<1> SUFFICES ASSUME TypeOK, Keyed, Kind PROVE Keyed'
  BY StepKind DEF Keyed, vars, Exists, At
<1> USE DEF Keyed, At
<1>1. ASSUME NEW w \in Worker, CallKind(w) PROVE Keyed'
  <2>1. ASSUME NEW s \in Snapshot, NEW c \in Clearance, NEW k \in ProviderKey,
               CreateIntent(w, s, c, k)
        PROVE  Keyed'
    BY <2>1 DEF CreateIntent, BeginCall, Goto, FreshIntent, Exists, TypeOK
  <2>2. ASSUME NEW s \in Snapshot, FetchIntent(w, s) PROVE Keyed'
    BY <2>2 DEF FetchIntent, BeginCall, Goto, Exists, TypeOK
  <2>3. CASE RequestRecovery(w)
    BY <2>3 DEF RequestRecovery, BeginCall, Goto, Exists, TypeOK, Indeterminate
  <2>4. CASE Proceed(w)
    BY <2>4 DEF Proceed, Goto, Exists, TypeOK
  <2>5. CASE SaveIntent(w)
    BY <2>5 DEF SaveIntent, Goto, Exists, TypeOK
  <2>6. CASE Claim(w)
    <3>1. (Exists' <=> Exists) /\ intent'.key = intent.key
      BY <2>6, UpdateFields DEF Claim, TypeOK, PaymentState
    <3> QED BY <2>6, <3>1 DEF Claim, Goto, TypeOK
  <2>7. CASE Moves(w)
    BY <2>7 DEF Moves, Others, Exists, PreClaim
  <2>8. CASE Stops(w)
    BY <2>8 DEF Stops, Others, Off, Exists
  <2>9. ASSUME NEW s \in PaymentState, Writes(w, s) PROVE Keyed'
    <3>1. (Exists' <=> Exists) /\ intent'.key = intent.key
      BY <2>9, UpdateFields DEF Writes, TypeOK
    <3> QED BY <2>9, <3>1 DEF Writes, Others, Off
  <2>10. ASSUME NEW o \in Outcome, Pays(w, o) PROVE Keyed'
    BY <2>10 DEF Pays, Others, Off, Exists
  <2> QED BY <1>1, <2>1, <2>2, <2>3, <2>4, <2>5, <2>6, <2>7, <2>8, <2>9, <2>10
          DEF CallKind
<1>2. CASE Elapses
  BY <1>2 DEF Elapses, Exists
<1> QED BY <1>1, <1>2 DEF Kind

\* A call that went on with a private intent object is not forgotten.
LEMMA ForkedStays == Kind /\ forked => forked'
BY DEF Kind, CallKind, CreateIntent, FetchIntent, RequestRecovery, BeginCall,
       Proceed, SaveIntent, Claim, Moves, Stops, Writes, Pays, Settled, Elapses

\* Building a new intent object with a fresh key keeps every part.
LEMMA CreateKeeps ==
  ASSUME TypeOK, Keyed, Parts, ~forked', NEW w \in Worker, NEW s \in Snapshot,
         NEW c \in Clearance, NEW k \in ProviderKey, CreateIntent(w, s, c, k)
  PROVE  Parts'
<1> USE DEF Parts
<1>1. mine' = [mine EXCEPT ![w] = FreshIntent(k, s, c)] /\ pc' = [pc EXCEPT ![w] = "check"]
  BY DEF CreateIntent, Goto
<1>2. /\ FreshIntent(k, s, c).key = k /\ FreshIntent(k, s, c).snap = s
      /\ FreshIntent(k, s, c).cleared = c
  BY DEF FreshIntent
<1>3. \A v \in Worker : v # w /\ Reading(v) => mine[v].key # k
  BY DEF ReadInv, Fresh, CreateIntent
<1>4. ReadInv'
  BY <1>1, <1>2, <1>3 DEF TypeOK, ReadInv, Reading, Same, Fresh, Exists,
      CreateIntent, BeginCall, Goto
<1>5. DistinctInv'
  BY <1>1, <1>2, <1>3 DEF TypeOK, DistinctInv, Reading, Exists, CreateIntent,
      BeginCall, Goto
<1>6. BoundInv'
  BY <1>1, <1>2, <1>3 DEF TypeOK, BoundInv, Bound, PreClaim, Same, Exists,
      CreateIntent, BeginCall, Goto
<1>7. StatusInv'
  BY <1>1, <1>2, <1>3 DEF TypeOK, StatusInv, CreateIntent, BeginCall, Goto
<1>8. BankInv'
  BY <1>1, <1>2, <1>3 DEF TypeOK, BankInv, Exists, CreateIntent, BeginCall, Goto
<1>9. FenceInv'
  BY <1>1, <1>2, <1>3 DEF TypeOK, FenceInv, PreClaim, CreateIntent, BeginCall,
      Goto
<1>10. ClaimInv'
  BY <1>1, <1>2, <1>3 DEF TypeOK, ClaimInv, Claimant, CreateIntent, BeginCall,
      Goto
<1> QED BY <1>4, <1>5, <1>6, <1>7, <1>8, <1>9, <1>10

\* Reading the stored intent keeps every part.
LEMMA FetchKeeps ==
  ASSUME TypeOK, Keyed, Parts, ~forked', NEW w \in Worker, NEW s \in Snapshot, FetchIntent(w, s)
  PROVE  Parts'
<1> USE DEF Parts
<1>1. intent.version \in Nat /\ \A v \in Worker : mine[v].version \in Nat
  BY DEF TypeOK, Record
<1>2. ReadInv'
  BY <1>1 DEF TypeOK, ReadInv, Reading, Same, Fresh, Exists, FetchIntent,
      BeginCall, Goto
<1>3. DistinctInv'
  BY <1>1 DEF TypeOK, DistinctInv, Reading, Exists, FetchIntent, BeginCall, Goto
<1>4. BoundInv'
  BY <1>1 DEF TypeOK, BoundInv, Bound, PreClaim, Same, Exists, FetchIntent,
      BeginCall, Goto
<1>5. StatusInv'
  BY <1>1 DEF TypeOK, StatusInv, FetchIntent, BeginCall, Goto
<1>6. BankInv'
  BY <1>1 DEF TypeOK, BankInv, Exists, FetchIntent, BeginCall, Goto
<1>7. FenceInv'
  BY <1>1 DEF TypeOK, FenceInv, PreClaim, FetchIntent, BeginCall, Goto
<1>8. ClaimInv'
  BY <1>1 DEF TypeOK, ClaimInv, Claimant, FetchIntent, BeginCall, Goto
<1> QED BY <1>2, <1>3, <1>4, <1>5, <1>6, <1>7, <1>8

\* Reading it for its recovery does.
LEMMA RecoveryKeeps ==
  ASSUME TypeOK, Keyed, Parts, ~forked', NEW w \in Worker, RequestRecovery(w)
  PROVE  Parts'
<1> USE DEF Parts
<1>1. intent.version \in Nat /\ \A v \in Worker : mine[v].version \in Nat
  BY DEF TypeOK, Record
<1>2. ReadInv'
  BY <1>1 DEF TypeOK, ReadInv, Reading, Same, Fresh, Exists, RequestRecovery,
      BeginCall, Goto, Indeterminate
<1>3. DistinctInv'
  BY <1>1 DEF TypeOK, DistinctInv, Reading, Exists, RequestRecovery, BeginCall,
      Goto, Indeterminate
<1>4. BoundInv'
  BY <1>1 DEF TypeOK, BoundInv, Bound, PreClaim, Same, Exists, RequestRecovery,
      BeginCall, Goto, Indeterminate, StatusInv
<1>5. StatusInv'
  BY <1>1 DEF TypeOK, StatusInv, RequestRecovery, BeginCall, Goto, Indeterminate
<1>6. BankInv'
  BY <1>1 DEF TypeOK, BankInv, Exists, RequestRecovery, BeginCall, Goto,
      Indeterminate
<1>7. FenceInv'
  BY <1>1 DEF TypeOK, FenceInv, PreClaim, RequestRecovery, BeginCall, Goto,
      Indeterminate
<1>8. ClaimInv'
  BY <1>1 DEF TypeOK, ClaimInv, Claimant, RequestRecovery, BeginCall, Goto,
      Indeterminate
<1> QED BY <1>2, <1>3, <1>4, <1>5, <1>6, <1>7, <1>8

\* The second read does: a call that goes on unforked holds the stored key.
LEMMA ProceedKeeps ==
  ASSUME TypeOK, Keyed, Parts, ~forked', NEW w \in Worker, Proceed(w)
  PROVE  Parts'
<1> USE DEF Parts
<1>1. Exists => Same(w) /\ pc' = [pc EXCEPT ![w] = "enqueue"]
  BY DEF ReadInv, Reading, Proceed, Goto, At
<1>2. ~Exists => pc' = [pc EXCEPT ![w] = "save"]
  BY DEF Proceed, Goto
<1>3. Exists => intent.status \in {"READY_FOR_SUBMISSION", "SUBMISSION_PENDING",
                                  "FAILED", "BYPASSED_ZERO_PAYOUT"}
  BY DEF Proceed, Dispatchable, EffectiveStatus, Paid, Indeterminate,
      StatusInv, Exists
<1>4. ReadInv'
  BY <1>1, <1>2, <1>3 DEF TypeOK, ReadInv, Reading, Same, Fresh, Exists,
      Proceed, Dispatchable, EffectiveStatus, Goto, At, CallUnchanged, Paid,
      Indeterminate
<1>5. DistinctInv'
  BY <1>1, <1>2, <1>3 DEF TypeOK, DistinctInv, Reading, Exists, Proceed,
      Dispatchable, EffectiveStatus, Goto, At, CallUnchanged, Paid,
      Indeterminate
<1>6. BoundInv'
  BY <1>1, <1>2, <1>3 DEF TypeOK, BoundInv, Bound, PreClaim, Same, Exists,
      Proceed, Dispatchable, EffectiveStatus, Goto, At, CallUnchanged, Paid,
      Indeterminate
<1>7. StatusInv'
  BY <1>1, <1>2, <1>3 DEF TypeOK, StatusInv, Proceed, Dispatchable,
      EffectiveStatus, Goto, At, CallUnchanged, Paid, Indeterminate
<1>8. BankInv'
  BY <1>1, <1>2, <1>3 DEF TypeOK, BankInv, Exists, Proceed, Dispatchable,
      EffectiveStatus, Goto, At, CallUnchanged, Paid, Indeterminate
<1>9. FenceInv'
  BY <1>1, <1>2, <1>3 DEF TypeOK, FenceInv, PreClaim, Proceed, Dispatchable,
      EffectiveStatus, Goto, At, CallUnchanged, Paid, Indeterminate
<1>10. ClaimInv'
  BY <1>1, <1>2, <1>3 DEF TypeOK, ClaimInv, Claimant, Proceed, Dispatchable,
      EffectiveStatus, Goto, At, CallUnchanged, Paid, Indeterminate
<1> QED BY <1>4, <1>5, <1>6, <1>7, <1>8, <1>9, <1>10

\* The first write does: unforked, nobody had stored an intent before.
LEMMA SaveKeeps ==
  ASSUME TypeOK, Keyed, Parts, ~forked', NEW w \in Worker, SaveIntent(w)
  PROVE  Parts'
<1> USE DEF Parts
<1>1. ~Exists /\ Fresh(w) /\ Reading(w) /\ intent' = mine[w]
  BY DEF SaveIntent, ReadInv, Reading, At
<1>2. /\ intent'.version = 1 /\ mine[w].version = 1 /\ Exists'
      /\ intent'.status = IF mine[w].snap \in ZeroSnapshot
                            THEN "BYPASSED_ZERO_PAYOUT" ELSE "READY_FOR_SUBMISSION"
  BY <1>1 DEF Fresh, FreshIntent, Exists
<1>3. \A v \in Worker : pc[v] \notin Bound
  BY <1>1 DEF BoundInv
<1>4. mine[w].cleared
  BY DEF ReadInv, Reading, SaveIntent, At
<1>5. \A v \in Worker : v # w /\ Reading(v) => mine[v].key # intent'.key
  BY <1>1 DEF DistinctInv
<1>6. /\ mine' = mine /\ pc'[w] = "enqueue" /\ Same(w)'
      /\ \A v \in Worker : v # w => pc'[v] = pc[v]
  BY <1>1, <1>2 DEF TypeOK, SaveIntent, Goto, Same
<1>7. ReadInv'
  BY <1>2, <1>5, <1>6 DEF ReadInv, Reading, Same
<1>8. DistinctInv'
  BY <1>1, <1>2, <1>3, <1>4, <1>5, <1>6 DEF TypeOK, DistinctInv, Reading,
      Exists, SaveIntent, Goto, At, CallUnchanged
<1>9. BoundInv'
  BY <1>2, <1>3, <1>4, <1>6 DEF BoundInv, Bound, PreClaim, Same
<1>10. StatusInv'
  BY <1>1, <1>2, <1>3, <1>4, <1>5, <1>6 DEF TypeOK, StatusInv, SaveIntent,
      Goto, At, CallUnchanged
<1>11. BankInv'
  BY <1>1, <1>2, <1>3, <1>4, <1>5, <1>6 DEF TypeOK, BankInv, Exists,
      SaveIntent, Goto, At, CallUnchanged
<1>12. FenceInv'
  BY <1>1, <1>2, <1>3, <1>4, <1>5, <1>6 DEF TypeOK, FenceInv, PreClaim,
      SaveIntent, Goto, At, CallUnchanged, Bound
<1>13. ClaimInv'
  BY <1>1, <1>2, <1>3, <1>4, <1>5, <1>6 DEF TypeOK, ClaimInv, Claimant,
      SaveIntent, Goto, At, CallUnchanged, Bound
<1> QED BY <1>7, <1>8, <1>9, <1>10, <1>11, <1>12, <1>13

\* The claim does: the winner's version is the stored one, which counts up.
LEMMA ClaimKeeps ==
  ASSUME TypeOK, Keyed, Parts, ~forked', NEW w \in Worker, Claim(w)
  PROVE  Parts'
<1> USE DEF Parts
<1>1. /\ Exists /\ Exists' /\ intent'.status = "SUBMISSION_PENDING"
      /\ intent'.version = intent.version + 1 /\ intent'.key = intent.key
      /\ intent'.snap = intent.snap /\ intent'.cleared = intent.cleared
  BY UpdateFields DEF Claim, VersionMatches, TypeOK, PaymentState
<1>2. intent.version \in Nat /\ \A v \in Worker : mine[v].version \in Nat
  BY DEF TypeOK, Record
<1>3. ReadInv'
  BY <1>1, <1>2 DEF TypeOK, ReadInv, Reading, Same, Fresh, Exists, Claim,
      VersionMatches, Goto, At, CallUnchanged
<1>4. DistinctInv'
  BY <1>1, <1>2 DEF TypeOK, DistinctInv, Reading, Exists, Claim,
      VersionMatches, Goto, At, CallUnchanged
<1>5. BoundInv'
  BY <1>1, <1>2 DEF TypeOK, BoundInv, Bound, PreClaim, Same, Exists, Claim,
      VersionMatches, Goto, At, CallUnchanged
<1>6. StatusInv'
  BY <1>1, <1>2 DEF TypeOK, StatusInv, Claim, VersionMatches, Goto, At,
      CallUnchanged, BoundInv, Bound, PreClaim, Same
<1>7. BankInv'
  BY <1>1, <1>2 DEF TypeOK, BankInv, Exists, Claim, VersionMatches, Goto, At,
      CallUnchanged
<1>8. FenceInv'
  BY <1>1, <1>2 DEF TypeOK, FenceInv, PreClaim, Claim, VersionMatches, Goto,
      At, CallUnchanged, BoundInv, Bound, Same
<1>9. ClaimInv'
  BY <1>1, <1>2 DEF TypeOK, ClaimInv, Claimant, Claim, VersionMatches, Goto,
      At, CallUnchanged
<1> QED BY <1>3, <1>4, <1>5, <1>6, <1>7, <1>8, <1>9

\* Moving to another label does, if the parts hold of the label moved to.
LEMMA MovesKeep ==
  ASSUME TypeOK, Keyed, Parts, ~forked', NEW w \in Worker, Moves(w)
  PROVE  Parts'
<1> USE DEF Parts
<1>1. ReadInv'
  BY DEF TypeOK, ReadInv, Reading, Same, Fresh, Exists, Moves, Others, Settled,
      PreClaim
<1>2. DistinctInv'
  BY DEF TypeOK, DistinctInv, Reading, Exists, Moves, Others, Settled, PreClaim
<1>3. BoundInv'
  BY DEF TypeOK, BoundInv, Bound, PreClaim, Same, Exists, Moves, Others, Settled
<1>4. StatusInv'
  BY DEF TypeOK, StatusInv, Moves, Others, Settled, PreClaim
<1>5. BankInv'
  BY DEF TypeOK, BankInv, Exists, Moves, Others, Settled, PreClaim
<1>6. FenceInv'
  BY DEF TypeOK, FenceInv, PreClaim, Moves, Others, Settled
<1>7. ClaimInv'
  BY DEF TypeOK, ClaimInv, Claimant, Moves, Others, Settled, PreClaim
<1> QED BY <1>1, <1>2, <1>3, <1>4, <1>5, <1>6, <1>7

\* A return or a crash does: the call forgets its object.
LEMMA StopsKeep ==
  ASSUME TypeOK, Keyed, Parts, ~forked', NEW w \in Worker, Stops(w)
  PROVE  Parts'
<1> USE DEF Parts
<1>1. ReadInv'
  BY DEF TypeOK, ReadInv, Reading, Same, Fresh, Exists, Stops, Others, Off,
      Settled, Bound, PreClaim
<1>2. DistinctInv'
  BY DEF TypeOK, DistinctInv, Reading, Exists, Stops, Others, Off, Settled,
      Bound, PreClaim
<1>3. BoundInv'
  BY DEF TypeOK, BoundInv, Bound, PreClaim, Same, Exists, Stops, Others, Off,
      Settled
<1>4. StatusInv'
  BY DEF TypeOK, StatusInv, Stops, Others, Off, Settled, Bound, PreClaim
<1>5. BankInv'
  BY DEF TypeOK, BankInv, Exists, Stops, Others, Off, Settled, Bound, PreClaim
<1>6. FenceInv'
  BY DEF TypeOK, FenceInv, PreClaim, Stops, Others, Off, Settled, Bound
<1>7. ClaimInv'
  BY DEF TypeOK, ClaimInv, Claimant, Stops, Others, Off, Settled, Bound,
      PreClaim
<1> QED BY <1>1, <1>2, <1>3, <1>4, <1>5, <1>6, <1>7

\* Writing an outcome does: the version counts up past every pending claim.
LEMMA WritesKeep ==
  ASSUME TypeOK, Keyed, Parts, ~forked', NEW w \in Worker, NEW s \in PaymentState, Writes(w, s)
  PROVE  Parts'
<1> USE DEF Parts
<1>1. /\ Exists' <=> Exists
      /\ ~Exists => intent' = intent
      /\ Exists => intent'.status = s /\ intent'.version = intent.version + 1
      /\ intent'.key = intent.key /\ intent'.snap = intent.snap
      /\ intent'.cleared = intent.cleared
  BY UpdateFields DEF Writes, TypeOK
<1>2. intent.version \in Nat /\ \A v \in Worker : mine[v].version \in Nat
  BY DEF TypeOK, Record
<1>3. ReadInv'
  BY <1>1, <1>2 DEF TypeOK, ReadInv, Reading, Same, Fresh, Exists, Writes,
      VersionMatches, Others, Off, Settled, Bound, PreClaim
<1>4. DistinctInv'
  BY <1>1, <1>2 DEF TypeOK, DistinctInv, Reading, Exists, Writes,
      VersionMatches, Others, Off, Settled, Bound, PreClaim
<1>5. BoundInv'
  BY <1>1, <1>2 DEF TypeOK, BoundInv, Bound, PreClaim, Same, Exists, Writes,
      VersionMatches, Others, Off, Settled
<1>6. StatusInv'
  BY <1>1, <1>2 DEF TypeOK, StatusInv, Writes, VersionMatches, Others, Off,
      Settled, Bound, PreClaim, BoundInv, Same, Exists
<1>7. BankInv'
  BY <1>1, <1>2 DEF TypeOK, BankInv, Exists, Writes, VersionMatches, Others,
      Off, Settled, Bound, PreClaim
<1>8. FenceInv'
  BY <1>1, <1>2 DEF TypeOK, FenceInv, PreClaim, Writes, VersionMatches, Others,
      Off, Settled, Bound, BoundInv, Same
<1>9. ClaimInv'
  BY <1>1, <1>2 DEF TypeOK, ClaimInv, Claimant, Writes, VersionMatches, Others,
      Off, Settled, Bound, PreClaim
<1> QED BY <1>3, <1>4, <1>5, <1>6, <1>7, <1>8, <1>9

\* A submission does: it carries the stored key.
LEMMA PaysKeep ==
  ASSUME TypeOK, Keyed, Parts, ~forked', NEW w \in Worker, NEW o \in Outcome, Pays(w, o)
  PROVE  Parts'
<1> USE DEF Parts
<1>1. ReadInv'
  BY DEF TypeOK, ReadInv, Reading, Same, Fresh, Exists, Pays, Others, Off,
      Bound, PreClaim
<1>2. DistinctInv'
  BY DEF TypeOK, DistinctInv, Reading, Exists, Pays, Others, Off, Bound,
      PreClaim
<1>3. BoundInv'
  BY DEF TypeOK, BoundInv, Bound, PreClaim, Same, Exists, Pays, Others, Off
<1>4. StatusInv'
  BY DEF TypeOK, StatusInv, Pays, Others, Off, Bound, PreClaim
<1>5. BankInv'
  BY DEF TypeOK, BankInv, Exists, Pays, Others, Off, BoundInv, Bound, PreClaim,
      Same, Gateway
<1>6. FenceInv'
  BY DEF TypeOK, FenceInv, PreClaim, Pays, Others, Off, Bound
<1>7. ClaimInv'
  BY DEF TypeOK, ClaimInv, Claimant, Pays, Others, Off, Bound, PreClaim
<1> QED BY <1>1, <1>2, <1>3, <1>4, <1>5, <1>6, <1>7

\* The gateway and the passing of time do: no new key appears.
LEMMA ElapsesKeep ==
  ASSUME TypeOK, Keyed, Parts, ~forked', Elapses
  PROVE  Parts'
<1> USE DEF Parts
<1>1. ReadInv'
  BY DEF TypeOK, ReadInv, Reading, Same, Fresh, Exists, Elapses
<1>2. DistinctInv'
  BY DEF TypeOK, DistinctInv, Reading, Exists, Elapses
<1>3. BoundInv'
  BY DEF TypeOK, BoundInv, Bound, PreClaim, Same, Exists, Elapses
<1>4. StatusInv'
  BY DEF TypeOK, StatusInv, Elapses
<1>5. BankInv'
  BY DEF TypeOK, BankInv, Exists, Elapses
<1>6. FenceInv'
  BY DEF TypeOK, FenceInv, PreClaim, Elapses
<1>7. ClaimInv'
  BY DEF TypeOK, ClaimInv, Claimant, Elapses
<1> QED BY <1>1, <1>2, <1>3, <1>4, <1>5, <1>6, <1>7

\* So the parts are inductive: all kinds together.
LEMMA PartsStep ==
  ASSUME TypeOK, Keyed, Parts, ~forked', [Next]_vars
  PROVE  Parts'
<1>1. Kind
  BY StepKind DEF Kind, Elapses, vars
<1>2. ASSUME NEW w \in Worker, CallKind(w) PROVE Parts'
  <2>1. ASSUME NEW s \in Snapshot, NEW c \in Clearance, NEW k \in ProviderKey,
               CreateIntent(w, s, c, k)
        PROVE  Parts'
    BY <2>1, CreateKeeps
  <2>2. ASSUME NEW s \in Snapshot, FetchIntent(w, s) PROVE Parts'
    BY <2>2, FetchKeeps
  <2>3. ASSUME NEW s \in PaymentState, Writes(w, s) PROVE Parts'
    BY <2>3, WritesKeep
  <2>4. ASSUME NEW o \in Outcome, Pays(w, o) PROVE Parts'
    BY <2>4, PaysKeep
  <2>5. CASE RequestRecovery(w)
    BY <2>5, RecoveryKeeps
  <2>6. CASE Proceed(w) \/ SaveIntent(w) \/ Claim(w)
    BY <2>6, ProceedKeeps, SaveKeeps, ClaimKeeps
  <2>7. CASE Moves(w) \/ Stops(w)
    BY <2>7, MovesKeep, StopsKeep
  <2> QED BY <1>2, <2>1, <2>2, <2>3, <2>4, <2>5, <2>6, <2>7 DEF CallKind
<1>3. CASE Elapses
  BY <1>3, ElapsesKeep
<1> QED BY <1>1, <1>2, <1>3 DEF Kind

\* No step of dispatch makes an unforked payment failed.
LEMMA NeverFails ==
  ASSUME TypeOK, Parts, ~forked', [Next]_vars, intent.status # "FAILED"
  PROVE  intent'.status # "FAILED"
<1>1. Kind \/ UNCHANGED intent
  BY StepKind DEF vars
<1>2. CASE UNCHANGED intent
  BY <1>2
<1>3. ASSUME NEW s \in PaymentState \ {"FAILED"}, UpdateIntent(s)
      PROVE  intent'.status # "FAILED"
  BY <1>3, UpdateFields DEF TypeOK, Exists
<1>4. ASSUME NEW w \in Worker, SaveIntent(w) PROVE intent'.status # "FAILED"
  <2>1. ~Exists /\ Fresh(w) /\ intent' = mine[w]
    BY <1>4 DEF SaveIntent, Parts, ReadInv, Reading, At
  <2> QED BY <2>1 DEF Fresh, FreshIntent
<1>5. ASSUME NEW w \in Worker, Claim(w) PROVE intent'.status # "FAILED"
  BY <1>3, <1>5 DEF Claim, PaymentState
<1>6. ASSUME NEW w \in Worker, NEW s \in PaymentState, Writes(w, s)
      PROVE  intent'.status # "FAILED"
  BY <1>3, <1>6 DEF Writes
<1>7. ASSUME NEW w \in Worker, CallKind(w) PROVE intent'.status # "FAILED"
  BY <1>2, <1>4, <1>5, <1>6, <1>7
     DEF CallKind, CreateIntent, FetchIntent, RequestRecovery, BeginCall,
         Proceed, Moves, Stops, Pays
<1> QED BY <1>1, <1>2, <1>7 DEF Kind, Elapses

\* Nor does one undo a fork; so StoredInv is inductive.
LEMMA StoredStep == TypeOK /\ Keyed /\ StoredInv /\ [Next]_vars => StoredInv'
<1> SUFFICES ASSUME TypeOK, Keyed, StoredInv, [Next]_vars, ~forked'
             PROVE  Parts' /\ intent'.status # "FAILED"
  BY DEF StoredInv
<1>1. ~forked
  BY StepKind, ForkedStays DEF vars
<1> QED BY <1>1, PartsStep, NeverFails DEF StoredInv

\* Without slow holders the critical section is entered with the lease only,
\* and the lease is lost only on leaving it.
LEMMA LeaseStep == TypeOK /\ LeaseInv /\ [Next]_vars => LeaseInv'
<1> SUFFICES ASSUME TypeOK, LeaseInv, Next, ~SlowHolder PROVE LeaseInv'
  BY DEF LeaseInv, vars, CriticalSection
<1> DEFINE Keeps(w) == /\ lease' = lease
                       /\ pc'[w] \in CriticalSection => pc[w] \in CriticalSection
                       /\ \A v \in Worker : v # w => pc'[v] = pc[v]
<1>1. ASSUME NEW w \in Worker, Keeps(w) PROVE LeaseInv'
  BY <1>1 DEF LeaseInv
<1> HIDE DEF Keeps
<1> USE DEF Goto, At, TypeOK, CallUnchanged
<1>2. ASSUME NEW w \in Worker, Start(w) PROVE LeaseInv'
  <2>1. Keeps(w)
    BY <1>2 DEF Keeps, CriticalSection, Start, CreateIntent, FetchIntent,
                MaterialConflict, RequestRecovery, BeginCall
  <2> QED BY <1>1, <2>1
<1>3. ASSUME NEW w \in Worker, Prepare(w) PROVE LeaseInv'
  <2>1. CASE FirstAttempt(w) \/ SecondAttempt(w)
    BY <2>1, DispatchAssumption
       DEF LeaseInv, CriticalSection, FirstAttempt, SecondAttempt, AcquireLease
  <2>2. CASE ~(FirstAttempt(w) \/ SecondAttempt(w))
    <3>1. Keeps(w)
      BY <1>3, <2>2
         DEF Keeps, CriticalSection, Prepare, ReturnCached, FenceIndeterminate,
             RejectUncleared, Proceed, SaveIntent, SaveOutboxItem, Bypass,
             CloseBypass, PollSeesSettled, PollExhausted, LeaseConflict, Return
    <3> QED BY <1>1, <3>1
  <2> QED BY <2>1, <2>2
<1>4. ASSUME NEW w \in Worker, Execute(w) PROVE LeaseInv'
  <2>1. CASE ReleaseLease(w)
    BY <2>1, DispatchAssumption
       DEF LeaseInv, CriticalSection, ReleaseLease, Return
  <2>2. CASE ~ReleaseLease(w)
    <3>1. Keeps(w)
      BY <1>4, <2>2
         DEF Keeps, CriticalSection, Execute, Recheck, MarkProcessing, Claim,
             ClaimLost, Reread, Submit, RecordSettled, RecordUnknown,
             RecordOutcome, CloseOutboxItem, Leave
    <3> QED BY <1>1, <3>1
  <2> QED BY <2>1, <2>2
<1>5. ASSUME NEW w \in Worker, Reconcile(w) PROVE LeaseInv'
  <2>1. Keeps(w)
    BY <1>5 DEF Keeps, CriticalSection, Reconcile, QueryConfirms, Querying,
                QueryInconclusive, QueryEmpty, Replay, SettleReconciled, Return
  <2> QED BY <1>1, <2>1
<1>6. CASE Environment
  <2>1. ASSUME NEW w \in Worker, Crash(w) PROVE LeaseInv'
    BY <2>1, DispatchAssumption DEF LeaseInv, CriticalSection, Crash, Return
  <2>2. CASE LeaseLapses
    BY <2>2, DispatchAssumption DEF LeaseInv, LeaseLapses, callVars
  <2>3. ASSUME NEW k \in ProviderKey, GatewayLate(k) \/ GatewayResolves(k)
        PROVE  LeaseInv'
    BY <2>3 DEF LeaseInv, GatewayLate, GatewayResolves, callVars
  <2> QED BY <1>6, <2>1, <2>2, <2>3 DEF Environment
<1> QED BY <1>2, <1>3, <1>4, <1>5, <1>6 DEF Next

\* IInv is an invariant: nobody who follows the stored intent is ever misled
\* about its key, snapshot and clearance, nor about a version seen twice.
THEOREM Invariance == Spec => []IInv
<1>1. Init => IInv
  BY TypeInit, InvInit DEF IInv
<1>2. IInv /\ [Next]_vars => IInv'
  BY TypeStep, KeyedStep, StoredStep, LeaseStep DEF IInv
<1> QED BY <1>1, <1>2, PTL DEF Spec

-----------------------------------------------------------------------------
(***************************************************************************)
(* What follows.                                                           *)
(***************************************************************************)
\* Every variable keeps its type in every behaviour.
THEOREM TypeCorrect == Spec => []TypeOK
<1>1. IInv => TypeOK
  BY DEF IInv
<1> QED BY <1>1, Invariance, PTL

\* A lease is held from inside the critical section only: it is taken on the way
\* in, given back on the way out, and a crash leaves it to nobody.
THEOREM LeasesReturned == Spec => []LeaseReturned
<1> DEFINE Keeps(w) == /\ lease' = lease
                       /\ pc[w] \in CriticalSection => pc'[w] \in CriticalSection
                       /\ \A v \in Worker : v # w => pc'[v] = pc[v]
<1>1. Init => LeaseReturned
  BY DispatchAssumption DEF Init, LeaseReturned
<1>2. ASSUME TypeOK, LeaseReturned, Next PROVE LeaseReturned'
  <2>1. ASSUME NEW w \in Worker, Keeps(w) PROVE LeaseReturned'
    BY <1>2, <2>1 DEF LeaseReturned
  <2> HIDE DEF Keeps
  <2> USE <1>2 DEF Goto, At, TypeOK, CallUnchanged
  <2>2. ASSUME NEW w \in Worker, Start(w) PROVE LeaseReturned'
    <3>1. Keeps(w)
      BY <2>2 DEF Keeps, CriticalSection, Start, CreateIntent, FetchIntent,
                  MaterialConflict, RequestRecovery, BeginCall
    <3> QED BY <2>1, <3>1
  <2>3. ASSUME NEW w \in Worker, Prepare(w) PROVE LeaseReturned'
    <3>1. CASE FirstAttempt(w) \/ SecondAttempt(w)
      BY <3>1, DispatchAssumption
         DEF LeaseReturned, CriticalSection, FirstAttempt, SecondAttempt,
             AcquireLease
    <3>2. CASE ~(FirstAttempt(w) \/ SecondAttempt(w))
      <4>1. Keeps(w)
        BY <2>3, <3>2
           DEF Keeps, CriticalSection, Prepare, ReturnCached, FenceIndeterminate,
               RejectUncleared, Proceed, SaveIntent, SaveOutboxItem, Bypass,
               CloseBypass, PollSeesSettled, PollExhausted, LeaseConflict, Return
      <4> QED BY <2>1, <4>1
    <3> QED BY <3>1, <3>2
  <2>4. ASSUME NEW w \in Worker, Execute(w) PROVE LeaseReturned'
    <3>1. CASE ReleaseLease(w)
      BY <3>1, DispatchAssumption
         DEF LeaseReturned, CriticalSection, ReleaseLease, Return
    <3>2. CASE ~ReleaseLease(w)
      <4>1. Keeps(w)
        BY <2>4, <3>2
           DEF Keeps, CriticalSection, Execute, Recheck, MarkProcessing, Claim,
               ClaimLost, Reread, Submit, RecordSettled, RecordUnknown,
               RecordOutcome, CloseOutboxItem, Leave
      <4> QED BY <2>1, <4>1
    <3> QED BY <3>1, <3>2
  <2>5. ASSUME NEW w \in Worker, Reconcile(w) PROVE LeaseReturned'
    <3>1. Keeps(w)
      BY <2>5 DEF Keeps, CriticalSection, Reconcile, QueryConfirms, Querying,
                  QueryInconclusive, QueryEmpty, Replay, SettleReconciled, Return
    <3> QED BY <2>1, <3>1
  <2>6. CASE Environment
    <3>1. ASSUME NEW w \in Worker, Crash(w) PROVE LeaseReturned'
      BY <3>1, DispatchAssumption
         DEF LeaseReturned, CriticalSection, Crash, Return
    <3>2. CASE LeaseLapses
      BY <3>2, DispatchAssumption DEF LeaseReturned, LeaseLapses, callVars
    <3>3. ASSUME NEW k \in ProviderKey, GatewayLate(k) \/ GatewayResolves(k)
          PROVE  LeaseReturned'
      BY <3>3 DEF LeaseReturned, GatewayLate, GatewayResolves, callVars
    <3> QED BY <2>6, <3>1, <3>2, <3>3 DEF Environment
  <2> QED BY <2>2, <2>3, <2>4, <2>5, <2>6 DEF Next
<1>3. LeaseReturned /\ UNCHANGED vars => LeaseReturned'
  BY DEF LeaseReturned, vars
<1>4. TypeOK /\ LeaseReturned /\ [Next]_vars => LeaseReturned'
  BY <1>2, <1>3
<1> QED BY <1>1, <1>4, TypeCorrect, PTL DEF Spec

\* The gateway never holds or awaits payouts under two provider keys, however
\* many workers dispatch, crash, retry and outlive their leases, as long as no
\* call goes on with an intent object other than the stored one.
THEOREM AtMostOnePayout == Spec => []OnePayout
<1>1. IInv => OnePayout
  BY DEF IInv, StoredInv, Parts, BankInv, OnePayout
<1> QED BY <1>1, Invariance, PTL

\* Two concurrent claims hold different versions, with or without the lease.
THEOREM ClaimsAreSerialized == Spec => []ClaimsSerialized
<1>1. IInv => ClaimsSerialized
  BY DEF IInv, StoredInv, Parts, ClaimInv, ClaimsSerialized
<1> QED BY <1>1, Invariance, PTL

\* Nothing is paid for an uncleared or a netted intent.
THEOREM PayoutsAreAuthorized == Spec => []PayoutAuthorized
<1>1. IInv => PayoutAuthorized
  BY DEF IInv, StoredInv, Parts, BankInv, PayoutAuthorized
<1> QED BY <1>1, Invariance, PTL

\* The lease excludes when no holder outlives it.
THEOREM SubmissionIsExclusive == Spec => []ExclusiveSubmission
<1>1. IInv => ExclusiveSubmission
  BY DEF IInv, LeaseInv, ExclusiveSubmission
<1> QED BY <1>1, Invariance, PTL

\* The version carries the first read's judgement to the claim: a settled or
\* indeterminate intent is never claimed.
THEOREM ClaimsAreFenced == Spec => FencedClaim
<1> DEFINE Fenced ==
      ~forked' /\ intent' # intent /\ intent'.status = "SUBMISSION_PENDING"
        => intent.status \in Ready \cup {"SUBMISSION_PENDING"}
<1>1. IInv /\ [Next]_vars => [Fenced]_vars
  <2> SUFFICES ASSUME IInv, Next, ~forked', intent' # intent,
                      intent'.status = "SUBMISSION_PENDING"
               PROVE  intent.status \in Ready \cup {"SUBMISSION_PENDING"}
    BY DEF vars
  <2>1. Kind /\ TypeOK /\ Parts /\ intent.status # "FAILED" /\ ~Elapses
    BY StepKind, ForkedStays
       DEF IInv, StoredInv, Parts, vars, Kind, Elapses
  <2>2. PICK w \in Worker : CallKind(w)
    BY <2>1 DEF Kind
  <2>3. ~Proceed(w) /\ ~Moves(w) /\ ~Stops(w) /\ ~RequestRecovery(w)
    BY DEF Proceed, Moves, Stops, RequestRecovery, BeginCall
  <2>4. ASSUME NEW s \in Snapshot PROVE ~FetchIntent(w, s)
    BY DEF FetchIntent, BeginCall
  <2>5. ASSUME NEW s \in Snapshot, NEW c \in Clearance, NEW k \in ProviderKey
        PROVE  ~CreateIntent(w, s, c, k)
    BY DEF CreateIntent, BeginCall
  <2>6. ASSUME NEW o \in Outcome PROVE ~Pays(w, o)
    BY DEF Pays
  <2>7. ~SaveIntent(w)
    <3> SUFFICES ASSUME SaveIntent(w) PROVE FALSE
      OBVIOUS
    <3>1. Fresh(w) /\ intent' = mine[w]
      BY <2>1 DEF SaveIntent, Parts, ReadInv, Reading, At
    <3> QED BY <3>1 DEF Fresh, FreshIntent
  <2>8. pc[w] = "claim" /\ VersionMatches(w)
    <3>1. CASE Claim(w)
      BY <3>1 DEF Claim, At
    <3>2. ASSUME NEW s \in PaymentState, Writes(w, s)
          PROVE  pc[w] = "claim" /\ VersionMatches(w)
      <4>1. s = "SUBMISSION_PENDING"
        BY <2>1, <3>2, UpdateFields DEF Writes, TypeOK
      <4> QED BY <3>2, <4>1 DEF Writes
    <3> QED BY <2>2, <2>3, <2>4, <2>5, <2>6, <2>7, <3>1, <3>2 DEF CallKind
  <2>9. mine[w].snap \notin ZeroSnapshot /\ Same(w)
    BY <2>1, <2>8 DEF Parts, BoundInv, Bound, PreClaim
  <2>10. intent.status # "BYPASSED_ZERO_PAYOUT"
    BY <2>1, <2>9 DEF Parts, StatusInv, Same
  <2> QED BY <2>1, <2>8, <2>10
          DEF Parts, FenceInv, PreClaim, VersionMatches, Ready
<1> QED BY <1>1, Invariance, PTL DEF Spec, FencedClaim

-----------------------------------------------------------------------------
(***************************************************************************)
(* Courses of a step: who writes the stored status, and who gets where.    *)
(***************************************************************************)
Backed == \E k \in ProviderKey : bank[k] # "none"

\* Labels at which a call speaks for a payment in doubt.
Doubting == {"reconcile", "replayQuery", "replay", "settle"}
Claiming == {"submit", "recordSettled", "recordUnknown"}

Alone(w) ==
  \A v \in Worker : v # w => /\ pc'[v] = pc[v] /\ mine'[v] = mine[v]
                             /\ reply'[v] = reply[v] /\ outbox'[v] = outbox[v]

GatewayRests == UNCHANGED <<bank, inflight>>

\* What entitles a call to report success.
Entitled(w) ==
  \/ reply[w] = "SUCCESS" \/ outbox[w] = "COMPLETED"
  \/ intent.status \in Paid \/ mine[w].status \in Paid
  \/ pc[w] \in {"closeBypass", "closeCompleted", "settle"}

Truthful(w) ==
  /\ reply'[w] = "SUCCESS" \/ outbox'[w] = "COMPLETED" => Entitled(w)
  /\ pc'[w] = "closeCompleted" => pc[w] = "recordSettled"
  /\ pc'[w] = "closeBypass" => pc[w] = "bypass"
  /\ mine'[w].status \in Paid => intent.status \in Paid \/ mine[w].status \in Paid

\* Neither the stored intent nor the gateway is touched.
Calm(w) ==
  /\ pc'[w] \notin Doubting \cup Claiming
  /\ GatewayRests /\ UNCHANGED intent

Doubts(w) ==
  /\ \/ pc[w] \in Doubting
     \/ At(w, "check") /\ EffectiveStatus(w) \in Indeterminate
     \/ intent.status \in Indeterminate
  /\ pc'[w] \in Doubting
  /\ pc'[w] = "settle" => Backed \/ SharedReference
  /\ pc'[w] \in {"replayQuery", "replay"} =>
       ReplayRecovery \/ pc[w] \in {"replayQuery", "replay"}
  /\ GatewayRests /\ UNCHANGED intent

Saves(w) ==
  /\ pc[w] = "save" /\ pc'[w] = "enqueue"
  /\ intent' = mine[w] /\ forked' = (forked \/ Exists)
  /\ GatewayRests

Claims(w) ==
  /\ pc[w] = "claim" /\ VersionMatches(w)
  /\ pc'[w] \in {"submit", "reread"}
  /\ UpdateIntent("SUBMISSION_PENDING") /\ GatewayRests

Records(w, s) ==
  /\ \/ pc[w] = "recordSettled" /\ s = "SETTLED"
     \/ pc[w] = "recordUnknown" /\ s = "UNKNOWN"
  /\ pc'[w] \notin Doubting \cup Claiming
  /\ UpdateIntent(s) /\ GatewayRests

Settles(w) ==
  /\ pc[w] = "settle" /\ pc'[w] = "idle"
  /\ UpdateIntent("SETTLED") /\ GatewayRests

Nets(w) ==
  /\ pc[w] = "bypass" /\ pc'[w] = "closeBypass"
  /\ UpdateIntent("BYPASSED_ZERO_PAYOUT") /\ GatewayRests

Submits(w, o) ==
  /\ pc[w] = "submit" /\ Gateway(mine[w].key, o)
  /\ pc'[w] \in {"recordSettled", "recordUnknown"}
  /\ pc'[w] = "recordSettled" => o \in {"accepted", "refused"}
  /\ UNCHANGED intent

Replays(w, o) ==
  /\ pc[w] = "replay" /\ pc'[w] = "settle"
  /\ Gateway(mine[w].key, o)
  /\ UNCHANGED intent

Course(w) ==
  \/ Calm(w) \/ Doubts(w) \/ Saves(w) \/ Claims(w)
  \/ \E s \in {"SETTLED", "UNKNOWN"} : Records(w, s)
  \/ Settles(w) \/ Nets(w)
  \/ \E o \in Outcome : Submits(w, o) \/ Replays(w, o)

World ==
  /\ \/ GatewayRests
     \/ \E k \in ProviderKey : GatewayLate(k) \/ GatewayResolves(k)
  /\ UNCHANGED <<intent, pc, mine, reply, outbox>>

\* Every step of the system is the course of one call, or the world's.
LEMMA StepCourse ==
  TypeOK /\ Next => World \/ \E w \in Worker : Alone(w) /\ Truthful(w) /\ Course(w)
<1> SUFFICES ASSUME TypeOK, Next
             PROVE  World \/ \E w \in Worker :
                               Alone(w) /\ Truthful(w) /\ Course(w)
  OBVIOUS
<1> DEFINE Takes(w) == Alone(w) /\ Truthful(w) /\ Course(w)
<1> USE DEF Goto, Answer, At, CallUnchanged, GatewayRests, Alone, Truthful,
            Entitled
<1>1. ASSUME NEW w \in Worker, Start(w) PROVE Takes(w)
  <2>1. ASSUME NEW s \in Snapshot, NEW c \in Clearance, NEW k \in ProviderKey,
               CreateIntent(w, s, c, k)
        PROVE  Takes(w)
    <3>1. Calm(w) /\ Alone(w) /\ Truthful(w)
      BY <2>1 DEF TypeOK, CreateIntent, BeginCall, Calm, Doubting, Claiming,
                  FreshIntent, Paid
    <3> QED BY <3>1 DEF Course
  <2>2. ASSUME NEW s \in Snapshot, FetchIntent(w, s) PROVE Takes(w)
    <3>1. Calm(w) /\ Alone(w) /\ Truthful(w)
      BY <2>2 DEF TypeOK, FetchIntent, BeginCall, Calm, Doubting, Claiming
    <3> QED BY <3>1 DEF Course
  <2>3. ASSUME NEW s \in Snapshot, MaterialConflict(w, s) PROVE Takes(w)
    <3>1. Calm(w) /\ Alone(w) /\ Truthful(w)
      BY <2>3 DEF TypeOK, MaterialConflict, BeginCall, Calm, Doubting, Claiming
    <3> QED BY <3>1 DEF Course
  <2>4. CASE RequestRecovery(w)
    <3>1. Doubts(w) /\ Alone(w) /\ Truthful(w)
      BY <2>4 DEF TypeOK, RequestRecovery, BeginCall, Doubts, Doubting
    <3> QED BY <3>1 DEF Course
  <2> QED BY <1>1, <2>1, <2>2, <2>3, <2>4 DEF Start
<1>2. ASSUME NEW w \in Worker, Prepare(w) PROVE Takes(w)
  <2>1. CASE ReturnCached(w)
    <3>1. Calm(w) /\ Alone(w) /\ Truthful(w)
      BY <2>1 DEF TypeOK, ReturnCached, EffectiveStatus, Return, NoIntent,
                  Paid, Calm, Doubting, Claiming
    <3> QED BY <3>1 DEF Course
  <2>2. CASE FenceIndeterminate(w)
    <3>1. Doubts(w) /\ Alone(w) /\ Truthful(w)
      BY <2>2 DEF TypeOK, FenceIndeterminate, Doubts, Doubting
    <3> QED BY <3>1 DEF Course
  <2>3. CASE RejectUncleared(w) \/ LeaseConflict(w)
    <3>1. Calm(w) /\ Alone(w) /\ Truthful(w)
      BY <2>3 DEF TypeOK, RejectUncleared, LeaseConflict, Return, NoIntent,
                  Paid, Calm, Doubting, Claiming
    <3> QED BY <3>1 DEF Course
  <2>4. CASE Proceed(w) \/ PollExhausted(w)
    <3>1. Calm(w) /\ Alone(w) /\ Truthful(w)
      BY <2>4 DEF TypeOK, Proceed, PollExhausted, Calm, Doubting, Claiming
    <3> QED BY <3>1 DEF Course
  <2>5. CASE SaveIntent(w)
    <3>1. Saves(w) /\ Alone(w) /\ Truthful(w)
      BY <2>5 DEF TypeOK, SaveIntent, Saves
    <3> QED BY <3>1 DEF Course
  <2>6. CASE SaveOutboxItem(w)
    <3>1. Calm(w) /\ Alone(w) /\ Truthful(w)
      BY <2>6 DEF TypeOK, SaveOutboxItem, Calm, Doubting, Claiming
    <3> QED BY <3>1 DEF Course
  <2>7. CASE Bypass(w)
    <3>1. (Nets(w) \/ Calm(w)) /\ Alone(w) /\ Truthful(w)
      BY <2>7 DEF TypeOK, Bypass, Nets, Calm, Doubting, Claiming
    <3> QED BY <3>1 DEF Course
  <2>8. CASE CloseBypass(w)
    <3>1. Calm(w) /\ Alone(w) /\ Truthful(w)
      BY <2>8 DEF TypeOK, CloseBypass, Return, NoIntent, Paid, Calm, Doubting,
                  Claiming
    <3> QED BY <3>1 DEF Course
  <2>9. CASE FirstAttempt(w) \/ SecondAttempt(w)
    <3>1. Calm(w) /\ Alone(w) /\ Truthful(w)
      BY <2>9 DEF TypeOK, FirstAttempt, SecondAttempt, AcquireLease, Calm,
                  Doubting, Claiming
    <3> QED BY <3>1 DEF Course
  <2>10. CASE PollSeesSettled(w)
    <3>1. Calm(w) /\ Alone(w) /\ Truthful(w)
      BY <2>10 DEF TypeOK, PollSeesSettled, Return, NoIntent, Paid, Calm,
                   Doubting, Claiming
    <3> QED BY <3>1 DEF Course
  <2> QED BY <1>2, <2>1, <2>2, <2>3, <2>4, <2>5, <2>6, <2>7, <2>8, <2>9, <2>10
          DEF Prepare
<1>3. ASSUME NEW w \in Worker, Execute(w) PROVE Takes(w)
  <2>1. CASE Recheck(w) \/ Reread(w)
    <3>1. Calm(w) /\ Alone(w) /\ Truthful(w)
      BY <2>1 DEF TypeOK, Recheck, Reread, Leave, Calm, Doubting, Claiming
    <3> QED BY <3>1 DEF Course
  <2>2. CASE MarkProcessing(w)
    <3>1. Calm(w) /\ Alone(w) /\ Truthful(w)
      BY <2>2 DEF TypeOK, MarkProcessing, Calm, Doubting, Claiming
    <3> QED BY <3>1 DEF Course
  <2>3. CASE Claim(w)
    <3>1. Claims(w) /\ Alone(w) /\ Truthful(w)
      BY <2>3 DEF TypeOK, Claim, Claims
    <3> QED BY <3>1 DEF Course
  <2>4. CASE ClaimLost(w)
    <3>1. (Claims(w) \/ Calm(w)) /\ Alone(w) /\ Truthful(w)
      BY <2>4 DEF TypeOK, ClaimLost, Claims, Calm, Doubting, Claiming
    <3> QED BY <3>1 DEF Course
  <2>5. ASSUME NEW o \in Outcome, Submit(w, o) PROVE Takes(w)
    <3>1. Submits(w, o) /\ Alone(w) /\ Truthful(w)
      BY <2>5 DEF TypeOK, Submit, Submits, ClientReport
    <3> QED BY <3>1 DEF Course
  <2>6. CASE RecordSettled(w)
    <3>1. (Records(w, "SETTLED") \/ Calm(w)) /\ Alone(w) /\ Truthful(w)
      BY <2>6 DEF TypeOK, RecordSettled, RecordOutcome, Records, Calm, Doubting,
                  Claiming
    <3> QED BY <3>1 DEF Course
  <2>7. CASE RecordUnknown(w)
    <3>1. (Records(w, "UNKNOWN") \/ Calm(w)) /\ Alone(w) /\ Truthful(w)
      BY <2>7 DEF TypeOK, RecordUnknown, RecordOutcome, Records, Calm, Doubting,
                  Claiming
    <3> QED BY <3>1 DEF Course
  <2>8. CASE CloseOutboxItem(w)
    <3>1. Calm(w) /\ Alone(w) /\ Truthful(w)
      BY <2>8 DEF TypeOK, CloseOutboxItem, Leave, Calm, Doubting, Claiming
    <3> QED BY <3>1 DEF Course
  <2>9. CASE ReleaseLease(w)
    <3>1. Calm(w) /\ Alone(w) /\ Truthful(w)
      BY <2>9 DEF TypeOK, ReleaseLease, Return, NoIntent, Paid, Calm, Doubting,
                  Claiming
    <3> QED BY <3>1 DEF Course
  <2> QED BY <1>3, <2>1, <2>2, <2>3, <2>4, <2>5, <2>6, <2>7, <2>8, <2>9
          DEF Execute
<1>4. ASSUME NEW w \in Worker, Reconcile(w) PROVE Takes(w)
  <2>1. CASE QueryConfirms(w)
    <3>1. Doubts(w) /\ Alone(w) /\ Truthful(w)
      BY <2>1 DEF TypeOK, QueryConfirms, Listed, Querying, Doubts, Doubting, Backed
    <3> QED BY <3>1 DEF Course
  <2>2. CASE QueryInconclusive(w)
    <3>1. Calm(w) /\ Alone(w) /\ Truthful(w)
      BY <2>2 DEF TypeOK, QueryInconclusive, Return, NoIntent, Paid, Calm,
                  Doubting, Claiming
    <3> QED BY <3>1 DEF Course
  <2>3. CASE QueryEmpty(w)
    <3>1. (Doubts(w) \/ Calm(w)) /\ Alone(w) /\ Truthful(w)
      BY <2>3 DEF TypeOK, QueryEmpty, Querying, Return, NoIntent, Paid, Calm,
                  Doubts, Doubting, Claiming
    <3> QED BY <3>1 DEF Course
  <2>4. ASSUME NEW o \in Outcome, Replay(w, o) PROVE Takes(w)
    <3>1. Replays(w, o) /\ Alone(w) /\ Truthful(w)
      BY <2>4 DEF TypeOK, Replay, Replays
    <3> QED BY <3>1 DEF Course
  <2>5. CASE SettleReconciled(w)
    <3>1. (Settles(w) \/ Calm(w)) /\ Alone(w) /\ Truthful(w)
      BY <2>5 DEF TypeOK, SettleReconciled, Return, NoIntent, Paid, Settles,
                  Calm, Doubting, Claiming
    <3> QED BY <3>1 DEF Course
  <2> QED BY <1>4, <2>1, <2>2, <2>3, <2>4, <2>5 DEF Reconcile
<1>5. CASE Environment
  <2>1. ASSUME NEW w \in Worker, Crash(w) PROVE Takes(w)
    <3>1. Calm(w) /\ Alone(w) /\ Truthful(w)
      BY <2>1 DEF TypeOK, Crash, Return, NoIntent, Paid, Calm, Doubting, Claiming
    <3> QED BY <3>1 DEF Course
  <2>2. ASSUME NEW k \in ProviderKey, GatewayLate(k) \/ GatewayResolves(k)
        PROVE  World
    BY <2>2 DEF World, GatewayLate, GatewayResolves, callVars
  <2>3. CASE LeaseLapses
    BY <2>3 DEF World, LeaseLapses, callVars
  <2> QED BY <1>5, <2>1, <2>2, <2>3 DEF Environment
<1> QED BY <1>1, <1>2, <1>3, <1>4, <1>5 DEF Next
-----------------------------------------------------------------------------
(***************************************************************************)
(* The stored status of a payment that has not forked.                     *)
(***************************************************************************)
NettedInv ==
  Exists /\ intent.snap \in ZeroSnapshot => intent.status = "BYPASSED_ZERO_PAYOUT"

\* Between claim and record the lease keeps all others from writing.
ClaimedInv ==
  \A w \in Worker : pc[w] \in Claiming => intent.status = "SUBMISSION_PENDING"

DoubtInv ==
  \A w \in Worker : pc[w] \in Doubting => intent.status \in {"UNKNOWN", "SETTLED"}

SpentInv ==
  Backed \/ inflight # {} =>
    intent.status \in {"SUBMISSION_PENDING", "UNKNOWN", "SETTLED"}

StatusesInv == NettedInv /\ ClaimedInv /\ DoubtInv /\ SpentInv

OutcomeInv == ~forked /\ ~SlowHolder => StatusesInv

\* A step that leaves the payment in one piece found it so.
LEMMA NeverForked == IInv /\ [Next]_vars /\ ~forked' => ~forked /\ Parts
BY StepKind, ForkedStays DEF IInv, StoredInv, Parts, vars

\* A claim finds an open or claimed intent, so nobody is in doubt about it.
LEMMA ClaimFinds ==
  ASSUME IInv, ~forked, NEW w \in Worker, pc[w] = "claim", VersionMatches(w)
  PROVE  /\ Exists /\ intent.snap \notin ZeroSnapshot
         /\ intent.status \in {"READY_FOR_SUBMISSION", "SUBMISSION_PENDING"}
BY DEF IInv, StoredInv, Parts, BoundInv, FenceInv, StatusInv, Bound, PreClaim, Same,
       VersionMatches

\* Initially nothing is claimed, in doubt or spent.
LEMMA OutcomeInit == Init => OutcomeInv
BY DispatchAssumption
   DEF Init, OutcomeInv, StatusesInv, NettedInv, ClaimedInv, DoubtInv, SpentInv,
       Backed, Exists, NoIntent, FreshIntent, Claiming, Doubting

\* One step per course; each writer of the status finds what its label says.
LEMMA OutcomeStep == IInv /\ OutcomeInv /\ [Next]_vars => OutcomeInv'
<1> SUFFICES ASSUME IInv, OutcomeInv, [Next]_vars, ~forked', ~SlowHolder
             PROVE  StatusesInv'
  BY DEF OutcomeInv
<1>1. ~forked /\ Parts /\ StatusesInv /\ TypeOK
  BY NeverForked DEF OutcomeInv, IInv
<1>2. intent \in Record /\ pc \in [Worker -> Label] /\ mine \in [Worker -> Record]
  BY <1>1 DEF TypeOK
<1> USE DEF StatusesInv, NettedInv, ClaimedInv, DoubtInv, SpentInv
<1>3. CASE UNCHANGED vars
  BY <1>1, <1>3 DEF vars, Backed, Exists
<1>4. CASE World
  <2>1. Backed' \/ inflight' # {} => Backed \/ inflight # {}
    BY <1>1, <1>4 DEF World, GatewayRests, GatewayLate, GatewayResolves, Backed,
                      TypeOK
  <2> QED BY <1>1, <1>4, <2>1 DEF World, Exists
<1>5. ASSUME NEW w \in Worker, Alone(w), Course(w) PROVE StatusesInv'
  <2>1. \A v \in Worker : v # w => pc'[v] = pc[v]
    BY <1>5 DEF Alone
  <2>2. CASE Calm(w)
    BY <1>1, <2>1, <2>2 DEF Calm, GatewayRests, Backed, Exists
  <2>3. CASE Doubts(w)
    <3>1. intent.status \in {"UNKNOWN", "SETTLED"}
      <4>1. CASE pc[w] \in Doubting
        BY <1>1, <4>1
      <4>2. CASE intent.status \in Indeterminate
        BY <1>1, <4>2 DEF Parts, StatusInv, Indeterminate
      <4>3. CASE pc[w] = "check" /\ EffectiveStatus(w) \in Indeterminate /\ ~Exists
        <5>1. Fresh(w)
          BY <1>1, <4>3 DEF Parts, ReadInv, Reading
        <5>2. mine[w].status \in {"BYPASSED_ZERO_PAYOUT", "READY_FOR_SUBMISSION"}
          BY <5>1 DEF Fresh, FreshIntent
        <5> QED BY <4>3, <5>2 DEF EffectiveStatus, Indeterminate
      <4> QED BY <2>3, <4>1, <4>2, <4>3 DEF Doubts, EffectiveStatus, At
    <3>2. pc'[w] \notin Claiming
      BY <2>3 DEF Doubts, Doubting, Claiming
    <3> QED BY <1>1, <2>1, <2>3, <3>1, <3>2 DEF Doubts, GatewayRests, Backed, Exists
  <2>4. CASE Saves(w)
    <3>1. ~Exists /\ Fresh(w)
      BY <1>1, <2>4 DEF Saves, Parts, ReadInv, Reading
    <3>2. \A v \in Worker : pc[v] \notin Claiming \cup Doubting
      BY <1>1, <3>1 DEF Exists
    <3>3. ~(Backed \/ inflight # {})
      BY <1>1, <3>1 DEF Exists
    <3>4. NettedInv'
      BY <2>4, <3>1 DEF Saves, Fresh, FreshIntent, Exists
    <3>5. pc'[w] \notin Claiming \cup Doubting /\ GatewayRests
      BY <2>4 DEF Saves, Claiming, Doubting
    <3> QED BY <2>1, <3>2, <3>3, <3>4, <3>5 DEF GatewayRests, Backed
  <2>5. CASE Claims(w)
    <3>1. /\ Exists /\ intent.snap \notin ZeroSnapshot
          /\ intent.status \in {"READY_FOR_SUBMISSION", "SUBMISSION_PENDING"}
      BY <1>1, <2>5, ClaimFinds DEF Claims
    <3>2. intent'.status = "SUBMISSION_PENDING" /\ intent'.snap = intent.snap
      BY <1>2, <2>5, <3>1, UpdateFields DEF Claims, PaymentState
    <3>3. \A v \in Worker : pc[v] \notin Doubting
      BY <1>1, <3>1
    <3>4. pc'[w] \notin Doubting
      BY <2>5 DEF Claims, Doubting
    <3> QED BY <2>1, <3>1, <3>2, <3>3, <3>4
  <2>6. ASSUME NEW s \in {"SETTLED", "UNKNOWN"}, Records(w, s) PROVE StatusesInv'
    <3>1. /\ intent.status = "SUBMISSION_PENDING" /\ Exists
          /\ intent.snap \notin ZeroSnapshot
      BY <1>1, <2>6 DEF Records, Claiming, Parts, StatusInv, Exists
    <3>2. intent'.status = s /\ intent'.snap = intent.snap
      BY <1>2, <2>6, <3>1, UpdateFields DEF Records, PaymentState
    <3>3. \A v \in Worker : v # w => pc[v] \notin Claiming
      BY <2>6 DEF Records, Claiming, IInv, LeaseInv, CriticalSection
    <3>4. pc'[w] \notin Claiming \cup Doubting
      BY <2>6 DEF Records
    <3> QED BY <1>1, <2>1, <3>1, <3>2, <3>3, <3>4
  <2>7. CASE Settles(w)
    <3>1. /\ intent.status \in {"UNKNOWN", "SETTLED"} /\ Exists
          /\ intent.snap \notin ZeroSnapshot
      BY <1>1, <2>7 DEF Settles, Doubting, Exists
    <3>2. intent'.status = "SETTLED" /\ intent'.snap = intent.snap
      BY <1>2, <2>7, <3>1, UpdateFields DEF Settles, PaymentState
    <3>3. \A v \in Worker : pc[v] \notin Claiming
      BY <1>1, <3>1
    <3>4. pc'[w] \notin Claiming \cup Doubting
      BY <2>7 DEF Settles, Claiming, Doubting
    <3> QED BY <2>1, <3>1, <3>2, <3>3, <3>4
  <2>8. CASE Nets(w)
    <3>1. /\ intent.status = "BYPASSED_ZERO_PAYOUT" /\ Exists
          /\ intent.snap \in ZeroSnapshot
      BY <1>1, <2>8 DEF Nets, Parts, BoundInv, Bound, PreClaim, Same
    <3>2. intent'.status = "BYPASSED_ZERO_PAYOUT"
      BY <1>2, <2>8, <3>1, UpdateFields DEF Nets, PaymentState
    <3>3. /\ \A v \in Worker : pc[v] \notin Claiming \cup Doubting
          /\ ~(Backed \/ inflight # {})
      BY <1>1, <3>1
    <3>4. pc'[w] \notin Claiming \cup Doubting /\ GatewayRests
      BY <2>8 DEF Nets, Claiming, Doubting
    <3> QED BY <2>1, <3>2, <3>3, <3>4 DEF GatewayRests, Backed
  <2>9. ASSUME NEW o \in Outcome, Submits(w, o) PROVE StatusesInv'
    <3>1. intent.status = "SUBMISSION_PENDING" /\ intent' = intent
      BY <1>1, <2>9 DEF Submits, Claiming
    <3>2. pc'[w] \notin Doubting
      BY <2>9 DEF Submits, Doubting
    <3> QED BY <1>1, <2>1, <3>1, <3>2 DEF Exists
  <2>10. ASSUME NEW o \in Outcome, Replays(w, o) PROVE StatusesInv'
    <3>1. intent.status \in {"UNKNOWN", "SETTLED"} /\ intent' = intent
      BY <1>1, <2>10 DEF Replays, Doubting
    <3>2. pc'[w] \notin Claiming
      BY <2>10 DEF Replays, Claiming
    <3> QED BY <1>1, <2>1, <3>1, <3>2 DEF Exists
  <2> QED BY <1>5, <2>2, <2>3, <2>4, <2>5, <2>6, <2>7, <2>8, <2>9, <2>10 DEF Course
<1> QED BY <1>1, <1>3, <1>4, <1>5, StepCourse

\* The stored status agrees with what the calls and the gateway are at.
THEOREM StatusesAgree == Spec => []OutcomeInv
<1>1. Init => OutcomeInv
  BY OutcomeInit
<1>2. IInv /\ OutcomeInv /\ [Next]_vars => OutcomeInv'
  BY OutcomeStep
<1> QED BY <1>1, <1>2, Invariance, PTL DEF Spec
-----------------------------------------------------------------------------
(***************************************************************************)
(* The transition matrix.                                                  *)
(***************************************************************************)
\* The rows of the matrix that dispatch uses.
LEMMA MatrixAllows ==
  /\ \A s \in PaymentState \cup {"ABSENT"} : CanTransition(s, s)
  /\ CanTransition("READY_FOR_SUBMISSION", "SUBMISSION_PENDING")
  /\ CanTransition("SUBMISSION_PENDING", "SETTLED")
  /\ CanTransition("SUBMISSION_PENDING", "UNKNOWN")
  /\ CanTransition("UNKNOWN", "SETTLED")
BY DEF CanTransition, ValidTransitions, Ready, Paid, Indeterminate

\* While no lease is outlived, every status written is one the matrix allows
\* from the stored one, though no writer of the code asks the matrix; whoever
\* crashes, loses an answer or reconciles.
THEOREM StatusesAreLegal ==
  ASSUME ~SlowHolder PROVE Spec => LegalTransitions
<1> DEFINE Legal == ~forked' /\ Exists => CanTransition(intent.status, intent'.status)
<1>1. IInv /\ OutcomeInv /\ [Next]_vars => [Legal]_vars
  <2> SUFFICES ASSUME IInv, OutcomeInv, Next, ~forked', Exists
               PROVE  CanTransition(intent.status, intent'.status)
    BY DEF vars
  <2>1. ~forked /\ Parts /\ StatusesInv /\ TypeOK /\ intent \in Record
    BY NeverForked DEF OutcomeInv, IInv, TypeOK
  <2>2. intent.status \in PaymentState \cup {"ABSENT"}
    BY <2>1 DEF Record
  <2>3. CASE UNCHANGED intent
    BY <2>2, <2>3, MatrixAllows
  <2>4. ASSUME NEW w \in Worker, Course(w), intent' # intent
        PROVE  CanTransition(intent.status, intent'.status)
    <3>1. CASE Saves(w)
      BY <3>1 DEF Saves
    <3>2. CASE Claims(w)
      <4>1. intent.status \in {"READY_FOR_SUBMISSION", "SUBMISSION_PENDING"}
        BY <2>1, <3>2, ClaimFinds DEF Claims
      <4>2. intent'.status = "SUBMISSION_PENDING"
        BY <2>1, <3>2, UpdateFields DEF Claims, PaymentState
      <4> QED BY <2>2, <4>1, <4>2, MatrixAllows
    <3>3. ASSUME NEW s \in {"SETTLED", "UNKNOWN"}, Records(w, s)
          PROVE  CanTransition(intent.status, intent'.status)
      <4>1. intent.status = "SUBMISSION_PENDING"
        BY <2>1, <3>3 DEF Records, StatusesInv, ClaimedInv, Claiming
      <4>2. intent'.status = s
        BY <2>1, <3>3, UpdateFields DEF Records, PaymentState
      <4> QED BY <4>1, <4>2, MatrixAllows
    <3>4. CASE Settles(w)
      <4>1. intent.status \in {"UNKNOWN", "SETTLED"}
        BY <2>1, <3>4 DEF Settles, StatusesInv, DoubtInv, Doubting
      <4>2. intent'.status = "SETTLED"
        BY <2>1, <3>4, UpdateFields DEF Settles, PaymentState
      <4> QED BY <2>2, <4>1, <4>2, MatrixAllows
    <3>5. CASE Nets(w)
      <4>1. intent.status = "BYPASSED_ZERO_PAYOUT"
        BY <2>1, <3>5 DEF Nets, StatusesInv, NettedInv, Parts, BoundInv, Bound,
                          PreClaim, Same
      <4>2. intent'.status = "BYPASSED_ZERO_PAYOUT"
        BY <2>1, <3>5, UpdateFields DEF Nets, PaymentState
      <4> QED BY <2>2, <4>1, <4>2, MatrixAllows
    <3> QED BY <2>4, <3>1, <3>2, <3>3, <3>4, <3>5
            DEF Course, Calm, Doubts, Submits, Replays
  <2> QED BY <2>1, <2>3, <2>4, StepCourse DEF World
<1> QED BY <1>1, Invariance, StatusesAgree, PTL DEF Spec, LegalTransitions
-----------------------------------------------------------------------------
(***************************************************************************)
(* What is called settled or successful was paid, where the gateway's      *)
(* answers are evidence.  A refused submission counts as confirmed in the  *)
(* code, a replay counts as settled whatever it brings, and a query by     *)
(* reference believes another invoice's payout, so Evidenced excludes all. *)
(***************************************************************************)
BackedInv ==
  /\ intent.status \in Paid => Backed
  /\ \A w \in Worker :
       /\ mine[w].status \in Paid => Backed
       /\ pc[w] \in {"recordSettled", "settle"} => Backed
       /\ pc[w] \notin {"replayQuery", "replay"}

\* The gateway forgets no payout.
LEMMA BackedStays == TypeOK /\ [Next]_vars /\ Backed => Backed'
<1> SUFFICES ASSUME TypeOK, [Next]_vars, Backed PROVE Backed'
  OBVIOUS
<1> USE DEF GatewayRests, Backed
<1>1. ASSUME NEW w \in Worker, Course(w) PROVE Backed'
  <2>1. ASSUME NEW o \in Outcome, Gateway(mine[w].key, o) PROVE Backed'
    BY <2>1 DEF Gateway, TypeOK
  <2> QED BY <1>1, <2>1 DEF Course, Calm, Doubts, Saves, Claims, Records, Settles,
                            Nets, Submits, Replays
<1>2. CASE World
  BY <1>2 DEF World, GatewayLate, GatewayResolves, TypeOK
<1> QED BY <1>1, <1>2, StepCourse DEF vars

\* Every way to a settled status passes the evidence of a payout.
LEMMA BackedStep ==
  ASSUME Evidenced, IInv, BackedInv, [Next]_vars PROVE BackedInv'
<1> USE DEF BackedInv
<1>1. TypeOK /\ intent \in Record
  BY DEF IInv, TypeOK
<1>2. Backed => Backed'
  BY <1>1, BackedStays
<1>3. CASE UNCHANGED vars \/ World
  BY <1>2, <1>3 DEF vars, World
<1>4. ASSUME NEW w \in Worker, Alone(w), Truthful(w), Course(w) PROVE BackedInv'
  <2>1. mine'[w].status \in Paid => Backed
    BY <1>4 DEF Truthful
  <2>2. \A v \in Worker : v # w => pc'[v] = pc[v] /\ mine'[v] = mine[v]
    BY <1>4 DEF Alone
  <2>3. SUFFICES /\ intent'.status \in Paid => Backed'
                 /\ pc'[w] \in {"recordSettled", "settle"} => Backed'
                 /\ pc'[w] \notin {"replayQuery", "replay"}
    BY <1>2, <2>1, <2>2
  <2>4. CASE Calm(w)
    BY <1>2, <2>4 DEF Calm, Doubting, Claiming
  <2>5. CASE Doubts(w)
    BY <1>2, <2>5 DEF Doubts, Doubting, Evidenced
  <2>6. CASE Saves(w)
    BY <1>2, <2>6 DEF Saves
  <2>7. CASE Claims(w)
    <3>1. intent'.status = "SUBMISSION_PENDING"
      BY <1>1, <2>7, UpdateFields DEF Claims, VersionMatches, PaymentState
    <3> QED BY <2>7, <3>1 DEF Claims, Paid
  <2>8. ASSUME NEW s \in {"SETTLED", "UNKNOWN"}, Records(w, s)
        PROVE  /\ intent'.status \in Paid => Backed'
               /\ pc'[w] \notin Doubting \cup Claiming
    <3>1. intent'.status \in {s, intent.status}
      BY <1>1, <2>8, UpdateFields DEF Records, PaymentState
    <3> QED BY <1>2, <2>8, <3>1 DEF Records, Paid
  <2>9. CASE Settles(w)
    BY <1>2, <2>9 DEF Settles
  <2>10. CASE Nets(w)
    <3>1. intent'.status \in {"BYPASSED_ZERO_PAYOUT", intent.status}
      BY <1>1, <2>10, UpdateFields DEF Nets, PaymentState
    <3> QED BY <1>2, <2>10, <3>1 DEF Nets, Paid
  <2>11. ASSUME NEW o \in Outcome, Submits(w, o)
         PROVE  /\ intent'.status \in Paid => Backed'
                /\ pc'[w] \in {"recordSettled", "recordUnknown"}
                /\ pc'[w] = "recordSettled" => Backed'
    <3>1. mine[w].key \in ProviderKey
      BY <2>11 DEF IInv, Keyed, Submits, At
    <3>2. o = "accepted" => Backed'
      BY <1>1, <2>11, <3>1 DEF Submits, Gateway, Backed, TypeOK
    <3> QED BY <1>2, <2>11, <3>2 DEF Submits, Evidenced
  <2>12. ~ \E o \in Outcome : Replays(w, o)
    BY DEF Replays
  <2> QED BY <1>4, <2>4, <2>5, <2>6, <2>7, <2>8, <2>9, <2>10, <2>11, <2>12
          DEF Course, Doubting, Claiming
<1> QED BY <1>1, <1>3, <1>4, StepCourse

\* A stored settlement is backed by a payout, whoever recorded it and whichever
\* calls raced, crashed or lost their lease, even after a fork.
THEOREM SettlementIsBacked == Spec => []SettledBacked
<1>1. CASE Evidenced
  <2>1. Init => BackedInv
    BY DispatchAssumption
       DEF Init, BackedInv, NoIntent, FreshIntent, Paid
  <2>2. IInv /\ BackedInv /\ [Next]_vars => BackedInv'
    BY <1>1, BackedStep
  <2>3. BackedInv => SettledBacked
    BY DEF BackedInv, SettledBacked, Backed, Paid
  <2> QED BY <2>1, <2>2, <2>3, Invariance, PTL DEF Spec
<1>2. CASE ~Evidenced
  <2>1. SettledBacked
    BY <1>2 DEF SettledBacked
  <2> QED BY <2>1, PTL
<1> QED BY <1>1, <1>2

Earned == Backed \/ (Exists /\ intent.snap \in ZeroSnapshot)

SuccessInv ==
  ~forked => \A w \in Worker :
    \/ reply[w] = "SUCCESS" \/ outbox[w] = "COMPLETED"
    \/ pc[w] \in {"closeBypass", "closeCompleted"}
    => Earned

\* An answer of success travels with its evidence through every course.
LEMMA SuccessStep ==
  ASSUME Evidenced, IInv, BackedInv, SuccessInv, [Next]_vars PROVE SuccessInv'
<1> SUFFICES ASSUME ~forked'
             PROVE  \A w \in Worker :
                      \/ reply'[w] = "SUCCESS" \/ outbox'[w] = "COMPLETED"
                      \/ pc'[w] \in {"closeBypass", "closeCompleted"}
                      => Earned'
  BY DEF SuccessInv
<1>1. ~forked /\ Parts /\ TypeOK /\ intent \in Record
  BY NeverForked DEF IInv, TypeOK
<1>2. Exists => Exists' /\ intent'.snap = intent.snap
  <2>1. ASSUME NEW s \in PaymentState, UpdateIntent(s), Exists
        PROVE  Exists' /\ intent'.snap = intent.snap
    BY <1>1, <2>1, UpdateFields
  <2>2. ASSUME NEW w \in Worker, Course(w), Exists
        PROVE  Exists' /\ intent'.snap = intent.snap
    <3>1. ~Saves(w)
      BY <1>1, <2>2 DEF Saves
    <3>2. CASE UNCHANGED intent
      BY <2>2, <3>2 DEF Exists
    <3> QED BY <2>1, <2>2, <3>1, <3>2
            DEF Course, Calm, Doubts, Claims, Records, Settles, Nets, Submits,
                Replays, PaymentState
  <2> QED BY <1>1, <2>2, StepCourse DEF World, vars, Exists
<1>3. Earned => Earned'
  BY <1>1, <1>2, BackedStays DEF Earned
<1>4. CASE UNCHANGED vars \/ World
  BY <1>1, <1>3, <1>4 DEF vars, World, SuccessInv
<1>5. ASSUME NEW w \in Worker, Alone(w), Truthful(w)
      PROVE  \A v \in Worker :
               \/ reply'[v] = "SUCCESS" \/ outbox'[v] = "COMPLETED"
               \/ pc'[v] \in {"closeBypass", "closeCompleted"}
               => Earned'
  <2>1. pc[w] = "bypass" => Exists /\ intent.snap \in ZeroSnapshot
    BY <1>1 DEF Parts, BoundInv, Bound, PreClaim, Same
  <2>2. Entitled(w) => Earned
    BY <1>1 DEF Entitled, SuccessInv, BackedInv, Earned
  <2>3. pc[w] = "recordSettled" => Earned
    BY DEF BackedInv, Earned
  <2>4. ASSUME reply'[w] = "SUCCESS" \/ outbox'[w] = "COMPLETED"
                \/ pc'[w] \in {"closeBypass", "closeCompleted"}
        PROVE  Earned
    BY <1>5, <2>1, <2>2, <2>3, <2>4 DEF Truthful, Earned
  <2>5. \A v \in Worker : v # w =>
          reply'[v] = reply[v] /\ outbox'[v] = outbox[v] /\ pc'[v] = pc[v]
    BY <1>5 DEF Alone
  <2> QED BY <1>1, <1>3, <2>4, <2>5 DEF SuccessInv
<1> QED BY <1>1, <1>4, <1>5, StepCourse

\* Nobody is told SUCCESS, and no outbox item is completed, without a payout at
\* the gateway or a payment netted to zero, until a call goes on with an intent
\* of its own.
THEOREM SuccessIsEarned == Spec => [](~forked => SuccessIsPaid)
<1>1. CASE Evidenced
  <2>1. Init => BackedInv /\ SuccessInv
    BY DispatchAssumption
       DEF Init, BackedInv, SuccessInv, NoIntent, FreshIntent, Paid
  <2>2. IInv /\ BackedInv /\ SuccessInv /\ [Next]_vars => BackedInv' /\ SuccessInv'
    BY <1>1, BackedStep, SuccessStep
  <2>3. SuccessInv => (~forked => SuccessIsPaid)
    BY DEF SuccessInv, SuccessIsPaid, Earned, Backed
  <2> QED BY <2>1, <2>2, <2>3, Invariance, PTL DEF Spec
<1>2. CASE ~Evidenced
  <2>1. ~forked => SuccessIsPaid
    BY <1>2 DEF SuccessIsPaid
  <2> QED BY <2>1, PTL
<1> QED BY <1>1, <1>2
-----------------------------------------------------------------------------
(***************************************************************************)
(* PayoutOnce.  Once the intent is stored nobody draws a key of its own,   *)
(* so the payment never forks and every course is a step of the promise.   *)
(***************************************************************************)
Unforked ==
  /\ Exists /\ ~forked
  /\ \A w \in Worker : /\ pc[w] # "save"
                       /\ pc[w] = "check" => mine[w].key = intent.key

\* A preregistered intent is the only one any call ever holds.
LEMMA UnforkedStep == IInv /\ Unforked /\ [Next]_vars => Unforked'
<1> SUFFICES ASSUME IInv, Unforked, Kind PROVE Unforked'
  BY StepKind DEF IInv, Unforked, vars, Exists
<1> USE DEF Unforked
<1>1. TypeOK /\ intent \in Record
  BY DEF IInv, TypeOK
<1>2. ASSUME UNCHANGED intent \/ \E s \in PaymentState : UpdateIntent(s)
      PROVE  Exists' /\ intent'.key = intent.key
  BY <1>1, <1>2, UpdateFields DEF Exists
<1>3. ASSUME NEW w \in Worker, CallKind(w) PROVE Unforked'
  <2>1. CASE \E s \in Snapshot :
               \E c \in Clearance, k \in ProviderKey : CreateIntent(w, s, c, k)
    BY <2>1 DEF CreateIntent
  <2>2. ASSUME NEW s \in Snapshot, FetchIntent(w, s) PROVE Unforked'
    BY <1>1, <1>2, <2>2 DEF FetchIntent, BeginCall, Goto, TypeOK
  <2>3. CASE RequestRecovery(w)
    BY <1>1, <1>2, <2>3 DEF RequestRecovery, BeginCall, Goto, TypeOK
  <2>4. CASE Proceed(w)
    BY <1>1, <1>2, <2>4 DEF Proceed, CallUnchanged, Goto, At, TypeOK
  <2>5. CASE SaveIntent(w)
    BY <2>5 DEF SaveIntent, At
  <2>6. CASE Claim(w)
    BY <1>1, <1>2, <2>6 DEF Claim, CallUnchanged, Goto, TypeOK, PaymentState
  <2>7. CASE Moves(w)
    BY <1>1, <1>2, <2>7 DEF Moves, Others, Settled, PreClaim
  <2>8. CASE Stops(w)
    BY <1>1, <1>2, <2>8 DEF Stops, Others, Off, Settled
  <2>9. ASSUME NEW s \in PaymentState, Writes(w, s) PROVE Unforked'
    BY <1>1, <1>2, <2>9 DEF Writes, Others, Off, Settled
  <2>10. ASSUME NEW o \in Outcome, Pays(w, o) PROVE Unforked'
    BY <1>1, <1>2, <2>10 DEF Pays, Others, Off
  <2> QED BY <1>3, <2>1, <2>2, <2>3, <2>4, <2>5, <2>6, <2>7, <2>8, <2>9, <2>10
          DEF CallKind
<1>4. CASE Elapses
  BY <1>1, <1>2, <1>4 DEF Elapses
<1> QED BY <1>3, <1>4 DEF Kind

\* Where each status of dispatch stands in the promise.
LEMMA Phases ==
  /\ PhaseOf("READY_FOR_SUBMISSION") = "open"
  /\ PhaseOf("SUBMISSION_PENDING") = "submitting"
  /\ PhaseOf("UNKNOWN") = "indeterminate"
  /\ PhaseOf("SETTLED") = "settled"
  /\ PhaseOf("BYPASSED_ZERO_PAYOUT") = "netted"
BY DEF PhaseOf, Ready, Indeterminate, Paid

Payouts == {k \in ProviderKey : bank[k] # "none"}

\* A new payout is the first one.
LEMMA FirstPayout ==
  ASSUME IInv, IInv', ~forked, ~forked', UNCHANGED intent,
         NEW k \in ProviderKey, bank[k] = "none", k = intent.key,
         bank' = [bank EXCEPT ![k] = "queued"]
  PROVE  Payouts = {} /\ Payouts' = {k}
<1>1. bank \in [ProviderKey -> PayoutState]
  BY DEF IInv, TypeOK
<1>2. \A j \in ProviderKey : bank[j] # "none" => j = k
  BY DEF IInv, StoredInv, Parts, BankInv
<1> QED BY <1>1, <1>2 DEF Payouts

\* A course that rests at the gateway moves the phase as the promise allows.
LEMMA CourseKeepsPromise ==
  ASSUME IInv, IInv', StatusesInv, BackedInv, Unforked, ~forked', Evidenced,
         NEW w \in Worker, Course(w)
  PROVE  Promise!Next
           \/ UNCHANGED <<PhaseOf(intent.status), Payouts>>
<1> DEFINE phase == PhaseOf(intent.status)
<1>1. /\ TypeOK /\ intent \in Record /\ Exists /\ Parts
      /\ bank \in [ProviderKey -> PayoutState]
  BY DEF IInv, StoredInv, Parts, Unforked, TypeOK
<1>2. ASSUME NEW s \in PaymentState, UpdateIntent(s) PROVE intent'.status = s
  BY <1>1, <1>2, UpdateFields
<1>3. GatewayRests => Payouts' = Payouts
  BY DEF GatewayRests, Payouts
<1>4. Backed <=> Payouts # {}
  BY DEF Backed, Payouts
<1>5. CASE Calm(w) \/ Doubts(w)
  BY <1>3, <1>5 DEF Calm, Doubts
<1>6. ~Saves(w)
  BY DEF Saves, Unforked
<1>7. CASE Claims(w)
  <2>1. intent.status \in {"READY_FOR_SUBMISSION", "SUBMISSION_PENDING"}
    BY <1>7, ClaimFinds DEF Claims, Unforked
  <2>2. intent'.status = "SUBMISSION_PENDING" /\ Payouts' = Payouts
    BY <1>2, <1>3, <1>7 DEF Claims, PaymentState
  <2>3. phase \in {"open", "submitting"} /\ phase' = "submitting"
    BY <2>1, <2>2, Phases
  <2>4. Promise!Claim
    BY <2>2, <2>3 DEF Promise!Claim, Payouts
  <2> QED BY <2>4 DEF Promise!Next
<1>8. ASSUME NEW s \in {"SETTLED", "UNKNOWN"}, Records(w, s)
      PROVE  Promise!Next
  <2>1. intent.status = "SUBMISSION_PENDING"
    BY <1>8 DEF Records, StatusesInv, ClaimedInv, Claiming
  <2>2. intent'.status = s /\ Payouts' = Payouts
    BY <1>2, <1>3, <1>8 DEF Records, PaymentState
  <2>3. s = "SETTLED" => Payouts # {}
    BY <1>4, <1>8 DEF Records, BackedInv
  <2>4. CASE s = "SETTLED"
    <3>1. phase = "submitting" /\ phase' = "settled"
      BY <2>1, <2>2, <2>4, Phases
    <3> QED BY <2>2, <2>3, <2>4, <3>1 DEF Promise!Next, Promise!Settle, Payouts
  <2>5. CASE s = "UNKNOWN"
    <3>1. phase = "submitting" /\ phase' = "indeterminate"
      BY <2>1, <2>2, <2>5, Phases
    <3> QED BY <2>2, <3>1 DEF Promise!Next, Promise!Doubt, Payouts
  <2> QED BY <2>4, <2>5
<1>9. CASE Settles(w)
  <2>1. intent.status \in {"UNKNOWN", "SETTLED"}
    BY <1>9 DEF Settles, StatusesInv, DoubtInv, Doubting
  <2>2. intent'.status = "SETTLED" /\ Payouts' = Payouts /\ Payouts # {}
    BY <1>2, <1>3, <1>4, <1>9 DEF Settles, PaymentState, BackedInv
  <2>3. phase \in {"indeterminate", "settled"} /\ phase' = "settled"
    BY <2>1, <2>2, Phases
  <2> QED BY <2>2, <2>3 DEF Promise!Next, Promise!Settle, Payouts
<1>10. CASE Nets(w)
  <2>1. intent.status = "BYPASSED_ZERO_PAYOUT"
    BY <1>1, <1>10 DEF Nets, StatusesInv, NettedInv, Parts, BoundInv, Bound,
                       PreClaim, Same
  <2>2. intent'.status = "BYPASSED_ZERO_PAYOUT" /\ Payouts' = Payouts
    BY <1>2, <1>3, <1>10 DEF Nets, PaymentState
  <2> QED BY <2>1, <2>2
<1>11. ASSUME NEW o \in Outcome, Submits(w, o)
       PROVE  Promise!Next \/ UNCHANGED <<phase, Payouts>>
  <2>1. /\ intent.status = "SUBMISSION_PENDING" /\ UNCHANGED intent
        /\ mine[w].key = intent.key /\ intent.key \in ProviderKey
    BY <1>1, <1>11 DEF Submits, StatusesInv, ClaimedInv, Claiming, Parts,
                       BoundInv, Bound, Same, IInv, Keyed
  <2>2. CASE bank' = bank
    BY <2>1, <2>2 DEF Payouts
  <2>3. CASE bank' # bank
    <3>1. PICK k \in ProviderKey : k = intent.key
      BY <2>1
    <3>2. bank[k] = "none" /\ bank' = [bank EXCEPT ![k] = "queued"]
      BY <1>11, <2>1, <2>3, <3>1 DEF Submits, Gateway
    <3>3. Payouts = {} /\ Payouts' = {k}
      BY <2>1, <3>1, <3>2, FirstPayout DEF Unforked
    <3>4. phase = "submitting" /\ phase' = phase
      BY <2>1, Phases
    <3>5. Promise!Pay(k)
      BY <3>3, <3>4 DEF Promise!Pay, Payouts
    <3> QED BY <3>5 DEF Promise!Next
  <2> QED BY <2>2, <2>3
<1>12. ~ \E o \in Outcome : Replays(w, o)
  BY DEF Replays, BackedInv
<1> QED BY <1>5, <1>6, <1>7, <1>8, <1>9, <1>10, <1>11, <1>12 DEF Course

\* The gateway may pay late, but only what is still claimed or in doubt.
LEMMA WorldKeepsPromise ==
  ASSUME IInv, IInv', StatusesInv, BackedInv, Unforked, ~forked', World
  PROVE  Promise!Next
           \/ UNCHANGED <<PhaseOf(intent.status), Payouts>>
<1> DEFINE phase == PhaseOf(intent.status)
<1>1. UNCHANGED intent /\ phase' = phase
  BY DEF World
<1>2. bank \in [ProviderKey -> PayoutState]
  BY DEF IInv, TypeOK
<1>3. CASE GatewayRests
  BY <1>1, <1>3 DEF GatewayRests, Payouts
<1>4. ASSUME NEW k \in ProviderKey, GatewayResolves(k)
      PROVE  UNCHANGED <<phase, Payouts>>
  <2>1. \A j \in ProviderKey : bank'[j] # "none" <=> bank[j] # "none"
    BY <1>2, <1>4 DEF GatewayResolves
  <2> QED BY <1>1, <2>1 DEF Payouts
<1>5. ASSUME NEW k \in ProviderKey, GatewayLate(k)
      PROVE  Promise!Next \/ UNCHANGED <<phase, Payouts>>
  <2>1. k \in inflight /\ k = intent.key
    BY <1>5 DEF GatewayLate, IInv, StoredInv, Parts, BankInv, Unforked
  <2>2. CASE bank[k] # "none"
    <3>1. bank' = bank
      BY <1>2, <1>5, <2>2 DEF GatewayLate
    <3> QED BY <1>1, <3>1 DEF Payouts
  <2>3. CASE bank[k] = "none"
    <3>1. bank' = [bank EXCEPT ![k] = "queued"]
      BY <1>2, <1>5, <2>3 DEF GatewayLate
    <3>2. Payouts = {} /\ Payouts' = {k}
      BY <1>1, <2>1, <2>3, <3>1, FirstPayout DEF Unforked
    <3>3. intent.status \in {"SUBMISSION_PENDING", "UNKNOWN"}
      BY <2>1, <3>2 DEF StatusesInv, SpentInv, BackedInv, Backed, Payouts, Paid
    <3>4. phase \in {"submitting", "indeterminate"}
      BY <3>3, Phases
    <3>5. Promise!Pay(k)
      BY <1>1, <3>2, <3>4 DEF Promise!Pay, Payouts
    <3> QED BY <3>5 DEF Promise!Next
  <2> QED BY <2>2, <2>3
<1> QED BY <1>3, <1>4, <1>5 DEF World

\* Once the intent is stored, dispatch by any number of workers, with lost and
\* late answers, store faults, crashes and reconciliations, implements
\* PayoutOnce: money only under a claim, at most once, settled only when paid.
THEOREM DispatchKeepsPromise ==
  ASSUME Preregistered, ~SlowHolder, Evidenced PROVE Spec => KeepsPromise
<1> DEFINE PInv == IInv /\ OutcomeInv /\ BackedInv /\ Unforked
<1>1. Init => PInv
  <2> SUFFICES ASSUME Init PROVE PInv
    OBVIOUS
  <2>1. IInv
    BY TypeInit, InvInit DEF IInv
  <2>2. PICK k \in ProviderKey, s \in Snapshot, c \in Clearance :
          intent = FreshIntent(k, s, c)
    BY DEF Init
  <2>3. Unforked
    BY <2>2 DEF Init, Unforked, FreshIntent, Exists
  <2>4. BackedInv
    BY <2>2 DEF Init, BackedInv, FreshIntent, NoIntent, Paid
  <2> QED BY <2>1, <2>3, <2>4, OutcomeInit
<1>2. PInv /\ [Next]_vars => PInv'
  BY TypeStep, KeyedStep, StoredStep, LeaseStep, OutcomeStep, BackedStep,
     UnforkedStep DEF IInv
<1>3. Init => Promise!Init
  <2> SUFFICES ASSUME Init PROVE Promise!Init
    OBVIOUS
  <2>1. intent.status \in {"READY_FOR_SUBMISSION", "BYPASSED_ZERO_PAYOUT"}
    BY DEF Init, FreshIntent
  <2>2. PhaseOf(intent.status) \in {"open", "netted"}
    BY <2>1, Phases
  <2> QED BY <2>2 DEF Init, Promise!Init
<1>4. PInv /\ PInv' /\ [Next]_vars
        => [Promise!Next]_<<PhaseOf(intent.status),
                            {k \in ProviderKey : bank[k] # "none"}>>
  <2> SUFFICES ASSUME PInv, PInv', [Next]_vars
               PROVE  Promise!Next \/ UNCHANGED <<PhaseOf(intent.status), Payouts>>
    BY DEF Payouts
  <2>1. StatusesInv /\ ~forked'
    BY DEF OutcomeInv, Unforked
  <2>2. CASE UNCHANGED vars
    BY <2>2 DEF vars, Payouts
  <2>3. CASE Next
    BY <2>1, <2>3, StepCourse, CourseKeepsPromise, WorldKeepsPromise DEF IInv
  <2> QED BY <2>2, <2>3
<1> QED BY <1>1, <1>2, <1>3, <1>4, PTL DEF Spec, KeepsPromise, Promise!Spec
=============================================================================
