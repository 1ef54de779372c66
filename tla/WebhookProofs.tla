---------------------------- MODULE WebhookProofs ----------------------------
(***************************************************************************)
(* Proofs about PaymentWebhooks, for every number of handlers, events and  *)
(* deliveries, crashes of handlers and anything dispatch does meanwhile.   *)
(***************************************************************************)
EXTENDS PaymentWebhooks, DispatchProofs

-----------------------------------------------------------------------------
(***************************************************************************)
(* The store and the gateway under dispatch and callbacks.  What dispatch  *)
(* keeps, callbacks keep too, but for the status, which they may make      *)
(* failed or settled at any time.                                          *)
(***************************************************************************)
StoreInv == TypeOK /\ Keyed /\ (~forked => Parts)

\* An unforked payment was unforked before.
LEMMA DispatchStep == StoreInv /\ [Next]_vars => StoreInv'
<1> SUFFICES ASSUME StoreInv, [Next]_vars PROVE StoreInv'
  OBVIOUS
<1>1. TypeOK' /\ Keyed'
  BY TypeStep, KeyedStep DEF StoreInv
<1>2. ~forked' => ~forked
  BY StepKind, ForkedStays DEF StoreInv, vars
<1> QED BY <1>1, <1>2, PartsStep DEF StoreInv

\* A callback's write counts the version up past all who have read the intent,
\* and leaves its key, snapshot and clearance alone.
LEMMA ApplyStep ==
  ASSUME StoreInv, NEW h \in Handler, ApplyEvent(h) PROVE StoreInv'
<1>1. /\ TypeOK /\ Keyed /\ intent \in Record /\ intent.version \in Nat
      /\ \A v \in Worker : mine[v].version \in Nat
      /\ UNCHANGED <<lease, outbox, bank, inflight, drawn, forked, pc, mine,
                     reply, calls>>
  BY DEF StoreInv, TypeOK, Record, ApplyEvent
<1>2. CASE intent' = intent
  BY <1>1, <1>2
     DEF StoreInv, TypeOK, Keyed, At, Parts, ReadInv, DistinctInv, BoundInv,
         StatusInv, BankInv, FenceInv, ClaimInv, Reading, Same, Fresh, Exists,
         Claimant
<1>3. CASE intent' # intent
  <2>1. PICK s \in {"SETTLED", "FAILED", intent.status} : UpdateIntent(s) /\ Exists
    BY <1>3 DEF ApplyEvent, HookAt, UpdateIntent
  <2>2. s \in PaymentState
    BY <1>1, <2>1 DEF Exists, Record, PaymentState
  <2>3. /\ Exists /\ Exists' /\ intent'.status = s
        /\ intent'.version = intent.version + 1 /\ intent'.key = intent.key
        /\ intent'.snap = intent.snap /\ intent'.cleared = intent.cleared
    BY <1>1, <2>1, <2>2, UpdateFields
  <2>4. TypeOK' /\ Keyed'
    BY <1>1, <2>1, <2>2, <2>3, UpdateType DEF TypeOK, Keyed, At
  <2>5. ASSUME Parts PROVE Parts'
    <3> USE <1>1, <2>3, <2>5 DEF Parts
    <3>1. ReadInv' /\ DistinctInv' /\ BoundInv'
      BY DEF ReadInv, DistinctInv, BoundInv, Reading, Same
    <3>2. StatusInv'
      BY <2>1 DEF StatusInv
    <3>3. BankInv' /\ ClaimInv'
      BY DEF BankInv, ClaimInv, Claimant
    <3>4. FenceInv'
      BY DEF FenceInv, BoundInv, Bound, Same
    <3> QED BY <3>1, <3>2, <3>3, <3>4
  <2> QED BY <1>1, <2>4, <2>5 DEF StoreInv
<1> QED BY <1>2, <1>3

\* Neither does a payout that bounces touch any of it.
LEMMA ReverseStep ==
  ASSUME StoreInv, NEW k \in ProviderKey, GatewayReverses(k) PROVE StoreInv'
<1>1. bank' = [bank EXCEPT ![k] = "reversed"] /\ bank[k] = "processed"
  BY DEF GatewayReverses
<1>2. UNCHANGED <<intent, lease, inflight, outbox, drawn, forked, pc, mine,
                  reply, calls>>
  BY DEF GatewayReverses, callVars
<1>3. TypeOK' /\ Keyed'
  BY <1>1, <1>2 DEF StoreInv, TypeOK, PayoutState, Keyed, At, Exists
<1>4. Elapses
  BY <1>1, <1>2 DEF Elapses, StoreInv, TypeOK
<1> QED BY <1>2, <1>3, <1>4, ElapsesKeep DEF StoreInv

\* A failed payout stays failed.
LEMMA FailureStays ==
  ASSUME TypeOK, [Next]_vars, NEW k \in ProviderKey, bank[k] = "failed"
  PROVE  bank'[k] = "failed"
<1> USE DEF GatewayRests
<1>1. ASSUME NEW w \in Worker, Course(w) PROVE bank'[k] = "failed"
  <2>1. ASSUME NEW o \in Outcome, Gateway(mine[w].key, o)
        PROVE  bank'[k] = "failed"
    BY <2>1 DEF Gateway, TypeOK
  <2> QED BY <1>1, <2>1 DEF Course, Calm, Doubts, Saves, Claims, Records, Settles,
                            Nets, Submits, Replays
<1>2. CASE World
  BY <1>2 DEF World, GatewayLate, GatewayResolves, TypeOK
<1> QED BY <1>1, <1>2, StepCourse DEF vars
-----------------------------------------------------------------------------
(***************************************************************************)
(* Deduplication.                                                          *)
(***************************************************************************)
\* A handler between the deduplication and the write.
Applying(h) == hook[h].at \in {"read", "settle", "fail", "flag"}

\* An event on its way to the intent is recorded, not yet written, and no other
\* handler's; a written one stays recorded, so that it does not set out again.
DedupInv ==
  /\ \A h \in Handler : ~HookAt(h, "idle") => hook[h].event \in Event
  /\ \A h \in Handler : Applying(h) =>
       hook[h].event \in recorded /\ effects[hook[h].event] = 0
  /\ \A g, h \in Handler :
       Applying(g) /\ Applying(h) /\ g # h => hook[g].event # hook[h].event
  /\ \A e \in Event : effects[e] <= 1 /\ (effects[e] > 0 => e \in recorded)

\* A handler about to fail the intent was told so by the gateway.
FailedInv ==
  \A h \in Handler :
    /\ hook[h].at \in {"record", "read", "fail"} /\ Type(h) = "failed" =>
         bank[hook[h].event[2]] = "failed"
    /\ HookAt(h, "fail") => Type(h) = "failed"

HandlerInv == WebhookTypeOK /\ DedupInv /\ FailedInv

WebhookInv == StoreInv /\ HandlerInv

\* The record a handler keeps.
Position ==
  [at: {"idle", "record", "read", "settle", "fail", "flag", "respond"},
   event: Event \cup {None}, seen: PaymentState \cup {"ABSENT"}]

\* A handler goes on with the event it has.
LEMMA GoesOn ==
  ASSUME hook \in [Handler -> Position], NEW h \in Handler,
         NEW l \in {"read", "settle", "fail", "flag", "respond"},
         NEW s \in PaymentState \cup {"ABSENT"},
         hook' = [hook EXCEPT ![h] =
                    [at |-> l, event |-> hook[h].event, seen |-> s]]
  PROVE  /\ hook' \in [Handler -> Position]
         /\ hook'[h].at = l /\ hook'[h].event = hook[h].event
         /\ \A g \in Handler \ {h} : hook'[g] = hook[g]
<1> DEFINE p == [at |-> l, event |-> hook[h].event, seen |-> s]
<1>1. p \in Position /\ p.at = l /\ p.event = hook[h].event
  BY DEF Position
<1> HIDE DEF p
<1>2. hook' = [hook EXCEPT ![h] = p]
  BY DEF p
<1> QED BY <1>1, <1>2

\* A handler rests, after an answer or a crash.
LEMMA Rests ==
  ASSUME hook \in [Handler -> Position], NEW h \in Handler,
         hook' = [hook EXCEPT ![h] = Resting]
  PROVE  /\ hook' \in [Handler -> Position]
         /\ hook'[h] = Resting
         /\ \A g \in Handler \ {h} : hook'[g] = hook[g]
BY DEF Position, Resting

\* Resting or answering, a handler disturbs no other.
LEMMA LeavesOff ==
  ASSUME HandlerInv, NEW h \in Handler, hook' \in [Handler -> Position],
         hook'[h].at \in {"idle", "respond"},
         hook'[h].at # "idle" => hook'[h].event \in Event,
         \A g \in Handler \ {h} : hook'[g] = hook[g],
         UNCHANGED <<recorded, effects, bank>>
  PROVE  DedupInv' /\ FailedInv'
BY DEF HandlerInv, DedupInv, FailedInv, Applying, HookAt, Type

\* Initially nothing was delivered.
LEMMA WebhookInvInit == WebhookInit => WebhookInv
<1> SUFFICES ASSUME WebhookInit PROVE WebhookInv
  OBVIOUS
<1>1. StoreInv
  BY TypeInit, InvInit DEF WebhookInit, StoreInv, StoredInv
<1>2. WebhookTypeOK
  BY DEF WebhookInit, WebhookTypeOK, Resting
<1>3. DedupInv /\ FailedInv
  BY DEF WebhookInit, DedupInv, FailedInv, Applying, HookAt, Resting
<1> QED BY <1>1, <1>2, <1>3 DEF WebhookInv, HandlerInv

\* One step per access of a handler; dispatch and the gateway touch nothing of
\* theirs, and what was reported as failed stays so.
LEMMA HandlerStep ==
  ASSUME WebhookInv, WebhookNext PROVE HandlerInv'
<1>1. hook \in [Handler -> Position] /\ HandlerInv
  BY DEF WebhookInv, HandlerInv, WebhookTypeOK, Position
<1>2. ASSUME UNCHANGED webhookVars,
             \A k \in ProviderKey : bank[k] = "failed" => bank'[k] = "failed"
      PROVE  HandlerInv'
  <2>1. WebhookTypeOK' /\ DedupInv'
    BY <1>1, <1>2 DEF HandlerInv, WebhookTypeOK, DedupInv, Applying, HookAt,
                      webhookVars
  <2>2. \A h \in Handler : ~HookAt(h, "idle") => hook[h].event[2] \in ProviderKey
    BY <1>1 DEF HandlerInv, DedupInv, Event
  <2>3. FailedInv'
    BY <1>1, <1>2, <2>2 DEF HandlerInv, FailedInv, HookAt, Type, webhookVars
  <2> QED BY <2>1, <2>3 DEF HandlerInv
<1>3. ASSUME NEW h \in Handler, NEW t \in EventType, NEW k \in ProviderKey,
             Deliver(h, t, k)
      PROVE  HandlerInv'
  <2>1. <<t, k>> \in Event /\ <<t, k>>[1] = t /\ <<t, k>>[2] = k
    BY DEF Event
  <2> DEFINE p == [at |-> "record", event |-> <<t, k>>, seen |-> "ABSENT"]
  <2>2. p \in Position
    BY <2>1 DEF Position
  <2>3. /\ hook' = [hook EXCEPT ![h] = p]
        /\ UNCHANGED <<bank, recorded, acked, effects>>
    BY <1>3 DEF Deliver, vars
  <2>4. p.at = "record" /\ p.event = <<t, k>>
    OBVIOUS
  <2>5. t = "failed" => bank[k] = "failed"
    BY <1>3 DEF Deliver, Reported
  <2> HIDE DEF p
  <2>6. /\ hook' \in [Handler -> Position]
        /\ hook'[h] = p
        /\ \A g \in Handler \ {h} : hook'[g] = hook[g]
    BY <1>1, <2>2, <2>3
  <2>7. DedupInv'
    BY <1>1, <2>1, <2>3, <2>4, <2>6 DEF HandlerInv, DedupInv, Applying, HookAt
  <2>8. FailedInv'
    BY <1>1, <2>1, <2>3, <2>4, <2>5, <2>6 DEF HandlerInv, FailedInv, HookAt, Type
  <2> QED BY <1>1, <2>3, <2>6, <2>7, <2>8 DEF HandlerInv, WebhookTypeOK, Position
<1>4. ASSUME NEW h \in Handler, ~HookAt(h, "idle"),
             hook' = [hook EXCEPT ![h] = Resting],
             acked' \in {acked, acked \cup {hook[h].event}},
             UNCHANGED <<bank, recorded, effects>>
      PROVE  HandlerInv'
  <2>1. /\ hook' \in [Handler -> Position]
        /\ hook'[h] = Resting
        /\ \A g \in Handler \ {h} : hook'[g] = hook[g]
    BY <1>1, <1>4, Rests
  <2>2. DedupInv' /\ FailedInv'
    BY <1>1, <1>4, <2>1, LeavesOff DEF Resting
  <2>3. acked' \subseteq Event
    BY <1>1, <1>4 DEF HandlerInv, WebhookTypeOK, DedupInv
  <2> QED BY <1>1, <1>4, <2>1, <2>2, <2>3 DEF HandlerInv, WebhookTypeOK, Position
<1>5. ASSUME NEW h \in Handler, RecordEvent(h) PROVE HandlerInv'
  <2>1. CASE LocalStore /\ hook[h].event \notin recorded
    <3>1. hook' = [hook EXCEPT ![h] =
                     [at |-> "read", event |-> hook[h].event,
                      seen |-> hook[h].seen]]
      BY <1>1, <1>5, <2>1 DEF RecordEvent, HookGoto, Position
    <3>2. hook[h] \in Position /\ hook[h].seen \in PaymentState \cup {"ABSENT"}
      BY <1>1 DEF Position
    <3>3. /\ hook' \in [Handler -> Position]
          /\ hook'[h].at = "read" /\ hook'[h].event = hook[h].event
          /\ \A g \in Handler \ {h} : hook'[g] = hook[g]
      BY <1>1, <3>1, <3>2, GoesOn
    <3>4. /\ hook[h].event \in Event /\ HookAt(h, "record")
          /\ recorded' = recorded \cup {hook[h].event}
          /\ UNCHANGED <<bank, acked, effects>>
      BY <1>1, <1>5, <2>1 DEF RecordEvent, HandlerInv, DedupInv, HookAt, vars
    <3>5. effects[hook[h].event] = 0
      BY <1>1, <2>1, <3>4 DEF HandlerInv, DedupInv, WebhookTypeOK
    <3>6. DedupInv'
      BY <1>1, <2>1, <3>3, <3>4, <3>5 DEF HandlerInv, DedupInv, Applying, HookAt
    <3>7. FailedInv'
      BY <1>1, <3>3, <3>4 DEF HandlerInv, FailedInv, HookAt, Type
    <3> QED BY <1>1, <3>3, <3>4, <3>6, <3>7 DEF HandlerInv, WebhookTypeOK, Position
  <2>2. CASE ~(LocalStore /\ hook[h].event \notin recorded)
    BY <1>4, <1>5, <2>2 DEF RecordEvent, Respond, HookAt, vars
  <2> QED BY <2>1, <2>2
<1>6. ASSUME NEW h \in Handler, ReadIntent(h) PROVE HandlerInv'
  <2>1. CASE NotesCarryKey /\ Exists
    <3> DEFINE l == NextAccess(Type(h), intent.status)
    <3>1. /\ l \in {"settle", "fail", "flag", "respond"}
          /\ l = "fail" => Type(h) = "failed"
      BY DEF NextAccess
    <3>2. intent.status \in PaymentState \cup {"ABSENT"}
      BY DEF WebhookInv, StoreInv, TypeOK, Record
    <3>3. hook' = [hook EXCEPT ![h] =
                     [at |-> l, event |-> hook[h].event, seen |-> intent.status]]
      BY <1>1, <1>6, <2>1 DEF ReadIntent, Position
    <3>4. /\ HookAt(h, "read")
          /\ UNCHANGED <<bank, recorded, acked, effects>>
      BY <1>6, <2>1 DEF ReadIntent, vars
    <3> HIDE DEF l
    <3>5. /\ hook' \in [Handler -> Position]
          /\ hook'[h].at = l /\ hook'[h].event = hook[h].event
          /\ \A g \in Handler \ {h} : hook'[g] = hook[g]
      BY <1>1, <3>1, <3>2, <3>3, GoesOn
    <3>6. DedupInv'
      BY <1>1, <3>1, <3>4, <3>5 DEF HandlerInv, DedupInv, Applying, HookAt
    <3>7. FailedInv'
      BY <1>1, <3>1, <3>4, <3>5 DEF HandlerInv, FailedInv, HookAt, Type
    <3> QED BY <1>1, <3>4, <3>5, <3>6, <3>7 DEF HandlerInv, WebhookTypeOK, Position
  <2>2. CASE ~(NotesCarryKey /\ Exists)
    BY <1>4, <1>6, <2>2 DEF ReadIntent, Respond, HookAt, vars
  <2> QED BY <2>1, <2>2
<1>7. ASSUME NEW h \in Handler, ApplyEvent(h) PROVE HandlerInv'
  <2>1. /\ Applying(h) /\ hook[h].event \in Event
        /\ UNCHANGED <<bank, recorded, acked>>
    BY <1>1, <1>7 DEF ApplyEvent, Applying, HookAt, HandlerInv, DedupInv
  <2>2. hook' = [hook EXCEPT ![h] =
                   [at |-> "respond", event |-> hook[h].event,
                    seen |-> hook[h].seen]]
    <3>1. hook' = [hook EXCEPT ![h] = [hook[h] EXCEPT !.at = "respond"]]
      BY <1>7 DEF ApplyEvent, HookGoto
    <3>2. hook[h] \in Position
      BY <1>1
    <3>3. [hook[h] EXCEPT !.at = "respond"]
            = [at |-> "respond", event |-> hook[h].event, seen |-> hook[h].seen]
      BY <3>2 DEF Position
    <3> QED BY <3>1, <3>3
  <2>3. hook[h] \in Position /\ hook[h].seen \in PaymentState \cup {"ABSENT"}
    BY <1>1 DEF Position
  <2>4. /\ hook' \in [Handler -> Position]
        /\ hook'[h].at = "respond" /\ hook'[h].event = hook[h].event
        /\ \A g \in Handler \ {h} : hook'[g] = hook[g]
    BY <1>1, <2>2, <2>3, GoesOn
  <2>5. \/ effects' = effects
        \/ effects' = [effects EXCEPT ![hook[h].event] = 1]
    BY <1>1, <1>7, <2>1 DEF ApplyEvent, HandlerInv, DedupInv
  <2>6. DedupInv' /\ effects' \in [Event -> Nat]
    BY <1>1, <2>1, <2>4, <2>5
       DEF HandlerInv, DedupInv, WebhookTypeOK, Applying, HookAt
  <2>7. FailedInv'
    BY <1>1, <2>1, <2>4 DEF HandlerInv, FailedInv, HookAt, Type
  <2> QED BY <1>1, <2>1, <2>4, <2>6, <2>7 DEF HandlerInv, WebhookTypeOK, Position
<1>8. ASSUME NEW h \in Handler, AnswerEvent(h) PROVE HandlerInv'
  BY <1>4, <1>8 DEF AnswerEvent, Respond, HookAt, vars
<1>9. ASSUME NEW h \in Handler, HandlerCrash(h) PROVE HandlerInv'
  BY <1>4, <1>9 DEF HandlerCrash, vars
<1>10. ASSUME NEW k \in ProviderKey, GatewayReverses(k) PROVE HandlerInv'
  BY <1>2, <1>10 DEF GatewayReverses, WebhookInv, StoreInv, TypeOK
<1>11. CASE Next /\ UNCHANGED webhookVars
  BY <1>2, <1>11, FailureStays DEF WebhookInv, StoreInv
<1> QED BY <1>3, <1>5, <1>6, <1>7, <1>8, <1>9, <1>10, <1>11 DEF WebhookNext, Handle

\* The inductive invariant holds in every behaviour.
THEOREM WebhookInvariance == WebhookSpec => []WebhookInv
<1>1. WebhookInv /\ [WebhookNext]_allVars => WebhookInv'
  <2> SUFFICES ASSUME WebhookInv, [WebhookNext]_allVars PROVE WebhookInv'
    OBVIOUS
  <2>1. CASE UNCHANGED allVars
    <3>1. StoreInv'
      BY <2>1, DispatchStep DEF WebhookInv, allVars
    <3>2. HandlerInv'
      BY <2>1 DEF WebhookInv, HandlerInv, WebhookTypeOK, DedupInv, FailedInv,
                  Applying, HookAt, Type, allVars, webhookVars, vars
    <3> QED BY <3>1, <3>2 DEF WebhookInv
  <2>2. CASE WebhookNext
    <3>1. ASSUME NEW h \in Handler, ApplyEvent(h) PROVE StoreInv'
      BY <3>1, ApplyStep DEF WebhookInv
    <3>2. ASSUME NEW k \in ProviderKey, GatewayReverses(k) PROVE StoreInv'
      BY <3>2, ReverseStep DEF WebhookInv
    <3>3. ASSUME [Next]_vars PROVE StoreInv'
      BY <3>3, DispatchStep DEF WebhookInv
    <3>4. ASSUME NEW h \in Handler,
                 \/ \E t \in EventType, k \in ProviderKey : Deliver(h, t, k)
                 \/ RecordEvent(h) \/ ReadIntent(h) \/ AnswerEvent(h)
                 \/ HandlerCrash(h)
          PROVE  StoreInv'
      <4>1. ASSUME NEW t \in EventType, NEW k \in ProviderKey, Deliver(h, t, k)
            PROVE  UNCHANGED vars
        BY <4>1 DEF Deliver
      <4>2. ASSUME RecordEvent(h) PROVE UNCHANGED vars
        BY <4>2 DEF RecordEvent
      <4>3. ASSUME ReadIntent(h) PROVE UNCHANGED vars
        BY <4>3 DEF ReadIntent
      <4>4. ASSUME AnswerEvent(h) PROVE UNCHANGED vars
        BY <4>4 DEF AnswerEvent
      <4>5. ASSUME HandlerCrash(h) PROVE UNCHANGED vars
        BY <4>5 DEF HandlerCrash
      <4>6. UNCHANGED vars
        BY <3>4, <4>1, <4>2, <4>3, <4>4, <4>5
      <4> QED BY <3>3, <4>6
    <3>5. StoreInv'
      BY <2>2, <3>1, <3>2, <3>3, <3>4 DEF WebhookNext, Handle
    <3> QED BY <2>2, <3>5, HandlerStep DEF WebhookInv
  <2> QED BY <2>1, <2>2
<1> QED BY <1>1, WebhookInvInit, PTL DEF WebhookSpec
-----------------------------------------------------------------------------
(***************************************************************************)
(* What follows.                                                           *)
(***************************************************************************)
\* Handlers and their collections keep their types, and so does the intent they
\* and dispatch write.
THEOREM WebhookTypeCorrect == WebhookSpec => [](WebhookTypeOK /\ TypeOK)
<1>1. WebhookInv => WebhookTypeOK /\ TypeOK
  BY DEF WebhookInv, StoreInv, HandlerInv
<1> QED BY <1>1, WebhookInvariance, PTL

\* However often and to however many handlers an event is delivered, and
\* wherever they crash, it is written to the intent at most once.
THEOREM EventsAppliedOnce == WebhookSpec => []AppliedOnce
<1>1. WebhookInv => AppliedOnce
  BY DEF WebhookInv, HandlerInv, DedupInv, AppliedOnce
<1> QED BY <1>1, WebhookInvariance, PTL

\* Callbacks that settle, fail or reverse the payment between any two accesses
\* of its dispatch never make it be paid under a second key.
THEOREM OnePayoutUnderCallbacks == WebhookSpec => []OnePayout
<1>1. WebhookInv => OnePayout
  BY DEF WebhookInv, StoreInv, Parts, BankInv, OnePayout
<1> QED BY <1>1, WebhookInvariance, PTL

\* A payment stored as settled, with its payout processed, is never made failed:
\* a callback about a failed payout would have to be about another key.
THEOREM ProcessedStaysPaid == WebhookSpec => ProcessedNeverFails
<1> DEFINE Processed == \E k \in ProviderKey : bank[k] \in {"processed", "reversed"}
           Stays == ~forked' /\ intent.status = "SETTLED" /\ Processed
                      => intent'.status # "FAILED"
<1>1. WebhookInv /\ [WebhookNext]_allVars => [Stays]_allVars
  <2> SUFFICES ASSUME WebhookInv, WebhookNext, ~forked',
                      intent.status = "SETTLED", Processed
               PROVE  intent'.status # "FAILED"
    OBVIOUS
  <2>1. CASE Next
    <3>1. ~forked
      BY <2>1, StepKind, ForkedStays DEF WebhookInv, StoreInv, vars
    <3> QED BY <2>1, <3>1, NeverFails DEF WebhookInv, StoreInv
  <2>2. ASSUME NEW h \in Handler, ApplyEvent(h) PROVE intent'.status # "FAILED"
    <3>1. ~forked /\ Parts /\ intent \in Record /\ Exists
      BY <2>2 DEF ApplyEvent, WebhookInv, StoreInv, TypeOK, Exists
    <3>2. ~HookAt(h, "fail")
      <4> SUFFICES ASSUME HookAt(h, "fail") PROVE FALSE
        OBVIOUS
      <4>1. PICK k \in ProviderKey : bank[k] \in {"processed", "reversed"}
        OBVIOUS
      <4>2. /\ hook[h].event[2] \in ProviderKey
            /\ bank[hook[h].event[2]] = "failed"
        BY DEF WebhookInv, HandlerInv, DedupInv, FailedInv, HookAt, Event
      <4> QED BY <3>1, <4>1, <4>2 DEF Parts, BankInv
    <3>3. UpdateIntent("SETTLED") \/ UNCHANGED intent
      BY <2>2, <3>2 DEF ApplyEvent, HookAt
    <3> QED BY <3>1, <3>3, UpdateFields DEF PaymentState
  <2>3. CASE UNCHANGED intent
    BY <2>3
  <2> QED BY <2>1, <2>2, <2>3
          DEF WebhookNext, Handle, Deliver, RecordEvent, ReadIntent, AnswerEvent,
              HandlerCrash, GatewayReverses, vars
<1> QED BY <1>1, WebhookInvariance, PTL DEF WebhookSpec, ProcessedNeverFails
=============================================================================
