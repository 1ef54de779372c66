--------------------------- MODULE PaymentWebhooks ---------------------------
(***************************************************************************)
(* Provider callbacks (services/webhook_service.py, process_razorpayx_     *)
(* webhook) running beside the dispatch of the same payment.  A callback   *)
(* is authenticated, deduplicated by its event id, and applied to the      *)
(* intent by an unconditional update; between these accesses dispatch,     *)
(* reconciliation and other callbacks go on.                               *)
(*                                                                         *)
(* An event is a type and the payout it is about; redeliveries of an event *)
(* carry its id.  Callbacks with a bad signature or a stale timestamp      *)
(* are refused before any access and are left out.                         *)
(***************************************************************************)
EXTENDS PaymentDispatch

CONSTANTS
  Handler,        \* processes that run the webhook endpoint
  NotesCarryKey,  \* payout notes name the intent's idempotency key
  LocalStore,     \* the in-process store; FALSE: Firestore
  HandlerCrashes  \* a handler may die between two accesses

ASSUME WebhookAssumption ==
  {NotesCarryKey, LocalStore, HandlerCrashes} \subseteq BOOLEAN

VARIABLES
  hook,      \* each handler's position, event and the status it has read
  recorded,  \* events in the webhook_events collection
  acked,     \* events the provider got an answer for
  answer,    \* each handler's latest answer
  effects    \* history: how often an event was written to the intent

webhookVars == <<hook, recorded, acked, answer, effects>>
allVars == <<vars, webhookVars>>

EventType == {"initiated", "processed", "failed", "reversed"}
Event == EventType \X ProviderKey

Resting == [at |-> "idle", event |-> None, seen |-> "ABSENT"]

\* What the gateway reports of a payout.
Reported(t, k) ==
  CASE t = "initiated" -> bank[k] # "none"
    [] t = "processed" -> bank[k] \in {"processed", "reversed"}
    [] OTHER           -> bank[k] = t

Type(h) == hook[h].event[1]
HookAt(h, l) == hook[h].at = l
HookGoto(h, l) == hook' = [hook EXCEPT ![h].at = l]

\* Slip: what is noted as answered is the type of the event.
Respond_Vague(h, a) ==
  /\ hook' = [hook EXCEPT ![h] = Resting]
  /\ answer' = [answer EXCEPT ![h] = a]
  /\ acked' = acked \cup {Type(h)}

\* The handler answers; an answered event need not be delivered again.
Respond(h, a) ==
  /\ hook' = [hook EXCEPT ![h] = Resting]
  /\ answer' = [answer EXCEPT ![h] = a]
  /\ acked' = acked \cup {hook[h].event}

WebhookInit ==
  /\ Init
  /\ hook = [h \in Handler |-> Resting]
  /\ recorded = {}
  /\ acked = {}
  /\ answer = [h \in Handler |-> "none"]
  /\ effects = [e \in Event |-> 0]
-----------------------------------------------------------------------------
\* Deliveries come late, repeatedly and in any order.
Deliver(h, t, k) ==
  /\ HookAt(h, "idle")
  /\ Reported(t, k)
  /\ hook' = [hook EXCEPT ![h] = [at |-> "record", event |-> <<t, k>>,
                                  seen |-> "ABSENT"]]
  /\ answer' = [answer EXCEPT ![h] = "none"]
  /\ UNCHANGED <<vars, recorded, acked, effects>>

\* Slip: the event is looked up but not held back.
RecordEvent_Unheeded(h) ==
  /\ HookAt(h, "record")
  /\ recorded' = recorded \cup {hook[h].event}
  /\ HookGoto(h, "read")
  /\ UNCHANGED <<vars, acked, answer, effects>>

\* save_webhook_event: check and insert in one step in the local store.  With
\* Firestore the method ends before its transaction and returns None.
RecordEvent(h) ==
  /\ HookAt(h, "record")
  /\ IF LocalStore /\ hook[h].event \notin recorded
       THEN /\ recorded' = recorded \cup {hook[h].event}
            /\ HookGoto(h, "read")
            /\ UNCHANGED <<acked, answer>>
       ELSE /\ Respond(h, "DUPLICATE_IGNORED")
            /\ UNCHANGED recorded
  /\ UNCHANGED <<vars, effects>>

\* Slip: a reversal is applied like a failure.
NextAccess_Reversing(t, status) ==
  CASE t = "processed"                          -> "settle"
    [] t = "failed" /\ status # "SETTLED"       -> "fail"
    [] t = "reversed"                           -> "fail"
    [] OTHER                                    -> "respond"

\* What an event leads to, by the status just read.
NextAccess(t, status) ==
  CASE t = "processed"                          -> "settle"
    [] t = "failed" /\ status # "SETTLED"       -> "fail"
    [] t = "reversed"                           -> "flag"
    [] OTHER                                    -> "respond"

\* The intent is looked up by the key in the payout's notes, else by its
\* reference id, under which no intent is stored.
ReadIntent(h) ==
  /\ HookAt(h, "read")
  /\ IF NotesCarryKey /\ Exists
       THEN /\ hook' = [hook EXCEPT ![h].seen = intent.status,
                                    ![h].at = NextAccess(Type(h), intent.status)]
            /\ UNCHANGED <<acked, answer>>
       ELSE Respond(h, "ACKNOWLEDGED_UNKNOWN_INTENT")
  /\ UNCHANGED <<vars, recorded, effects>>

\* Every update is unconditional and its result ignored; a reversal sets flags
\* and counts the version up.
ApplyEvent(h) ==
  /\ hook[h].at \in {"settle", "fail", "flag"}
  /\ \/ /\ UpdateIntent(CASE HookAt(h, "settle") -> "SETTLED"
                          [] HookAt(h, "fail")   -> "FAILED"
                          [] HookAt(h, "flag")   -> intent.status)
        /\ effects' = [effects EXCEPT ![hook[h].event] = @ + 1]
     \/ StoreFaults /\ UNCHANGED <<intent, effects>>
  /\ HookGoto(h, "respond")
  /\ UNCHANGED <<lease, outbox, bank, inflight, drawn, forked, pc, mine, reply,
                 calls, recorded, acked, answer>>

\* Terminal protection only answers differently.
AnswerEvent(h) ==
  /\ HookAt(h, "respond")
  /\ Respond(h, CASE Type(h) = "processed" -> "SETTLED"
                  [] Type(h) = "failed"    -> "FAILED"
                  [] Type(h) = "reversed"  -> "REVERSAL_PENDING_APPROVAL"
                  [] OTHER -> IF hook[h].seen \in {"SETTLED", "RECONCILED"}
                                THEN "CONVERGED_TERMINAL" ELSE "ACKNOWLEDGED")
  /\ UNCHANGED <<vars, recorded, effects>>

HandlerCrash(h) ==
  /\ HandlerCrashes
  /\ ~HookAt(h, "idle")
  /\ hook' = [hook EXCEPT ![h] = Resting]
  /\ UNCHANGED <<vars, recorded, acked, answer, effects>>

\* A processed payout bounces back.
GatewayReverses(k) ==
  /\ bank[k] = "processed"
  /\ bank' = [bank EXCEPT ![k] = "reversed"]
  /\ UNCHANGED <<intent, lease, inflight>> /\ UNCHANGED callVars
  /\ UNCHANGED webhookVars

Handle(h) == RecordEvent(h) \/ ReadIntent(h) \/ ApplyEvent(h) \/ AnswerEvent(h)

WebhookNext ==
  \/ Next /\ UNCHANGED webhookVars
  \/ \E h \in Handler :
       \/ \E t \in EventType, k \in ProviderKey : Deliver(h, t, k)
       \/ Handle(h)
       \/ HandlerCrash(h)
  \/ \E k \in ProviderKey : GatewayReverses(k)

WebhookSpec == WebhookInit /\ [][WebhookNext]_allVars
-----------------------------------------------------------------------------
(***************************************************************************)
(* Properties.                                                             *)
(***************************************************************************)
WebhookTypeOK ==
  /\ hook \in [Handler ->
       [at: {"idle", "record", "read", "settle", "fail", "flag", "respond"},
        event: Event \cup {None}, seen: PaymentState \cup {"ABSENT"}]]
  /\ recorded \subseteq Event
  /\ acked \subseteq Event
  /\ effects \in [Event -> Nat]

\* However often an event is delivered, and to however many handlers at once,
\* it is written to the intent at most once.
AppliedOnce == \A e \in Event : effects[e] <= 1

\* Once a payout was processed and its payment stored as settled, no late or
\* repeated callback makes the payment failed, so that it would be paid anew.
ProcessedNeverFails ==
  [][/\ ~forked'
     /\ intent.status = "SETTLED"
     /\ \E k \in ProviderKey : bank[k] \in {"processed", "reversed"}
     => intent'.status # "FAILED"]_allVars
=============================================================================
