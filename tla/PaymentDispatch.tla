-------------------------- MODULE PaymentDispatch --------------------------
(***************************************************************************)
(* Durable payout dispatch for one economic payment (one idempotency key): *)
(* services/payment_orchestrator.py run by several worker processes over   *)
(* the shared store (firestore_store.py) and the RazorpayX gateway         *)
(* (razorpayx_client.py).                                                  *)
(*                                                                         *)
(* A call is get_or_create_payment_intent followed by                      *)
(* dispatch_payment_intent.  Each store or gateway access of a call is one *)
(* action; everything between two accesses is local to the process.        *)
(* Whatever a call read earlier it keeps in mine[w] and uses later, as the *)
(* code does with its `intent` argument.                                   *)
(***************************************************************************)
EXTENDS Naturals, FiniteSets, PaymentStates

CONSTANTS
  Worker,        \* processes executing calls (uvicorn workers, instances)
  ProviderKey,   \* the values uuid4() can return
  Snapshot,      \* financial snapshots a caller may present
  ZeroSnapshot,  \* those whose net payout is below 100 paise
  Clearance,     \* whether presented intents pass the PRODUCTION gate
  Outcome,       \* what the gateway may do with a submission
  MaxCalls,      \* bound: calls each worker makes
  SlowHolder,    \* a lease may lapse while its holder is still running
  StoreFaults,   \* update_payment_intent may exhaust its retries
  ReplayRecovery,\* operators call reconcile with allow_idempotent_replay
  SharedReference, \* other payouts carry this payment's reference_id
  Preregistered, \* an earlier call persisted the intent and stopped there
  None,          \* no lease holder
  Orphan         \* a lease whose holder crashed

ASSUME DispatchAssumption ==
  /\ ZeroSnapshot \subseteq Snapshot
  /\ Clearance \subseteq BOOLEAN
  /\ Outcome \subseteq {"accepted", "lost", "delayed", "dropped", "refused"}
  /\ MaxCalls \in Nat
  /\ {SlowHolder, StoreFaults, ReplayRecovery, SharedReference, Preregistered}
       \subseteq BOOLEAN
  /\ None \notin Worker /\ Orphan \notin Worker /\ None # Orphan

VARIABLES
  intent,    \* the stored payment_intents document
  lease,     \* holder of distributed_locks/dispatch_payout_<key>
  outbox,    \* state of the outbox item of each worker's latest call
  bank,      \* payouts at the gateway, by provider idempotency key
  inflight,  \* submissions the gateway may still act upon after a timeout
  drawn,     \* provider keys generated so far
  forked,    \* history: a call went on with a key other than the stored one
  pc,        \* the next access of each worker's call
  mine,      \* the intent object each call holds
  reply,     \* what each worker's latest call answers
  calls      \* calls started by each worker

vars == <<intent, lease, outbox, bank, inflight, drawn, forked,
          pc, mine, reply, calls>>

Label ==
  {"idle", "check", "save", "enqueue", "bypass", "closeBypass", "lock",
   "poll", "relock", "lastLook", "recheck", "process", "claim", "reread",
   "submit", "recordSettled", "recordUnknown", "closeCompleted",
   "closeAmbiguous", "release", "reconcile", "replayQuery", "replay", "settle"}

Record ==
  [status: PaymentState \cup {"ABSENT"}, version: Nat,
   key: ProviderKey \cup {None}, snap: Snapshot \cup {None},
   cleared: BOOLEAN]

NoIntent ==
  [status |-> "ABSENT", version |-> 0, key |-> None, snap |-> None,
   cleared |-> FALSE]

\* A new intent as the factory builds it: version 1, ready or netted to zero.
FreshIntent(k, s, c) ==
  [status  |-> IF s \in ZeroSnapshot THEN "BYPASSED_ZERO_PAYOUT"
                                     ELSE "READY_FOR_SUBMISSION",
   version |-> 1, key |-> k, snap |-> s, cleared |-> c]

Exists == intent.status # "ABSENT"

\* Slip: an update that leaves the version alone.
UpdateIntent_Unnumbered(status) ==
  intent' = IF Exists THEN [intent EXCEPT !.status = status] ELSE intent

\* update_payment_intent without expected_version: last writer wins.
UpdateIntent(status) ==
  intent' = IF Exists
              THEN [intent EXCEPT !.status = status, !.version = @ + 1]
              ELSE intent

\* Slip: expected_version is not passed on.
VersionMatches_Unchecked(w) == Exists

\* The precondition of update_payment_intent with expected_version.
VersionMatches(w) == Exists /\ intent.version = mine[w].version

Goto(w, l)  == pc' = [pc EXCEPT ![w] = l]
At(w, l)    == pc[w] = l
Answer(w, r) == reply' = [reply EXCEPT ![w] = r]

\* The call ends here: it answers r and forgets its intent object.
Return(w, r) ==
  /\ Goto(w, "idle")
  /\ Answer(w, r)
  /\ mine' = [mine EXCEPT ![w] = NoIntent]
-----------------------------------------------------------------------------
Init ==
  /\ drawn \in {D \in SUBSET ProviderKey :
                  Cardinality(D) = IF Preregistered THEN 1 ELSE 0}
  /\ intent \in IF Preregistered
                  THEN {FreshIntent(k, s, c) :
                          k \in drawn, s \in Snapshot, c \in Clearance}
                  ELSE {NoIntent}
  /\ lease = None
  /\ outbox = [w \in Worker |-> "none"]
  /\ bank = [k \in ProviderKey |-> "none"]
  /\ inflight = {}
  /\ forked = FALSE
  /\ pc = [w \in Worker |-> "idle"]
  /\ mine = [w \in Worker |-> NoIntent]
  /\ reply = [w \in Worker |-> "none"]
  /\ calls = [w \in Worker |-> 0]

BeginCall(w) ==
  /\ At(w, "idle")
  /\ calls[w] < MaxCalls
  /\ calls' = [calls EXCEPT ![w] = @ + 1]
  /\ outbox' = [outbox EXCEPT ![w] = "none"]
  /\ UNCHANGED <<intent, lease, bank, inflight, forked>>

\* get_or_create_payment_intent finds no document and builds an intent with a
\* new uuid4 provider key; nothing is written yet.
CreateIntent(w, s, c, k) ==
  /\ BeginCall(w)
  /\ ~Exists
  /\ k \notin drawn
  /\ drawn' = drawn \cup {k}
  /\ mine' = [mine EXCEPT ![w] = FreshIntent(k, s, c)]
  /\ Goto(w, "check")
  /\ Answer(w, "none")

\* It finds one: the material attributes must agree.
FetchIntent(w, s) ==
  /\ BeginCall(w)
  /\ Exists
  /\ intent.snap = s
  /\ mine' = [mine EXCEPT ![w] = intent]
  /\ Goto(w, "check")
  /\ Answer(w, "none")
  /\ UNCHANGED drawn

MaterialConflict(w, s) ==
  /\ BeginCall(w)
  /\ Exists
  /\ intent.snap # s
  /\ Answer(w, "ERROR")
  /\ UNCHANGED <<drawn, pc, mine>>
-----------------------------------------------------------------------------
(***************************************************************************)
(* dispatch_payment_intent up to the lease.                                *)
(***************************************************************************)
EffectiveStatus(w) == IF Exists THEN intent.status ELSE mine[w].status

CallUnchanged == UNCHANGED <<outbox, bank, inflight, drawn, calls>>

ReturnCached(w) ==
  /\ At(w, "check")
  /\ EffectiveStatus(w) \in Paid
  /\ Return(w, "SUCCESS")
  /\ UNCHANGED <<intent, lease, forked>> /\ CallUnchanged

FenceIndeterminate(w) ==
  /\ At(w, "check")
  /\ EffectiveStatus(w) \in Indeterminate
  /\ Goto(w, "reconcile")
  /\ UNCHANGED <<intent, lease, forked, mine, reply>> /\ CallUnchanged

\* Slip: only settled payments are turned away.
Dispatchable_Doubtful(w) == EffectiveStatus(w) \notin Paid

Dispatchable(w) == EffectiveStatus(w) \notin Paid \cup Indeterminate

\* PRODUCTION gating: no trusted bank verification and no override.
RejectUncleared(w) ==
  /\ At(w, "check")
  /\ Dispatchable(w)
  /\ ~mine[w].cleared
  /\ Return(w, "ERROR")
  /\ UNCHANGED <<intent, lease, forked>> /\ CallUnchanged

\* Slip: the production gate is never asked.
Proceed_Ungated(w) ==
  /\ At(w, "check")
  /\ Dispatchable(w)
  /\ Goto(w, IF Exists THEN "enqueue" ELSE "save")
  /\ forked' = (forked \/ (Exists /\ intent.key # mine[w].key))
  /\ UNCHANGED <<intent, lease, mine, reply>> /\ CallUnchanged

\* The second read decides whether the intent object gets persisted.
Proceed(w) ==
  /\ At(w, "check")
  /\ Dispatchable(w)
  /\ mine[w].cleared
  /\ Goto(w, IF Exists THEN "enqueue" ELSE "save")
  /\ forked' = (forked \/ (Exists /\ intent.key # mine[w].key))
  /\ UNCHANGED <<intent, lease, mine, reply>> /\ CallUnchanged

\* save_payment_intent is a blind set of the whole document.
SaveIntent(w) ==
  /\ At(w, "save")
  /\ intent' = mine[w]
  /\ forked' = (forked \/ Exists)
  /\ Goto(w, "enqueue")
  /\ UNCHANGED <<lease, mine, reply>> /\ CallUnchanged

SaveOutboxItem(w) ==
  /\ At(w, "enqueue")
  /\ outbox' = [outbox EXCEPT ![w] = "PENDING"]
  /\ Goto(w, IF mine[w].snap \in ZeroSnapshot THEN "bypass" ELSE "lock")
  /\ UNCHANGED <<intent, lease, bank, inflight, drawn, forked, mine, reply,
                 calls>>

\* The zero-payout bypass ignores whether its conditional update succeeded.
Bypass(w) ==
  /\ At(w, "bypass")
  /\ IF VersionMatches(w) THEN UpdateIntent("BYPASSED_ZERO_PAYOUT")
                          ELSE UNCHANGED intent
  /\ Goto(w, "closeBypass")
  /\ UNCHANGED <<lease, forked, mine, reply>> /\ CallUnchanged

CloseBypass(w) ==
  /\ At(w, "closeBypass")
  /\ outbox' = [outbox EXCEPT ![w] = "COMPLETED"]
  /\ Return(w, "SUCCESS")
  /\ UNCHANGED <<intent, lease, bank, inflight, drawn, forked, calls>>

\* Slip: an unexpired lease is taken over.
AcquireLease_Stolen(w, from, otherwise) ==
  /\ At(w, from)
  /\ lease' = w
  /\ Goto(w, "recheck")
  /\ UNCHANGED <<intent, forked, mine, reply>> /\ CallUnchanged

AcquireLease(w, from, otherwise) ==
  /\ At(w, from)
  /\ lease' = IF lease = None THEN w ELSE lease
  /\ Goto(w, IF lease = None THEN "recheck" ELSE otherwise)
  /\ UNCHANGED <<intent, forked, mine, reply>> /\ CallUnchanged

FirstAttempt(w) == AcquireLease(w, "lock", "poll")
SecondAttempt(w) == AcquireLease(w, "relock", "lastLook")

\* One of the 80 polls sees the peer's settlement, or all of them fail; the
\* polls in between change nothing.
PollSeesSettled(w) ==
  /\ pc[w] \in {"poll", "lastLook"}
  /\ intent.status \in Paid
  /\ Return(w, "SUCCESS")
  /\ UNCHANGED <<intent, lease, forked>> /\ CallUnchanged

\* Slip: the polls have no limit.
PollExhausted_Never(w) ==
  /\ At(w, "poll")
  /\ intent.status \in Paid
  /\ Goto(w, "relock")
  /\ UNCHANGED <<intent, lease, forked, mine, reply>> /\ CallUnchanged

PollExhausted(w) ==
  /\ At(w, "poll")
  /\ intent.status \notin Paid
  /\ Goto(w, "relock")
  /\ UNCHANGED <<intent, lease, forked, mine, reply>> /\ CallUnchanged

LeaseConflict(w) ==
  /\ At(w, "lastLook")
  /\ intent.status \notin Paid
  /\ Return(w, "ERROR")
  /\ UNCHANGED <<intent, lease, forked>> /\ CallUnchanged
-----------------------------------------------------------------------------
(***************************************************************************)
(* The critical section: re-check, claim, submit, record, release.         *)
(***************************************************************************)
\* Leave the try block: the finally clause releases the lease next.
Leave(w, r) == Goto(w, "release") /\ Answer(w, r) /\ UNCHANGED mine

Recheck(w) ==
  /\ At(w, "recheck")
  /\ IF intent.status \in Paid
       THEN Leave(w, "SUCCESS")
       ELSE Goto(w, "process") /\ UNCHANGED <<mine, reply>>
  /\ UNCHANGED <<intent, lease, forked>> /\ CallUnchanged

\* Slip: the payment's state is written into the outbox item.
MarkProcessing_Confused(w) ==
  /\ At(w, "process")
  /\ outbox' = [outbox EXCEPT ![w] = "SUBMISSION_PENDING"]
  /\ Goto(w, "claim")
  /\ UNCHANGED <<intent, lease, bank, inflight, drawn, forked, mine, reply,
                 calls>>

MarkProcessing(w) ==
  /\ At(w, "process")
  /\ outbox' = [outbox EXCEPT ![w] = "PROCESSING"]
  /\ Goto(w, "claim")
  /\ UNCHANGED <<intent, lease, bank, inflight, drawn, forked, mine, reply,
                 calls>>

\* The compare-and-swap on the version read by get_or_create.
Claim(w) ==
  /\ At(w, "claim")
  /\ VersionMatches(w)
  /\ UpdateIntent("SUBMISSION_PENDING")
  /\ Goto(w, "submit")
  /\ UNCHANGED <<lease, forked, mine, reply>> /\ CallUnchanged

\* The update reports failure: the version moved on, or the store gave up
\* after its retries (its last commit may have gone through).
ClaimLost(w) ==
  /\ At(w, "claim")
  /\ \/ ~VersionMatches(w) /\ UNCHANGED intent
     \/ /\ StoreFaults /\ VersionMatches(w)
        /\ UNCHANGED intent \/ UpdateIntent("SUBMISSION_PENDING")
  /\ Goto(w, "reread")
  /\ UNCHANGED <<lease, forked, mine, reply>> /\ CallUnchanged

\* Slip: a lost claim returns past the finally clause.
Reread_Leaky(w) ==
  /\ At(w, "reread")
  /\ Return(w, IF intent.status \in Paid THEN "SUCCESS" ELSE "ERROR")
  /\ UNCHANGED <<intent, lease, forked>> /\ CallUnchanged

Reread(w) ==
  /\ At(w, "reread")
  /\ Leave(w, IF intent.status \in Paid THEN "SUCCESS" ELSE "ERROR")
  /\ UNCHANGED <<intent, lease, forked>> /\ CallUnchanged

\* The gateway keeps one payout per provider key.  A submission is carried
\* out, carried out with the answer lost, left in flight past the timeout,
\* dropped, or refused (HTTP 4xx, a body the client cannot read, a dry run).
Gateway(k, o) ==
  /\ bank' = IF o \in {"accepted", "lost"} /\ bank[k] = "none"
               THEN [bank EXCEPT ![k] = "queued"] ELSE bank
  /\ inflight' = IF o = "delayed" THEN inflight \cup {k} ELSE inflight

\* Slip: network errors fall through like refusals do.
ClientReport_Optimist(o) == IF o = "delayed" THEN "UNKNOWN" ELSE "CONFIRMED"

\* stage_payout reports UNKNOWN for a 5xx, a timeout or a network error and
\* CONFIRMED for everything else, refusals included.
ClientReport(o) ==
  IF o \in {"accepted", "refused"} THEN "CONFIRMED" ELSE "UNKNOWN"

\* Slip: the provider key is drawn per submission, not per intent.
Submit_NewKey(w, o) ==
  /\ At(w, "submit")
  /\ \E k \in ProviderKey \ drawn : Gateway(k, o) /\ drawn' = drawn \cup {k}
  /\ Goto(w, IF ClientReport(o) = "UNKNOWN" THEN "recordUnknown"
                                           ELSE "recordSettled")
  /\ UNCHANGED <<intent, lease, outbox, forked, mine, reply, calls>>

Submit(w, o) ==
  /\ At(w, "submit")
  /\ Gateway(mine[w].key, o)
  /\ Goto(w, IF ClientReport(o) = "UNKNOWN" THEN "recordUnknown"
                                           ELSE "recordSettled")
  /\ UNCHANGED <<intent, lease, outbox, drawn, forked, mine, reply, calls>>

\* The outcome is written without expected_version and its result ignored.
RecordOutcome(w, label, status, next) ==
  /\ At(w, label)
  /\ UpdateIntent(status) \/ (StoreFaults /\ UNCHANGED intent)
  /\ Goto(w, next)
  /\ UNCHANGED <<lease, forked, mine, reply>> /\ CallUnchanged

RecordSettled(w) ==
  RecordOutcome(w, "recordSettled", "SETTLED", "closeCompleted")
\* Slip: after a timeout the intent is made ready for a retry.
RecordUnknown_Retry(w) ==
  RecordOutcome(w, "recordUnknown", "READY_FOR_SUBMISSION", "closeAmbiguous")

RecordUnknown(w) ==
  RecordOutcome(w, "recordUnknown", "UNKNOWN", "closeAmbiguous")

\* Slip: doubtful submissions close their outbox item as completed.
CloseOutboxItem_Completed(w) ==
  /\ pc[w] \in {"closeCompleted", "closeAmbiguous"}
  /\ outbox' = [outbox EXCEPT ![w] = "COMPLETED"]
  /\ Leave(w, IF At(w, "closeCompleted") THEN "SUCCESS" ELSE "AMBIGUOUS")
  /\ UNCHANGED <<intent, lease, bank, inflight, drawn, forked, calls>>

CloseOutboxItem(w) ==
  /\ \/ /\ At(w, "closeCompleted")
        /\ outbox' = [outbox EXCEPT ![w] = "COMPLETED"]
        /\ Leave(w, "SUCCESS")
     \/ /\ At(w, "closeAmbiguous")
        /\ outbox' = [outbox EXCEPT ![w] = "AMBIGUOUS"]
        /\ Leave(w, "AMBIGUOUS")
  /\ UNCHANGED <<intent, lease, bank, inflight, drawn, forked, calls>>

\* release_lock deletes the lease only if this call still holds it.
ReleaseLease(w) ==
  /\ At(w, "release")
  /\ lease' = IF lease = w THEN None ELSE lease
  /\ Return(w, reply[w])
  /\ UNCHANGED <<intent, forked>> /\ CallUnchanged
-----------------------------------------------------------------------------
(***************************************************************************)
(* reconcile_ambiguous_intent: no lease and no version precondition.       *)
(***************************************************************************)
\* The recovery procedure: an operator reconciles an indeterminate intent and
\* allows the replay.
RequestRecovery(w) ==
  /\ BeginCall(w)
  /\ ReplayRecovery
  /\ intent.status \in Indeterminate
  /\ mine' = [mine EXCEPT ![w] = intent]
  /\ Goto(w, "replayQuery")
  /\ Answer(w, "none")
  /\ UNCHANGED drawn

Querying(w) == pc[w] \in {"reconcile", "replayQuery"}

\* The query goes by reference_id INV-<invoice number> and the first payout
\* listed is believed, whichever it is.  Payouts of the ingestion and of Slack
\* carry that reference too, and so does another vendor's or another year's
\* invoice of the same number; neither amount nor provider key is compared.
Listed(state) ==
  SharedReference \/ \E k \in ProviderKey : bank[k] \in state

QueryConfirms(w) ==
  /\ Querying(w)
  /\ Listed({"processed"})
  /\ Goto(w, "settle")
  /\ UNCHANGED <<intent, lease, forked, mine, reply>> /\ CallUnchanged

\* A payout is found that is not processed: nothing is written.
QueryInconclusive(w) ==
  /\ Querying(w)
  /\ Listed({"queued", "failed", "reversed"})
  /\ Return(w, "ERROR")
  /\ UNCHANGED <<intent, lease, forked>> /\ CallUnchanged

\* No payout is listed, or the query itself fails.
QueryEmpty(w) ==
  /\ Querying(w)
  /\ IF At(w, "replayQuery")
       THEN Goto(w, "replay") /\ UNCHANGED <<mine, reply>>
       ELSE Return(w, "ERROR")
  /\ UNCHANGED <<intent, lease, forked>> /\ CallUnchanged

\* The replay's answer always carries an id, so it always counts as settled.
Replay(w, o) ==
  /\ At(w, "replay")
  /\ Gateway(mine[w].key, o)
  /\ Goto(w, "settle")
  /\ UNCHANGED <<intent, lease, outbox, drawn, forked, mine, reply, calls>>

SettleReconciled(w) ==
  /\ At(w, "settle")
  /\ UpdateIntent("SETTLED") \/ (StoreFaults /\ UNCHANGED intent)
  /\ Return(w, "SUCCESS")
  /\ UNCHANGED <<lease, forked>> /\ CallUnchanged
-----------------------------------------------------------------------------
(***************************************************************************)
(* The environment: the gateway's own progress, crashes and time.          *)
(***************************************************************************)
callVars == <<outbox, drawn, forked, pc, mine, reply, calls>>

GatewayLate(k) ==
  /\ k \in inflight
  /\ inflight' = inflight \ {k}
  /\ bank' = [bank EXCEPT ![k] = IF @ = "none" THEN "queued" ELSE @]
  /\ UNCHANGED <<intent, lease>> /\ UNCHANGED callVars

GatewayResolves(k) ==
  /\ bank[k] = "queued"
  /\ \E s \in {"processed", "failed"} : bank' = [bank EXCEPT ![k] = s]
  /\ UNCHANGED <<intent, lease, inflight>> /\ UNCHANGED callVars

Crash(w) ==
  /\ ~At(w, "idle")
  /\ lease' = IF lease = w THEN Orphan ELSE lease
  /\ Return(w, "none")
  /\ UNCHANGED <<intent, outbox, bank, inflight, drawn, forked, calls>>

\* 60 seconds have passed since the lease was taken.
LeaseLapses ==
  /\ lease = Orphan \/ (SlowHolder /\ lease \in Worker)
  /\ lease' = None
  /\ UNCHANGED <<intent, bank, inflight>> /\ UNCHANGED callVars
-----------------------------------------------------------------------------
Start(w) ==
  \/ \E s \in Snapshot :
       \/ \E c \in Clearance, k \in ProviderKey : CreateIntent(w, s, c, k)
       \/ FetchIntent(w, s)
       \/ MaterialConflict(w, s)
  \/ RequestRecovery(w)

Prepare(w) ==
  \/ ReturnCached(w) \/ FenceIndeterminate(w) \/ RejectUncleared(w)
  \/ Proceed(w) \/ SaveIntent(w) \/ SaveOutboxItem(w)
  \/ Bypass(w) \/ CloseBypass(w)
  \/ FirstAttempt(w) \/ SecondAttempt(w)
  \/ PollSeesSettled(w) \/ PollExhausted(w) \/ LeaseConflict(w)

Execute(w) ==
  \/ Recheck(w) \/ MarkProcessing(w) \/ Claim(w) \/ ClaimLost(w) \/ Reread(w)
  \/ \E o \in Outcome : Submit(w, o)
  \/ RecordSettled(w) \/ RecordUnknown(w) \/ CloseOutboxItem(w) \/ ReleaseLease(w)

Reconcile(w) ==
  \/ QueryConfirms(w) \/ QueryInconclusive(w) \/ QueryEmpty(w)
  \/ \E o \in Outcome : Replay(w, o)
  \/ SettleReconciled(w)

Environment ==
  \/ \E k \in ProviderKey : GatewayLate(k) \/ GatewayResolves(k)
  \/ \E w \in Worker : Crash(w)
  \/ LeaseLapses

Next ==
  \/ \E w \in Worker : Start(w) \/ Prepare(w) \/ Execute(w) \/ Reconcile(w)
  \/ Environment

Spec == Init /\ [][Next]_vars

\* A started call keeps running unless its process crashes: every gateway
\* request times out and every store access gives up after bounded retries.
\* An abandoned lease carries an expiry time, which passes.
Fairness ==
  /\ \A w \in Worker : WF_vars(Prepare(w) \/ Execute(w) \/ Reconcile(w))
  /\ WF_vars(lease = Orphan /\ LeaseLapses)

FairSpec == Spec /\ Fairness
-----------------------------------------------------------------------------
(***************************************************************************)
(* Properties.                                                             *)
(***************************************************************************)
CriticalSection ==
  {"recheck", "process", "claim", "reread", "submit", "recordSettled",
   "recordUnknown", "closeCompleted", "closeAmbiguous", "release"}

Claimant(w) == pc[w] \in {"submit", "recordSettled", "recordUnknown"}

\* A payout at the gateway; only PaymentWebhooks sees one reversed.
PayoutState == {"none", "queued", "processed", "failed", "reversed"}

\* Every variable stays in its domain.
TypeOK ==
  /\ intent \in Record
  /\ lease \in Worker \cup {None, Orphan}
  /\ outbox \in [Worker -> {"none", "PENDING", "PROCESSING", "COMPLETED",
                            "AMBIGUOUS"}]
  /\ bank \in [ProviderKey -> PayoutState]
  /\ inflight \subseteq ProviderKey
  /\ drawn \subseteq ProviderKey
  /\ forked \in BOOLEAN
  /\ pc \in [Worker -> Label]
  /\ mine \in [Worker -> Record]
  /\ reply \in [Worker -> {"none", "SUCCESS", "AMBIGUOUS", "ERROR"}]
  /\ calls \in [Worker -> Nat]

\* However calls crash, retry, outlive their lease or race, the gateway holds
\* or awaits payouts under one provider key only, unless some call went on with
\* an intent object other than the stored one (the stale first read of
\* get_or_create_payment_intent).
OnePayout ==
  ~forked => \A k1, k2 \in ProviderKey :
                /\ bank[k1] # "none" \/ k1 \in inflight
                /\ bank[k2] # "none" \/ k2 \in inflight
                => k1 = k2

\* Two calls that both won the claim won it at different versions, so each
\* version of the stored intent is submitted by at most one of them, even
\* after a lease has lapsed.
ClaimsSerialized ==
  ~forked => \A v, w \in Worker :
                Claimant(v) /\ Claimant(w) /\ v # w
                  => mine[v].version # mine[w].version

\* A submission is claimed only from a ready or an already claimed intent; an
\* indeterminate or settled one is never claimed again, although the status was
\* judged on one read and the version taken from another.
FencedClaim ==
  [][~forked' /\ intent' # intent /\ intent'.status = "SUBMISSION_PENDING"
       => intent.status \in Ready \cup {"SUBMISSION_PENDING"}]_vars

\* As long as no lease is outlived, only its holder is in the critical section.
ExclusiveSubmission ==
  ~SlowHolder => \A v, w \in Worker :
                    pc[v] \in CriticalSection /\ pc[w] \in CriticalSection => v = w

\* Every status the code writes follows the transition matrix that it never
\* consults; in particular SETTLED is final.
LegalTransitions ==
  [][~forked' /\ Exists => CanTransition(intent.status, intent'.status)]_vars

\* What the gateway is taken to mean is what it did: it refuses nothing (a
\* refusal is reported CONFIRMED), nobody replays on faith, and no other payout
\* carries this payment's reference.
Evidenced == "refused" \notin Outcome /\ ~ReplayRecovery /\ ~SharedReference

\* Where the gateway's answers are evidence, a caller is told SUCCESS, and an
\* outbox item is completed, only if the gateway holds a payout or the payment
\* was netted to zero.
SuccessIsPaid ==
  Evidenced /\ (\E w \in Worker : reply[w] = "SUCCESS" \/ outbox[w] = "COMPLETED")
     => \/ \E k \in ProviderKey : bank[k] # "none"
        \/ intent.snap \in ZeroSnapshot

\* There, a stored SETTLED is backed by a payout at the gateway.
SettledBacked ==
  Evidenced /\ intent.status = "SETTLED" => \E k \in ProviderKey : bank[k] # "none"

\* No payout leaves for an intent that did not pass the production gate, nor for
\* one whose credits leave less than the gateway's minimum to pay.
PayoutAuthorized ==
  ~forked /\ (\E k \in ProviderKey : bank[k] # "none")
    => intent.cleared /\ intent.snap \notin ZeroSnapshot

\* Every call returns, whatever its peers do.
CallsReturn == \A w \in Worker : ~At(w, "idle") ~> At(w, "idle")

\* Whoever holds the lease is still on its way to the finally clause, whichever
\* return it takes: since every call returns, no lease outlasts its call by more
\* than the expiry of a dead one.
LeaseReturned ==
  \A w \in Worker : lease = w => pc[w] \in CriticalSection
=============================================================================
