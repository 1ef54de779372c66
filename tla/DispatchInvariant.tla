------------------------- MODULE DispatchInvariant -------------------------
(***************************************************************************)
(* The inductive invariant behind OnePayout, ClaimsSerialized, FencedClaim,*)
(* PayoutAuthorized and ExclusiveSubmission of PaymentDispatch.  All but   *)
(* the lease part speak of histories in which no call went on with an      *)
(* intent other than the stored one: from then on the stored key, snapshot *)
(* and clearance are fixed, and the version tells who read what.           *)
(***************************************************************************)
EXTENDS PaymentDispatch

\* Labels at which a call works for the stored intent.
PreClaim ==
  {"enqueue", "bypass", "lock", "poll", "relock", "lastLook", "recheck",
   "process", "claim"}
Bound ==
  PreClaim \cup {"submit", "recordSettled", "recordUnknown", "replayQuery",
                 "replay"}

\* The call's intent object is the stored one, perhaps at an older version.
Same(w) ==
  /\ mine[w].key = intent.key
  /\ mine[w].snap = intent.snap
  /\ mine[w].cleared = intent.cleared
  /\ mine[w].version <= intent.version

\* The call's intent object is a new one nobody else can hold.
Fresh(w) ==
  /\ mine[w] = FreshIntent(mine[w].key, mine[w].snap, mine[w].cleared)
  /\ mine[w].key \in drawn

\* Stored intents, and those of running calls, carry a provider key.
Keyed ==
  /\ Exists => intent.key \in ProviderKey
  /\ \A w \in Worker : ~At(w, "idle") => mine[w].key \in ProviderKey

\* Between the two reads of the intent.
Reading(w) == pc[w] \in {"check", "save"}

ReadInv ==
  \A w \in Worker : Reading(w) =>
    /\ IF Exists THEN mine[w].key = intent.key => Same(w) ELSE Fresh(w)
    /\ pc[w] = "save" => mine[w].cleared

DistinctInv ==
  ~Exists => \A v, w \in Worker :
               Reading(v) /\ Reading(w) /\ v # w => mine[v].key # mine[w].key

BoundInv ==
  \A w \in Worker : pc[w] \in Bound =>
    /\ Exists
    /\ Same(w)
    /\ mine[w].cleared
    /\ pc[w] = "bypass" => mine[w].snap \in ZeroSnapshot
    /\ pc[w] \notin {"enqueue", "bypass"} => mine[w].snap \notin ZeroSnapshot

StatusInv ==
  /\ intent.status \in {"ABSENT", "READY_FOR_SUBMISSION", "SUBMISSION_PENDING",
                        "UNKNOWN", "SETTLED", "FAILED", "BYPASSED_ZERO_PAYOUT"}
  /\ intent.status = "BYPASSED_ZERO_PAYOUT" => intent.snap \in ZeroSnapshot
  /\ intent.status \in {"SUBMISSION_PENDING", "UNKNOWN"} =>
       intent.cleared /\ intent.snap \notin ZeroSnapshot

BankInv ==
  \A k \in ProviderKey : bank[k] # "none" \/ k \in inflight =>
    /\ Exists
    /\ k = intent.key
    /\ intent.cleared
    /\ intent.snap \notin ZeroSnapshot

\* Before the claim, an unchanged version means an open or claimed intent, or a
\* failed one, which only a callback makes of it.
FenceInv ==
  \A w \in Worker : pc[w] \in PreClaim /\ mine[w].version = intent.version =>
    intent.status \in {"READY_FOR_SUBMISSION", "SUBMISSION_PENDING", "FAILED",
                       "BYPASSED_ZERO_PAYOUT"}

ClaimInv ==
  /\ \A w \in Worker : Claimant(w) => mine[w].version < intent.version
  /\ \A v, w \in Worker : Claimant(v) /\ Claimant(w) /\ v # w =>
                            mine[v].version # mine[w].version

LeaseInv ==
  ~SlowHolder => \A w \in Worker : pc[w] \in CriticalSection => lease = w

\* What callbacks from the gateway leave true as well.
Parts ==
  /\ ReadInv /\ DistinctInv /\ BoundInv /\ StatusInv
  /\ BankInv /\ FenceInv /\ ClaimInv

\* Dispatch itself never makes an intent failed.
StoredInv == ~forked => Parts /\ intent.status # "FAILED"

\* While nobody went on with a private intent object, every call works for the
\* stored intent; and without slow holders the lease is exclusive.
IInv == TypeOK /\ Keyed /\ StoredInv /\ LeaseInv
=============================================================================
