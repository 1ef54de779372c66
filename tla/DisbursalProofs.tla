--------------------------- MODULE DisbursalProofs ---------------------------
(***************************************************************************)
(* HistoryInv is an invariant of InvoiceDisbursal for every number of      *)
(* processes, vendors, invoices, years and requests, and SettledAsAgreed,  *)
(* PaidAsApproved and PaidOnce follow; DecisionsKept rests on an invariant *)
(* of its own.                                                             *)
(***************************************************************************)
EXTENDS DisbursalInvariant, FiniteSetTheorems, TLAPS

Paying == {"dispatch", "bulk"}
Answers == {"SUCCESS", "AMBIGUOUS", "ERROR"}

\* Zero is an amount and a year.
LEMMA ZeroTypes == 0 \in Amount /\ 0 \in Year
BY DisbursalAssumption DEF Amount, Year

\* The absent decision and the empty history are well formed.
LEMMA EmptyTypes ==
  NoDecision \in Decision /\ EmptyHistory \in [Invoice -> Decision]
<1>1. \E v : v \in Vendor
  BY DisbursalAssumption
<1>2. (CHOOSE v \in Vendor : TRUE) \in Vendor
  BY <1>1
<1> QED BY <1>2, ZeroTypes DEF NoDecision, EmptyHistory, Decision

\* A process loads a well-formed history.
LEMMA LoadedType ==
  ASSUME DisbursalTypeOK, NEW p \in Process
  PROVE  Loaded(p) \in [Invoice -> Decision]
BY DEF DisbursalTypeOK, Loaded

\* A decision reduced within the bound is well formed.
LEMMA ReducedType ==
  ASSUME NEW d \in Decision, d.terms < MaxCuts
  PROVE  /\ [d EXCEPT !.terms = @ + 1] \in Decision
         /\ [d EXCEPT !.status = "SHORT_PAID_APPROVED", !.terms = @ + 1] \in Decision
<1>1. d.terms + 1 \in Amount
  BY DisbursalAssumption DEF Decision, Amount
<1> QED BY <1>1 DEF Decision, InvoiceState, Approved

\* What is recorded of an answer is well formed, and keeps vendor and terms.
LEMMA RecordedType ==
  ASSUME NEW d \in Decision, NEW answer \in {"SUCCESS", "AMBIGUOUS"},
         NEW key \in ClientKey \cup {NoKey, IntentKey}
  PROVE  /\ Recorded(d, answer, key) \in Decision
         /\ Recorded(d, answer, key).terms = d.terms
         /\ Recorded(d, answer, key).vendor = d.vendor
         /\ Recorded(d, answer, key).status =
              IF answer = "SUCCESS" THEN "SETTLED" ELSE "PAYMENT_UNKNOWN"
BY DEF Recorded, Decision, InvoiceState
-----------------------------------------------------------------------------
(***************************************************************************)
(* What the actions do to the histories.                                   *)
(***************************************************************************)
\* A process goes on at a label with a history and a job; the others stay.
Moves(p, label, h, j) ==
  /\ at' = [at EXCEPT ![p] = label]
  /\ copy' = [copy EXCEPT ![p] = h]
  /\ job' = [job EXCEPT ![p] = j]

\* An assignment that changes nothing, for the actions that leave a part alone.
LEMMA Unmoved ==
  ASSUME DisbursalTypeOK, NEW p \in Process
  PROVE  /\ copy = [copy EXCEPT ![p] = copy[p]]
         /\ job = [job EXCEPT ![p] = job[p]]
         /\ at = [at EXCEPT ![p] = at[p]]
         /\ call = [call EXCEPT ![p] = call[p]]
BY DEF DisbursalTypeOK

\* A move to well-formed parts keeps the types of the parts.
LEMMA MovesType ==
  ASSUME DisbursalTypeOK, NEW p \in Process,
         NEW label \in {"idle", "save", "clear", "remove", "dispatch", "bulk"},
         NEW h \in [Invoice -> Decision], NEW j \in Job, Moves(p, label, h, j)
  PROVE  /\ copy' \in [Process -> [Invoice -> Decision]]
         /\ at' \in [Process -> {"idle", "save", "clear", "remove", "dispatch",
                                 "bulk"}]
         /\ job' \in [Process -> Job]
BY DEF DisbursalTypeOK, Moves

\* An answered call is over.  The process goes on with at most the decision of
\* the call changed: settled by a success, or in doubt.
Notes(p, i, answer) ==
  /\ call' = [call EXCEPT ![p] = NoCall]
  /\ UNCHANGED <<present, file, uploadVars, year, approved, requests>>
  /\ \E d \in Decision, label \in {"idle", "save", "bulk"}, j \in Job :
       /\ Moves(p, label, [copy[p] EXCEPT ![i] = d], j)
       /\ label = "bulk" => /\ at[p] = "bulk"
                            /\ j.todo = job[p].todo \ {i}
                            /\ j.invoices = job[p].invoices
       /\ label = "save" => j = job[p]
       /\ d.vendor = copy[p][i].vendor /\ d.terms = copy[p][i].terms
       /\ \/ d = copy[p][i]
          \/ d.status = "SETTLED" /\ answer = "SUCCESS"
          \/ d.status = "PAYMENT_UNKNOWN"

\* The empty job is one.
LEMMA NoJobType == NoJob \in Job
BY DEF NoJob, Job

LEMMA AnsweredNotes ==
  ASSUME DisbursalTypeOK, NEW p \in Process, NEW i \in Invoice,
         NEW answer \in Answers, at[p] \in Paying, Answered(p, i, answer)
  PROVE  Notes(p, i, answer)
<1> DEFINE d == copy[p][i]
           key == CASE at[p] = "bulk" /\ answer = "AMBIGUOUS" -> d.key
                    [] job[p].key = NoKey                     -> IntentKey
                    [] OTHER                                  -> job[p].key
           e == IF answer = "ERROR" THEN d ELSE Recorded(d, answer, key)
           h == IF answer = "ERROR" THEN copy[p]
                  ELSE [copy[p] EXCEPT ![i] = Recorded(d, answer, key)]
           left == [job[p] EXCEPT !.todo = @ \ {i}]
<1>1. d \in Decision /\ copy[p] \in [Invoice -> Decision] /\ job[p] \in Job
  BY DEF DisbursalTypeOK
<1>2. key \in ClientKey \cup {NoKey, IntentKey}
  BY <1>1 DEF Decision, Job
<1> HIDE DEF key, d
<1>3. /\ e \in Decision /\ e.vendor = d.vendor /\ e.terms = d.terms
      /\ \/ e = d
         \/ e.status = "SETTLED" /\ answer = "SUCCESS"
         \/ e.status = "PAYMENT_UNKNOWN"
  <2>1. CASE answer = "ERROR"
    BY <1>1, <2>1
  <2>2. CASE answer # "ERROR"
    BY <1>1, <1>2, <2>2, RecordedType DEF Answers
  <2> QED BY <2>1, <2>2
<1>4. h = [copy[p] EXCEPT ![i] = e]
  <2>1. CASE answer = "ERROR"
    BY <1>1, <2>1 DEF d
  <2>2. CASE answer # "ERROR"
    BY <2>2
  <2> QED BY <2>1, <2>2
<1>5. /\ call' = [call EXCEPT ![p] = NoCall]
      /\ UNCHANGED <<present, file, uploadVars, year, approved, requests>>
      /\ at[p] = "bulk" => Moves(p, "bulk", h, left)
      /\ at[p] # "bulk" /\ answer = "ERROR" => Moves(p, "idle", copy[p], NoJob)
      /\ at[p] # "bulk" /\ answer # "ERROR" => Moves(p, "save", h, job[p])
  BY Unmoved DEF Answered, key, d, Proceed, Finish, Moves
<1> HIDE DEF e, h, left
<1>6. CASE at[p] = "bulk"
  <2>1. Moves(p, "bulk", [copy[p] EXCEPT ![i] = e], left)
    BY <1>4, <1>5, <1>6
  <2>2. left \in Job /\ left.todo = job[p].todo \ {i}
        /\ left.invoices = job[p].invoices
    BY <1>1 DEF Job, left
  <2> QED BY <1>3, <1>5, <1>6, <2>1, <2>2 DEF Notes, d
<1>7. CASE at[p] # "bulk" /\ answer = "ERROR"
  <2>1. Moves(p, "idle", copy[p], NoJob)
    BY <1>5, <1>7
  <2>2. copy[p] = [copy[p] EXCEPT ![i] = d]
    BY <1>1 DEF d
  <2> QED BY <1>1, <1>5, <2>1, <2>2, NoJobType DEF Notes, d
<1>8. CASE at[p] # "bulk" /\ answer # "ERROR"
  <2>1. Moves(p, "save", [copy[p] EXCEPT ![i] = e], job[p])
    BY <1>4, <1>5, <1>8
  <2> QED BY <1>1, <1>3, <1>5, <2>1 DEF Notes, d
<1> QED BY <1>6, <1>7, <1>8

\* The endpoints that record start no payment and leave payments alone.
Quiet(p) ==
  /\ UNCHANGED <<year, paymentVars>>
  /\ \/ UNCHANGED <<at, copy, job>>
     \/ \E h \in [Invoice -> Decision], j \in Job,
           label \in {"idle", "save", "clear", "remove"} :
          at[p] \notin Paying /\ Moves(p, label, h, j)

LEMMA QuietType ==
  ASSUME DisbursalTypeOK, NEW p \in Process, Quiet(p)
  PROVE  /\ copy' \in [Process -> [Invoice -> Decision]]
         /\ at' \in [Process -> {"idle", "save", "clear", "remove", "dispatch",
                                 "bulk"}]
         /\ job' \in [Process -> Job]
         /\ year' \in Year
         /\ intent' \in [Account -> Intent]
         /\ call' \in [Process -> Call]
         /\ payouts' \subseteq [account: Account, terms: Amount, key: ProviderKey]
         /\ forked' \in BOOLEAN
<1>1. UNCHANGED <<year, intent, call, payouts, forked>>
  BY DEF Quiet, paymentVars
<1>2. CASE UNCHANGED <<at, copy, job>>
  BY <1>1, <1>2 DEF DisbursalTypeOK
<1>3. ASSUME NEW h \in [Invoice -> Decision], NEW j \in Job,
             NEW label \in {"idle", "save", "clear", "remove"},
             Moves(p, label, h, j)
      PROVE  /\ copy' \in [Process -> [Invoice -> Decision]]
             /\ at' \in [Process -> {"idle", "save", "clear", "remove",
                                     "dispatch", "bulk"}]
             /\ job' \in [Process -> Job]
  BY <1>3, MovesType
<1> QED BY <1>1, <1>2, <1>3 DEF Quiet, DisbursalTypeOK

\* A replaced decision is well formed, and the request saves next.
LEMMA ReplaceQuiet ==
  ASSUME DisbursalTypeOK, NEW p \in Process, NEW i \in Invoice,
         NEW d \in Decision, at[p] = "idle", Replace(p, i, d)
  PROVE  /\ Quiet(p) /\ UNCHANGED <<present, file>>
         /\ approved' \subseteq Vendor \X Invoice \X Amount
<1> DEFINE h == [Loaded(p) EXCEPT ![i] = d]
           j == [NoJob EXCEPT !.invoices = {i}]
<1>1. h \in [Invoice -> Decision]
  BY LoadedType
<1>2. j \in Job
  BY DEF NoJob, Job
<1>3. Moves(p, "save", h, j) /\ UNCHANGED <<year, paymentVars, present, file>>
  BY DEF Replace, Proceed, Moves
<1> HIDE DEF h, j
<1>4. Quiet(p)
  BY <1>1, <1>2, <1>3 DEF Quiet, Paying
<1>5. d.vendor \in Vendor /\ d.terms \in Amount
  BY DEF Decision
<1>6. approved' \subseteq Vendor \X Invoice \X Amount
  BY <1>5 DEF DisbursalTypeOK, Replace, Approve
<1> QED BY <1>3, <1>4, <1>6

\* So the types survive a replacement by an endpoint.
LEMMA EditType ==
  ASSUME DisbursalTypeOK, NEW p \in Process, NEW i \in Invoice,
         NEW d \in Decision, NEW endpoint, Edit(p, endpoint, i, d)
  PROVE  DisbursalTypeOK' /\ Quiet(p)
<1>1. at[p] = "idle" /\ Replace(p, i, d) /\ UNCHANGED <<upload, processed>>
      /\ requests' = requests + 1
  BY DEF Edit, Begin, Idle, uploadVars
<1>2. /\ Quiet(p) /\ UNCHANGED <<present, file>>
      /\ approved' \subseteq Vendor \X Invoice \X Amount
  BY <1>1, ReplaceQuiet
<1> QED BY <1>1, <1>2, QuietType DEF DisbursalTypeOK

\* Writing the file keeps the types, whether it succeeds or not.
LEMMA WrittenType ==
  ASSUME DisbursalTypeOK, NEW p \in Process, Written(p)
  PROVE  present' \in BOOLEAN /\ file' \in [Invoice -> Decision]
<1>1. CASE present' = TRUE /\ file' = copy[p]
  BY <1>1 DEF DisbursalTypeOK
<1>2. CASE UNCHANGED <<present, file>>
  BY <1>2 DEF DisbursalTypeOK
<1> QED BY <1>1, <1>2 DEF Written

\* The decisions the editing endpoints make are well formed.
LEMMA EditedTypes ==
  ASSUME NEW d \in Decision
  PROVE  /\ [d EXCEPT !.status = "SETTLED"] \in Decision
         /\ \A s \in {"APPROVED_BY_CONTROLLER", "REJECTED_RETURNED_TO_VENDOR"} :
              [d EXCEPT !.status = s] \in Decision
BY DEF Decision, InvoiceState, Approved, Rejected

\* A new decision is as well.
LEMMA NewDecisionType ==
  ASSUME NEW a \in Account, NEW v \in Verdict
  PROVE  [NoDecision EXCEPT !.status = v, !.vendor = a[1]] \in Decision
<1>1. a[1] \in Vendor
  BY DEF Account
<1> QED BY <1>1, EmptyTypes, DisbursalAssumption DEF NoDecision, Decision

\* The progress of an upload is one of the known ones.
LEMMA UploadType ==
  ASSUME DisbursalTypeOK, NEW p \in Process, NEW a \in Account,
         NEW s \in {"none", "checked", "recorded"}
  PROVE  [upload EXCEPT ![p][a] = s] \in
           [Process -> [Account -> {"none", "checked", "recorded"}]]
<1>1. [upload[p] EXCEPT ![a] = s] \in [Account -> {"none", "checked", "recorded"}]
  BY DEF DisbursalTypeOK
<1> QED BY <1>1 DEF DisbursalTypeOK

\* No action of the endpoints that only record leaves the types, or starts a
\* payment.
LEMMA RecordType ==
  ASSUME DisbursalTypeOK, NEW p \in Process, Record(p)
  PROVE  DisbursalTypeOK' /\ Quiet(p)
<1> USE DEF uploadVars, historyVars
<1>1. ASSUME NEW label \in {"idle", "save", "clear", "remove"},
             NEW h \in [Invoice -> Decision], NEW j \in Job, Moves(p, label, h, j),
             at[p] \notin Paying, UNCHANGED <<year, paymentVars, uploadVars>>,
             present' \in BOOLEAN, file' \in [Invoice -> Decision],
             requests' \in Nat, approved' = approved
      PROVE  DisbursalTypeOK' /\ Quiet(p)
  <2>1. Quiet(p)
    BY <1>1 DEF Quiet
  <2> QED BY <1>1, <2>1, QuietType DEF DisbursalTypeOK
<1>2. copy[p] \in [Invoice -> Decision] /\ job[p] \in Job
  BY DEF DisbursalTypeOK
<1>3. CASE ReadHistory(p)
  <2>1. Moves(p, "idle", Loaded(p), job[p]) /\ at[p] \notin Paying
    BY <1>3, Unmoved DEF ReadHistory, Idle, Moves, Paying
  <2> QED BY <1>1, <1>2, <1>3, <2>1, LoadedType DEF ReadHistory, DisbursalTypeOK
<1>4. CASE SaveHistory(p)
  <2>1. Moves(p, "idle", copy[p], NoJob) /\ at[p] \notin Paying
    BY <1>4, Unmoved DEF SaveHistory, Finish, Moves, Paying
  <2> QED BY <1>1, <1>2, <1>4, <2>1, WrittenType, NoJobType
          DEF SaveHistory, DisbursalTypeOK
<1>5. CASE ResetTreasury(p)
  <2>1. Moves(p, "clear", EmptyHistory, NoJob) /\ at[p] \notin Paying
    BY <1>5 DEF ResetTreasury, Begin, Idle, Proceed, Moves, Paying
  <2>2. /\ UNCHANGED <<present, file, year, paymentVars, approved, uploadVars>>
        /\ requests' \in Nat
    BY <1>5 DEF ResetTreasury, Begin, DisbursalTypeOK
  <2>3. present' \in BOOLEAN /\ file' \in [Invoice -> Decision]
    BY <2>2 DEF DisbursalTypeOK
  <2> QED BY <1>1, <2>1, <2>2, <2>3, EmptyTypes, NoJobType
<1>6. CASE ClearHistory(p)
  <2>1. Moves(p, "remove", copy[p], job[p]) /\ at[p] \notin Paying
    BY <1>6, Unmoved DEF ClearHistory, Moves, Paying
  <2> QED BY <1>1, <1>2, <1>6, <2>1, WrittenType DEF ClearHistory, DisbursalTypeOK
<1>7. CASE RemoveFile(p)
  <2>1. Moves(p, "idle", copy[p], NoJob) /\ at[p] \notin Paying
    BY <1>7, Unmoved DEF RemoveFile, Finish, Moves, Paying
  <2>2. present' \in BOOLEAN /\ file' \in [Invoice -> Decision]
    BY <1>7, EmptyTypes DEF RemoveFile, DisbursalTypeOK
  <2> QED BY <1>1, <1>2, <1>7, <2>1, <2>2, NoJobType DEF RemoveFile, DisbursalTypeOK
<1>8. ASSUME NEW a \in Account, CheckUpload(p, a) \/ MarkProcessed(p, a)
      PROVE  DisbursalTypeOK' /\ Quiet(p)
  <2>1. Quiet(p) /\ UNCHANGED <<present, file, approved>>
    BY <1>8 DEF CheckUpload, MarkProcessed, Quiet
  <2>2. /\ requests' \in Nat /\ processed' \subseteq Account
        /\ \/ upload' = [upload EXCEPT ![p][a] = "checked"]
           \/ upload' = [upload EXCEPT ![p][a] = "none"]
    BY <1>8 DEF CheckUpload, MarkProcessed, DisbursalTypeOK
  <2>3. upload' \in [Process -> [Account -> {"none", "checked", "recorded"}]]
    BY <2>2, UploadType
  <2> QED BY <2>1, <2>2, <2>3, QuietType DEF DisbursalTypeOK
<1>9. ASSUME NEW a \in Account, NEW v \in Verdict, RecordDecision(p, a, v)
      PROVE  DisbursalTypeOK' /\ Quiet(p)
  <2> DEFINE d == [NoDecision EXCEPT !.status = v, !.vendor = a[1]]
  <2>1. d \in Decision /\ a[2] \in Invoice
    BY NewDecisionType DEF Account
  <2>2. at[p] = "idle" /\ Replace(p, a[2], d) /\ UNCHANGED <<processed, requests>>
        /\ upload' = [upload EXCEPT ![p][a] = "recorded"]
    BY <1>9 DEF RecordDecision, Idle
  <2> HIDE DEF d
  <2>3. /\ Quiet(p) /\ UNCHANGED <<present, file>>
        /\ approved' \subseteq Vendor \X Invoice \X Amount
    BY <2>1, <2>2, ReplaceQuiet
  <2>4. upload' \in [Process -> [Account -> {"none", "checked", "recorded"}]]
    BY <2>2, UploadType
  <2> QED BY <2>2, <2>3, <2>4, QuietType DEF DisbursalTypeOK
<1>10. ASSUME NEW i \in Invoice PROVE Loaded(p)[i] \in Decision
  BY LoadedType
<1>11. ASSUME NEW i \in Invoice, ResolveException(p, i)
       PROVE  DisbursalTypeOK' /\ Quiet(p)
  BY <1>10, <1>11, EditType, EditedTypes, ReducedType DEF ResolveException
<1>12. ASSUME NEW i \in Invoice, UploadCredit(p, i)
       PROVE  DisbursalTypeOK' /\ Quiet(p)
  BY <1>10, <1>12, EditType, ReducedType DEF UploadCredit
<1>13. ASSUME NEW i \in Invoice, BankPayoutWebhook(p, i)
       PROVE  DisbursalTypeOK' /\ Quiet(p)
  BY <1>10, <1>13, EditType, EditedTypes DEF BankPayoutWebhook
<1>14. ASSUME NEW i \in Invoice, SetActive(p, i)
       PROVE  DisbursalTypeOK' /\ Quiet(p)
  BY <1>10, <1>14, EditType DEF SetActive
<1> QED
  BY <1>3, <1>4, <1>5, <1>6, <1>7, <1>8, <1>9, <1>11, <1>12, <1>13, <1>14
  DEF Record
-----------------------------------------------------------------------------
(***************************************************************************)
(* Types of the payments.                                                  *)
(***************************************************************************)
\* A call in progress asks for a well-formed payout.
LEMMA PayoutType ==
  ASSUME DisbursalTypeOK, CallInv, NEW p \in Process, Calling(p)
  PROVE  /\ Payout(p) \in [account: Account, terms: Amount, key: ProviderKey]
         /\ call[p].account[2] \in Invoice
<1>1. call[p] \in Call /\ call[p].account \in Account /\ call[p].key \in ProviderKey
  BY DEF DisbursalTypeOK, CallInv
<1> QED BY <1>1 DEF Payout, Call, Account

\* At most the phase of an intent changes, and not to or from "none".
KeepsIntents ==
  /\ intent' \in [Account -> Intent]
  /\ \A a \in Account : /\ intent'[a].key = intent[a].key
                        /\ intent'[a].terms = intent[a].terms
                        /\ intent'[a].phase = "none" <=> intent[a].phase = "none"

\* A call ends, having asked for its payout or not.  What became settled has a
\* payout under its invoice number, if the gateway's answers are evidence.
Ends(p) ==
  /\ call' = [call EXCEPT ![p] = NoCall]
  /\ KeepsIntents
  /\ \/ payouts' = payouts
     \/ CallAt(p, "pay") /\ payouts' = payouts \cup {Payout(p)}
  /\ forked => forked'
  /\ forked' \in BOOLEAN
  /\ \A a \in Account :
       intent'[a].phase = "settled" /\ intent[a].phase # "settled" /\ Evidenced =>
         \E r \in payouts' : r.account[2] = a[2]

\* A call answered with success has an intent, and its payout as far as MoneyInv
\* goes.
Earned(p) ==
  /\ Exists(call[p].account)
  /\ Evidenced /\ ~forked' /\ OneAccount(call[p].account[2]) =>
       \E r \in payouts' : r.account = call[p].account /\ r.terms = call[p].terms

\* A call ends and is answered.
Settles(p) ==
  /\ at[p] \in Paying
  /\ Ends(p)
  /\ \E i \in job[p].todo, answer \in Answers :
       /\ Notes(p, i, answer)
       /\ Calling(p) => i = call[p].account[2]
       /\ answer = "SUCCESS" => Calling(p) /\ Earned(p)

\* Leaving the intents alone, or updating the status of one there is.
LEMMA IntentsKept ==
  ASSUME DisbursalTypeOK
  PROVE  /\ intent' = intent => KeepsIntents
         /\ \A a \in Account, phase \in {"open", "indeterminate", "settled"} :
              Exists(a) /\ Update(a, phase) =>
                /\ KeepsIntents
                /\ \A b \in Account : intent'[b].phase # intent[b].phase =>
                     b = a /\ intent'[b].phase = phase
<1>1. intent' = intent => KeepsIntents
  BY DEF KeepsIntents, DisbursalTypeOK
<1>2. ASSUME NEW a \in Account, NEW phase \in {"open", "indeterminate", "settled"},
             Exists(a), intent' = [intent EXCEPT ![a].phase = phase]
      PROVE  /\ KeepsIntents
             /\ \A b \in Account : intent'[b].phase # intent[b].phase =>
                  b = a /\ intent'[b].phase = phase
  <2>1. \A b \in Account : intent'[b] =
          IF b = a THEN [intent[a] EXCEPT !.phase = phase] ELSE intent[b]
    BY <1>2 DEF DisbursalTypeOK
  <2>2. intent[a] \in Intent /\ intent[a].phase # "none"
    BY <1>2 DEF DisbursalTypeOK, Exists
  <2>3. LET e == [intent[a] EXCEPT !.phase = phase]
        IN  e \in Intent /\ e.phase = phase /\ e.key = intent[a].key
              /\ e.terms = intent[a].terms
    BY <2>2 DEF Intent
  <2>4. intent' \in [Account -> Intent]
    BY <1>2, <2>2, <2>3 DEF DisbursalTypeOK
  <2> QED BY <2>1, <2>2, <2>3, <2>4 DEF KeepsIntents
<1> QED BY <1>1, <1>2 DEF Update

\* The number of a call's account is yet to pay.
LEMMA CallDue ==
  ASSUME DisbursalTypeOK, CallInv, NEW p \in Process, Calling(p)
  PROVE  /\ at[p] \in Paying
         /\ call[p].account \in Account /\ call[p].account[2] \in Invoice
         /\ call[p].account[2] \in job[p].todo
BY DEF CallInv, Account, Paying

\* A settled intent that a call may go by has the payout the call asks for.
LEMMA SettledEarns ==
  ASSUME DisbursalTypeOK, CallInv, KeyInv, MoneyInv, NEW p \in Process, Calling(p),
         Stored(p).phase = "settled", forked => forked',
         ~forked' => ~Foreign(p), payouts' = payouts
  PROVE  Earned(p)
<1> DEFINE a == call[p].account
<1>1. a \in Account /\ Exists(a)
  BY CallDue DEF Stored, Exists
<1>2. ASSUME Evidenced, ~forked', OneAccount(a[2])
      PROVE  \E r \in payouts' : r.account = a /\ r.terms = call[p].terms
  <2>1. Stored(p).key = call[p].key /\ ~forked
    BY <1>1, <1>2 DEF Foreign
  <2>2. Stored(p).terms = call[p].terms
    BY <1>1, <2>1 DEF KeyInv
  <2>3. PICK r \in payouts : r.account = a
    BY <1>1, <1>2, <2>1 DEF MoneyInv, Stored
  <2>4. r.terms = call[p].terms
    BY <2>1, <2>2, <2>3 DEF MoneyInv, Stored
  <2> QED BY <2>3, <2>4
<1> QED BY <1>1, <1>2 DEF Earned

\* Refusals and answers end calls.
LEMMA EndingSettles ==
  ASSUME DisbursalTypeOK, CallInv, KeyInv, MoneyInv, NEW p \in Process,
         \/ \E i \in Invoice : Refuse(p, i)
         \/ AnswerSettled(p) \/ Reconcile(p) \/ FindPaid(p)
         \/ \E answer \in {"SUCCESS", "AMBIGUOUS"} : Pay(p, answer)
  PROVE  Settles(p)
<1> DEFINE a == call[p].account
<1>1. forked \in BOOLEAN
  BY DEF DisbursalTypeOK
<1>2. ASSUME Calling(p), NEW answer \in Answers, Answered(p, a[2], answer)
      PROVE  at[p] \in Paying /\ a[2] \in job[p].todo /\ Notes(p, a[2], answer)
  BY <1>2, CallDue, AnsweredNotes
<1>3. ASSUME NEW i \in Invoice, Refuse(p, i) PROVE Settles(p)
  <2>1. at[p] \in Paying /\ Answered(p, i, "ERROR") /\ "ERROR" \in Answers
        /\ intent' = intent /\ payouts' = payouts /\ forked' = forked
    BY <1>3 DEF Refuse, Paying, Answers
  <2>2. Notes(p, i, "ERROR")
    BY <2>1, AnsweredNotes
  <2>3. Ends(p)
    BY <1>1, <2>1, <2>2, IntentsKept DEF Ends, Notes
  <2>4. i \in job[p].todo /\ (Calling(p) => i = a[2])
    BY <1>3, CallDue DEF Refuse, Calling
  <2> QED BY <2>1, <2>2, <2>3, <2>4 DEF Settles
<1>4. CASE AnswerSettled(p)
  <2>1. /\ Calling(p) /\ Stored(p).phase = "settled" /\ Answered(p, a[2], "SUCCESS")
        /\ forked' = (forked \/ Foreign(p)) /\ intent' = intent /\ payouts' = payouts
        /\ "SUCCESS" \in Answers
    BY <1>4 DEF AnswerSettled, CallAt, Calling, Answers
  <2>2. Foreign(p) \in BOOLEAN
    BY DEF Foreign, Exists
  <2>3. Notes(p, a[2], "SUCCESS") /\ at[p] \in Paying /\ a[2] \in job[p].todo
    BY <1>2, <2>1
  <2>4. Ends(p)
    BY <1>1, <2>1, <2>2, <2>3, IntentsKept DEF Ends, Notes
  <2>5. Earned(p)
    BY <2>1, SettledEarns
  <2> QED BY <2>1, <2>3, <2>4, <2>5 DEF Settles
<1>5. CASE Reconcile(p)
  <2>1. /\ Calling(p) /\ Stored(p).phase = "indeterminate"
        /\ Answered(p, a[2], "SUCCESS") /\ "SUCCESS" \in Answers
        /\ Evidenced => \E r \in payouts : r.account[2] = a[2]
        /\ Update(a, "settled")
        /\ forked' = (forked \/ Foreign(p)) /\ payouts' = payouts
    BY <1>5 DEF Reconcile, CallAt, Calling, Answers
  <2>2. Foreign(p) \in BOOLEAN
    BY DEF Foreign, Exists
  <2>3. Notes(p, a[2], "SUCCESS") /\ at[p] \in Paying /\ a[2] \in job[p].todo
    BY <1>2, <2>1
  <2>4. a \in Account /\ Exists(a)
    BY <2>1, CallDue DEF Stored, Exists
  <2>5. /\ KeepsIntents
        /\ \A b \in Account : intent'[b].phase # intent[b].phase => b = a
    BY <2>1, <2>4, IntentsKept
  <2>6. Ends(p)
    BY <1>1, <2>1, <2>2, <2>3, <2>5 DEF Ends, Notes
  <2>7. ASSUME Evidenced, ~forked', OneAccount(a[2])
        PROVE  \E r \in payouts' : r.account = a /\ r.terms = call[p].terms
    <3>1. PICK r \in payouts : r.account[2] = a[2]
      BY <2>1, <2>7
    <3>2. ~forked /\ Stored(p).key = call[p].key
      BY <2>1, <2>4, <2>7 DEF Foreign
    <3>3. r.account \in Account /\ Exists(r.account)
      BY <3>1, <3>2 DEF MoneyInv, DisbursalTypeOK
    <3>4. r.account = a
      BY <2>4, <2>7, <3>1, <3>3 DEF OneAccount
    <3>5. r.terms = call[p].terms
      BY <2>1, <2>4, <3>1, <3>2, <3>4 DEF MoneyInv, KeyInv, Stored
    <3> QED BY <2>1, <3>1, <3>4, <3>5
  <2> QED BY <2>1, <2>3, <2>4, <2>6, <2>7 DEF Settles, Earned
<1>6. CASE FindPaid(p)
  <2>1. /\ Calling(p) /\ CallAt(p, "pay") /\ Stored(p).phase = "settled"
        /\ Answered(p, a[2], "SUCCESS")
        /\ forked' = forked /\ intent' = intent /\ payouts' = payouts
        /\ "SUCCESS" \in Answers
    BY <1>6 DEF FindPaid, CallAt, Calling, Answers
  <2>2. ~forked' => ~Foreign(p)
    BY <2>1 DEF MoneyInv, Foreign
  <2>3. Notes(p, a[2], "SUCCESS") /\ at[p] \in Paying /\ a[2] \in job[p].todo
    BY <1>2, <2>1
  <2>4. Ends(p)
    BY <1>1, <2>1, <2>3, IntentsKept DEF Ends, Notes
  <2>5. Earned(p)
    BY <2>1, <2>2, SettledEarns
  <2> QED BY <2>1, <2>3, <2>4, <2>5 DEF Settles
<1>7. ASSUME NEW answer \in {"SUCCESS", "AMBIGUOUS"}, Pay(p, answer)
      PROVE  Settles(p)
  <2>1. /\ Calling(p) /\ CallAt(p, "pay") /\ Stored(p).phase = "open"
        /\ Answered(p, a[2], answer) /\ answer \in Answers /\ forked' = forked
        /\ payouts' \in {payouts, payouts \cup {Payout(p)}}
        /\ answer = "SUCCESS" /\ Evidenced => payouts' = payouts \cup {Payout(p)}
        /\ \/ Update(a, "settled") /\ answer = "SUCCESS"
           \/ Update(a, "indeterminate")
    BY <1>7 DEF Pay, CallAt, Calling, Answers
  <2>2. Notes(p, a[2], answer) /\ at[p] \in Paying /\ a[2] \in job[p].todo
    BY <1>2, <2>1
  <2>3. a \in Account /\ Exists(a)
    BY <2>1, CallDue DEF Stored, Exists
  <2>4. /\ KeepsIntents
        /\ \A b \in Account : intent'[b].phase # intent[b].phase =>
             b = a /\ (intent'[b].phase = "settled" => answer = "SUCCESS")
    BY <2>1, <2>3, IntentsKept
  <2>5. Payout(p).account = a /\ Payout(p).terms = call[p].terms
    BY DEF Payout
  <2>6. Ends(p)
    BY <1>1, <2>1, <2>2, <2>4, <2>5 DEF Ends, Notes
  <2>7. answer = "SUCCESS" => Earned(p)
    BY <2>1, <2>3, <2>5 DEF Earned
  <2> QED BY <2>1, <2>2, <2>6, <2>7 DEF Settles
<1> QED BY <1>3, <1>4, <1>5, <1>6, <1>7

\* A process starts to pay what passed its guard.
Starts(p) ==
  /\ at[p] = "idle"
  /\ UNCHANGED <<present, file, uploadVars, year, paymentVars, approved>>
  /\ requests' \in Nat
  /\ \E j \in Job, label \in Paying :
       /\ Moves(p, label, Loaded(p), j)
       /\ j.todo \subseteq j.invoices
       /\ \A i \in j.todo : i \in Invoice /\ Payable(Loaded(p)[i])

LEMMA StartStarts ==
  ASSUME DisbursalTypeOK, NEW p \in Process,
         \/ BulkDisburse(p)
         \/ \E i \in Invoice, key \in ClientKey \cup {NoKey} : Disburse(p, i, key)
  PROVE  Starts(p)
<1>1. requests \in Nat
  BY DEF DisbursalTypeOK
<1>2. CASE BulkDisburse(p)
  <2> DEFINE due == {i \in Invoice : /\ Loaded(p)[i].status \in Disbursable
                                     /\ ~Loaded(p)[i].disbursed}
             j == [invoices |-> due, todo |-> due, key |-> NoKey]
  <2>1. j \in Job /\ j.todo \subseteq j.invoices
        /\ \A i \in j.todo : i \in Invoice /\ Payable(Loaded(p)[i])
    BY DEF Job, Payable
  <2>2. Moves(p, "bulk", Loaded(p), j) /\ at[p] = "idle" /\ requests' \in Nat
        /\ UNCHANGED <<present, file, uploadVars, year, paymentVars, approved>>
    BY <1>1, <1>2 DEF BulkDisburse, Begin, Idle, Proceed, Moves
  <2> HIDE DEF j
  <2> QED BY <2>1, <2>2 DEF Starts, Paying
<1>3. ASSUME NEW i \in Invoice, NEW key \in ClientKey \cup {NoKey},
             Disburse(p, i, key)
      PROVE  Starts(p)
  <2> DEFINE j == [invoices |-> {i}, todo |-> {i}, key |-> key]
  <2>1. j \in Job /\ j.todo \subseteq j.invoices
        /\ \A k \in j.todo : k \in Invoice /\ Payable(Loaded(p)[k])
    BY <1>3 DEF Job, Disburse
  <2>2. Moves(p, "dispatch", Loaded(p), j) /\ at[p] = "idle" /\ requests' \in Nat
        /\ UNCHANGED <<present, file, uploadVars, year, paymentVars, approved>>
    BY <1>1, <1>3 DEF Disburse, Begin, Idle, Proceed, Moves
  <2> HIDE DEF j
  <2> QED BY <2>1, <2>2 DEF Starts, Paying
<1> QED BY <1>2, <1>3

\* No call is a call.
LEMMA NoCallType == NoCall \in Call
BY ZeroTypes DEF NoCall, Call

\* A call that ends leaves well-formed payments.
LEMMA EndsType ==
  ASSUME DisbursalTypeOK, CallInv, NEW p \in Process, Ends(p)
  PROVE  /\ intent' \in [Account -> Intent]
         /\ call' \in [Process -> Call]
         /\ payouts' \subseteq [account: Account, terms: Amount, key: ProviderKey]
         /\ forked' \in BOOLEAN
<1>1. call' \in [Process -> Call]
  BY NoCallType DEF Ends, DisbursalTypeOK
<1>2. payouts' \subseteq [account: Account, terms: Amount, key: ProviderKey]
  BY PayoutType DEF Ends, DisbursalTypeOK, Calling, CallAt
<1> QED BY <1>1, <1>2 DEF Ends, KeepsIntents

\* No action that pays leaves the types.
LEMMA SettleType ==
  ASSUME DisbursalTypeOK, CallInv, KeyInv, MoneyInv, NEW p \in Process, Settle(p)
  PROVE  DisbursalTypeOK'
<1> USE DEF uploadVars, paymentVars, historyVars
<1>1. CASE Starts(p)
  <2>1. /\ copy' \in [Process -> [Invoice -> Decision]]
        /\ at' \in [Process -> {"idle", "save", "clear", "remove", "dispatch",
                                "bulk"}]
        /\ job' \in [Process -> Job]
    BY <1>1, MovesType, LoadedType DEF Starts, Paying
  <2> QED BY <1>1, <2>1 DEF Starts, DisbursalTypeOK
<1>2. CASE Settles(p)
  <2>1. PICK i \in job[p].todo, answer \in Answers : Notes(p, i, answer)
    BY <1>2 DEF Settles
  <2>2. i \in Invoice /\ copy[p] \in [Invoice -> Decision]
    BY DEF DisbursalTypeOK, Job
  <2>3. /\ copy' \in [Process -> [Invoice -> Decision]]
        /\ at' \in [Process -> {"idle", "save", "clear", "remove", "dispatch",
                                "bulk"}]
        /\ job' \in [Process -> Job]
    <3>1. PICK d \in Decision, label \in {"idle", "save", "bulk"}, j \in Job :
            Moves(p, label, [copy[p] EXCEPT ![i] = d], j)
      BY <2>1 DEF Notes
    <3>2. [copy[p] EXCEPT ![i] = d] \in [Invoice -> Decision]
      BY <2>2
    <3> QED BY <3>1, <3>2, MovesType
  <2>4. UNCHANGED <<present, file, upload, processed, year, approved, requests>>
    BY <2>1 DEF Notes
  <2> QED BY <1>2, <2>3, <2>4, EndsType DEF Settles, DisbursalTypeOK
<1>3. ASSUME NEW i \in Invoice, NEW k \in ProviderKey, GetOrCreate(p, i, k)
      PROVE  DisbursalTypeOK'
  <2>1. copy[p][i].vendor \in Vendor /\ copy[p][i].terms \in Amount /\ year \in Year
    BY DEF DisbursalTypeOK, Decision
  <2> DEFINE c == [at |-> "look", account |-> <<copy[p][i].vendor, i, year>>,
                   terms |-> copy[p][i].terms, key |-> k]
  <2>2. c \in Call
    BY <2>1 DEF Call, Account
  <2>3. call' = [call EXCEPT ![p] = c]
    BY <1>3 DEF GetOrCreate
  <2> HIDE DEF c
  <2>4. call' \in [Process -> Call]
    BY <2>2, <2>3 DEF DisbursalTypeOK
  <2> QED BY <1>3, <2>4 DEF GetOrCreate, DisbursalTypeOK
<1>4. ASSUME NEW label \in {"store", "pay"}, Access(p, label)
      PROVE  call' \in [Process -> Call]
  <2>1. [call[p] EXCEPT !.at = label] \in Call
    BY DEF DisbursalTypeOK, Call
  <2> QED BY <1>4, <2>1 DEF Access, DisbursalTypeOK
<1>5. Foreign(p) \in BOOLEAN /\ Exists(call[p].account) \in BOOLEAN
  BY DEF Foreign, Exists
<1>6. CASE LookAgain(p)
  <2>1. call' \in [Process -> Call]
    BY <1>4, <1>6 DEF LookAgain
  <2> QED BY <1>5, <1>6, <2>1 DEF LookAgain, Access, DisbursalTypeOK
<1>7. CASE StoreIntent(p)
  <2>1. call' \in [Process -> Call]
    BY <1>4, <1>7 DEF StoreIntent
  <2>2. call[p] \in Call
    BY DEF DisbursalTypeOK
  <2> DEFINE e == [phase |-> "open", terms |-> call[p].terms, key |-> call[p].key]
  <2>3. e \in Intent
    BY <2>2 DEF Call, Intent
  <2>4. intent' = [intent EXCEPT ![call[p].account] = e]
    BY <1>7 DEF StoreIntent
  <2> HIDE DEF e
  <2>5. intent' \in [Account -> Intent]
    BY <2>3, <2>4 DEF DisbursalTypeOK
  <2> QED BY <1>5, <1>7, <2>1, <2>5 DEF StoreIntent, Access, DisbursalTypeOK
<1>8. CASE BulkDone(p)
  BY <1>8 DEF BulkDone, DisbursalTypeOK
<1> QED
  BY <1>1, <1>2, <1>3, <1>6, <1>7, <1>8, StartStarts, EndingSettles DEF Settle

\* Nor does a crash, which ends a call as well.
LEMMA CrashEnds ==
  ASSUME DisbursalTypeOK, CallInv, NEW p \in Process, CrashProcess(p)
  PROVE  /\ DisbursalTypeOK'
         /\ Ends(p)
         /\ Moves(p, "idle", EmptyHistory, NoJob)
<1>1. Moves(p, "idle", EmptyHistory, NoJob)
  BY DEF CrashProcess, Moves
<1>2. Ends(p)
  <2>1. KeepsIntents
    BY IntentsKept DEF CrashProcess
  <2>2. /\ call' = [call EXCEPT ![p] = NoCall] /\ intent' = intent
        /\ forked' = forked
        /\ \/ payouts' = payouts
           \/ CallAt(p, "pay") /\ payouts' = payouts \cup {Payout(p)}
    BY DEF CrashProcess
  <2> QED BY <2>1, <2>2 DEF Ends, DisbursalTypeOK
<1>3. /\ copy' \in [Process -> [Invoice -> Decision]]
      /\ at' \in [Process -> {"idle", "save", "clear", "remove", "dispatch", "bulk"}]
      /\ job' \in [Process -> Job]
  BY <1>1, MovesType, EmptyTypes, NoJobType
<1>4. upload' \in [Process -> [Account -> {"none", "checked", "recorded"}]]
  BY DEF CrashProcess, DisbursalTypeOK
<1>5. UNCHANGED <<present, file, processed, year, approved, requests>>
  BY DEF CrashProcess
<1> QED BY <1>1, <1>2, <1>3, <1>4, <1>5, EndsType DEF DisbursalTypeOK

\* Years are counted within the bound.
LEMMA YearType ==
  ASSUME DisbursalTypeOK, NewYear
  PROVE  DisbursalTypeOK' /\ year' >= year /\ year' # 0
<1>1. year' \in Year /\ year' >= year /\ year' # 0
  BY DisbursalAssumption DEF DisbursalTypeOK, NewYear, Year
<1> QED BY <1>1 DEF DisbursalTypeOK, NewYear, historyVars, uploadVars, paymentVars
-----------------------------------------------------------------------------
(***************************************************************************)
(* What is due stays due, and calls stay those of due decisions.           *)
(***************************************************************************)
\* A process that goes on without a call keeps both, if what it is to pay is
\* payable in the history it goes on with.
LEMMA LinksKept ==
  ASSUME DisbursalTypeOK, DueInv, CallInv, NEW p \in Process,
         NEW label, NEW h, NEW j, Moves(p, label, h, j), year' = year,
         \/ call' = [call EXCEPT ![p] = NoCall]
         \/ call' = call /\ ~Calling(p),
         label \in Paying => \A i \in j.todo : Payable(h[i])
  PROVE  DueInv' /\ CallInv'
<1>1. /\ at'[p] = label /\ copy'[p] = h /\ job'[p] = j
      /\ \A q \in Process \ {p} :
           at'[q] = at[q] /\ copy'[q] = copy[q] /\ job'[q] = job[q]
  BY DEF DisbursalTypeOK, Moves
<1>2. DueInv'
  <2> SUFFICES ASSUME NEW q \in Process, at'[q] \in Paying, NEW i \in job'[q].todo
               PROVE  Payable(copy'[q][i])
    BY DEF DueInv, Payable, Paying
  <2>1. CASE q = p
    BY <1>1, <2>1
  <2>2. CASE q # p
    BY <1>1, <2>2 DEF DueInv, Paying
  <2> QED BY <2>1, <2>2
<1>3. CallInv'
  <2>1. Calling(p)' = FALSE
    BY DEF Calling, CallAt, NoCall, DisbursalTypeOK
  <2>2. \A q \in Process \ {p} : call'[q] = call[q]
    BY DEF DisbursalTypeOK
  <2> QED BY <1>1, <2>1, <2>2 DEF CallInv, Calling, CallAt
<1> QED BY <1>2, <1>3

\* Recording starts no payment.
LEMMA QuietLinks ==
  ASSUME DisbursalTypeOK, DueInv, CallInv, NEW p \in Process, Quiet(p)
  PROVE  DueInv' /\ CallInv'
<1>1. UNCHANGED <<year, call>>
  BY DEF Quiet, paymentVars
<1>2. CASE UNCHANGED <<at, copy, job>>
  BY <1>1, <1>2 DEF DueInv, CallInv, Calling, CallAt, Payable
<1>3. ASSUME NEW h, NEW j, NEW label \in {"idle", "save", "clear", "remove"},
             at[p] \notin Paying, Moves(p, label, h, j)
      PROVE  DueInv' /\ CallInv'
  <2>1. ~Calling(p)
    BY <1>3 DEF CallInv, Paying
  <2>2. label \notin Paying
    BY DEF Paying
  <2> QED BY <1>1, <1>3, <2>1, <2>2, LinksKept
<1> QED BY <1>2, <1>3 DEF Quiet

\* An answered call leaves the other due decisions as they were.
LEMMA SettlesLinks ==
  ASSUME DisbursalTypeOK, DueInv, CallInv, NEW p \in Process, Settles(p)
  PROVE  DueInv' /\ CallInv'
<1>1. PICK i \in job[p].todo, answer \in Answers : Notes(p, i, answer)
  BY DEF Settles
<1>2. PICK d \in Decision, label \in {"idle", "save", "bulk"}, j \in Job :
        /\ Moves(p, label, [copy[p] EXCEPT ![i] = d], j)
        /\ label = "bulk" => at[p] = "bulk" /\ j.todo = job[p].todo \ {i}
  BY <1>1 DEF Notes
<1>3. call' = [call EXCEPT ![p] = NoCall] /\ year' = year
  BY <1>1 DEF Notes
<1>4. ASSUME label \in Paying, NEW k \in j.todo
      PROVE  Payable([copy[p] EXCEPT ![i] = d][k])
  <2>1. at[p] = "bulk" /\ k \in job[p].todo /\ k # i
    BY <1>2, <1>4 DEF Paying
  <2>2. [copy[p] EXCEPT ![i] = d][k] = copy[p][k]
    BY <2>1 DEF DisbursalTypeOK, Job
  <2>3. Payable(copy[p][k])
    BY <2>1 DEF DueInv
  <2> QED BY <2>2, <2>3
<1> QED BY <1>2, <1>3, <1>4, LinksKept

\* Nor do the accesses in between.
LEMMA SettleLinks ==
  ASSUME DisbursalTypeOK, DueInv, CallInv, KeyInv, MoneyInv, NEW p \in Process,
         Settle(p)
  PROVE  DueInv' /\ CallInv'
<1>1. CASE Starts(p)
  <2>1. ~Calling(p)
    BY <1>1 DEF Starts, CallInv
  <2>2. UNCHANGED <<year, call>>
    BY <1>1 DEF Starts, paymentVars
  <2> QED BY <1>1, <2>1, <2>2, LinksKept DEF Starts
<1>2. CASE Settles(p)
  BY <1>2, SettlesLinks
<1>3. ASSUME UNCHANGED <<year, historyVars>> PROVE DueInv'
  BY <1>3 DEF DueInv, Payable, historyVars
<1>4. ASSUME NEW i \in Invoice, NEW k \in ProviderKey, GetOrCreate(p, i, k)
      PROVE  DueInv' /\ CallInv'
  <2> DEFINE c == [at |-> "look", account |-> <<copy[p][i].vendor, i, year>>,
                   terms |-> copy[p][i].terms, key |-> k]
  <2>1. /\ at[p] \in Paying /\ i \in job[p].todo
        /\ call' = [call EXCEPT ![p] = c]
        /\ UNCHANGED <<year, present, file, copy, at, job>>
    BY <1>4 DEF GetOrCreate, Paying, historyVars
  <2>2. copy[p][i].vendor \in Vendor /\ year \in Year /\ year <= year
    BY DisbursalAssumption DEF DisbursalTypeOK, Decision, Year
  <2>3. c.account \in Account /\ c.account[1] = copy[p][i].vendor
        /\ c.account[2] = i /\ c.account[3] = year
        /\ c.terms = copy[p][i].terms /\ c.key = k
    BY <2>2 DEF Account
  <2> HIDE DEF c
  <2>4. call'[p] = c /\ \A q \in Process \ {p} : call'[q] = call[q]
    BY <2>1 DEF DisbursalTypeOK
  <2>5. CallInv'
    BY <2>1, <2>2, <2>3, <2>4 DEF CallInv, Calling, CallAt, Paying
  <2> QED BY <1>3, <2>1, <2>5 DEF historyVars
<1>5. ASSUME NEW label \in {"store", "pay"}, Access(p, label), Calling(p)
      PROVE  DueInv' /\ CallInv'
  <2>1. UNCHANGED <<year, present, file, copy, at, job>>
    BY <1>5 DEF Access, historyVars
  <2>2. /\ call'[p].account = call[p].account /\ call'[p].terms = call[p].terms
        /\ call'[p].key = call[p].key
        /\ \A q \in Process \ {p} : call'[q] = call[q]
    BY <1>5 DEF Access, DisbursalTypeOK, Call
  <2>3. CallInv'
    BY <1>5, <2>1, <2>2 DEF CallInv, Calling, CallAt
  <2> QED BY <1>3, <2>1, <2>3 DEF historyVars
<1>6. CASE LookAgain(p) \/ StoreIntent(p)
  BY <1>5, <1>6 DEF LookAgain, StoreIntent, Calling, CallAt
<1>7. CASE BulkDone(p)
  <2>1. Moves(p, "save", copy[p], job[p]) /\ UNCHANGED <<year, call>>
    BY <1>7, Unmoved DEF BulkDone, Moves, paymentVars
  <2>2. ~Calling(p)
    BY <1>7 DEF BulkDone, CallInv
  <2> QED BY <2>1, <2>2, LinksKept DEF Paying
<1> QED BY <1>1, <1>2, <1>4, <1>6, <1>7, StartStarts, EndingSettles DEF Settle
-----------------------------------------------------------------------------
(***************************************************************************)
(* Keys, payouts and approvals.                                            *)
(***************************************************************************)
\* Where nothing is forked, the payouts are those of the stored intents.
Paid ==
  \A r \in payouts :
    /\ Exists(r.account)
    /\ intent[r.account].key = r.key
    /\ intent[r.account].terms = r.terms

\* The numbers of one account stay those of one account, if intents are kept.
LEMMA AccountsKept ==
  ASSUME KeepsIntents, NEW i
  PROVE  OneAccount(i)' <=> OneAccount(i)
BY DEF KeepsIntents, OneAccount, Exists

\* A call that ends keeps keys and payouts in order.
LEMMA EndsMoney ==
  ASSUME DisbursalTypeOK, CallInv, KeyInv, MoneyInv, NEW p \in Process, Ends(p)
  PROVE  KeyInv' /\ MoneyInv'
<1>1. /\ ~Calling(p)'
      /\ \A q \in Process \ {p} : call'[q] = call[q]
  BY DEF Ends, NoCall, Calling, CallAt, DisbursalTypeOK
<1>2. \A q \in Process : Calling(q)' => Calling(q) /\ call'[q] = call[q]
  BY <1>1 DEF Calling, CallAt
<1>3. \A q \in Process : Calling(q) => call[q].account \in Account
  BY DEF CallInv
<1>4. \A a \in Account : /\ Exists(a)' <=> Exists(a)
                         /\ intent'[a].key = intent[a].key
                         /\ intent'[a].terms = intent[a].terms
  BY DEF Ends, KeepsIntents, Exists
<1>5. KeyInv'
  BY <1>2, <1>3, <1>4 DEF KeyInv, Stored
<1>6. ASSUME ~forked'
      PROVE  /\ \A q \in Process : CallAt(q, "pay")' =>
                  Exists(call[q].account)' /\ Stored(q)'.key = call'[q].key
             /\ Paid'
  <2>1. ~forked
    BY <1>6 DEF Ends
  <2>2. ASSUME NEW q \in Process, CallAt(q, "pay")'
        PROVE  Exists(call[q].account)' /\ Stored(q)'.key = call'[q].key
    <3>1. Calling(q) /\ call'[q] = call[q] /\ CallAt(q, "pay")
      BY <1>2, <2>2 DEF Calling, CallAt
    <3> QED BY <1>3, <1>4, <2>1, <3>1 DEF MoneyInv, Stored, Exists
  <2>3. ASSUME NEW r \in payouts'
        PROVE  /\ Exists(r.account)'
               /\ intent'[r.account].key = r.key
               /\ intent'[r.account].terms = r.terms
    <3>1. CASE r \in payouts
      <4>1. r.account \in Account
        BY <3>1 DEF DisbursalTypeOK
      <4> QED BY <1>4, <2>1, <3>1, <4>1 DEF MoneyInv
    <3>2. CASE CallAt(p, "pay") /\ r = Payout(p)
      <4>1. /\ Calling(p) /\ r.account = call[p].account /\ r.key = call[p].key
            /\ r.terms = call[p].terms
        BY <3>2 DEF Payout, Calling, CallAt
      <4>2. Exists(r.account) /\ intent[r.account].key = r.key
        BY <2>1, <3>2, <4>1 DEF MoneyInv, Stored
      <4>3. intent[r.account].terms = r.terms
        BY <4>1, <4>2 DEF KeyInv, Stored
      <4> QED BY <1>3, <1>4, <4>1, <4>2, <4>3
    <3> QED BY <3>1, <3>2 DEF Ends
  <2> QED BY <2>2, <2>3 DEF Paid
<1>7. ASSUME ~forked', Evidenced, NEW a \in Account, intent'[a].phase = "settled",
             OneAccount(a[2])'
      PROVE  \E r \in payouts' : r.account = a
  <2>1. ~forked /\ OneAccount(a[2])
    BY <1>7, AccountsKept DEF Ends
  <2>2. CASE intent[a].phase = "settled"
    BY <1>7, <2>1, <2>2 DEF MoneyInv, Ends
  <2>3. CASE intent[a].phase # "settled"
    <3>1. PICK r \in payouts' : r.account[2] = a[2]
      BY <1>7, <2>3 DEF Ends
    <3>2. r.account \in Account
      BY <3>1, EndsType
    <3>3. Exists(r.account) /\ Exists(a)
      BY <1>4, <1>6, <1>7, <3>1, <3>2 DEF Paid, Exists
    <3> QED BY <2>1, <3>1, <3>2, <3>3 DEF OneAccount
  <2> QED BY <2>2, <2>3
<1>8. MoneyInv'
  BY <1>2, <1>6, <1>7 DEF MoneyInv, Paid, CallAt
<1> QED BY <1>5, <1>8

\* Drawing a key keeps them in order: a new one is nobody's, and one that is
\* found stands for the terms asked for.
LEMMA CreateMoney ==
  ASSUME DisbursalTypeOK, CallInv, KeyInv, MoneyInv, NEW p \in Process,
         NEW i \in Invoice, NEW k \in ProviderKey, GetOrCreate(p, i, k)
  PROVE  KeyInv' /\ MoneyInv'
<1> DEFINE a == <<copy[p][i].vendor, i, year>>
           t == copy[p][i].terms
           c == [at |-> "look", account |-> a, terms |-> t, key |-> k]
<1>1. /\ call' = [call EXCEPT ![p] = c]
      /\ UNCHANGED <<intent, payouts, forked>>
      /\ SameTerms(a, t) /\ HeldKey(a, k)
  BY DEF GetOrCreate
<1>2. c.account = a /\ c.terms = t /\ c.key = k /\ c.at = "look"
  OBVIOUS
<1> HIDE DEF c, a, t
<1>3. call'[p] = c /\ \A q \in Process \ {p} : call'[q] = call[q]
  BY <1>1 DEF DisbursalTypeOK
<1>4. Exists(a) /\ intent[a].key = k => intent[a].terms = t
  BY <1>1 DEF SameTerms
<1>5. ASSUME NEW q \in Process \ {p}, Calling(q), call[q].account = a, call[q].key = k
      PROVE  call[q].terms = t
  <2>1. Exists(a)
    BY <1>1, <1>5 DEF HeldKey, InUse
  <2>2. intent[a].key = k /\ intent[a].terms = t
    BY <1>1, <2>1 DEF HeldKey, SameTerms
  <2> QED BY <1>5, <2>1, <2>2 DEF KeyInv, Stored
<1>6. KeyInv'
  <2>1. ASSUME NEW q \in Process, Calling(q)', Exists(call[q].account)',
               Stored(q)'.key = call'[q].key
        PROVE  Stored(q)'.terms = call'[q].terms
    <3>1. CASE q = p
      BY <1>1, <1>2, <1>3, <1>4, <2>1, <3>1 DEF Stored, Exists
    <3>2. CASE q # p
      BY <1>1, <1>3, <2>1, <3>2 DEF KeyInv, Stored, Exists, Calling, CallAt
    <3> QED BY <3>1, <3>2
  <2>2. ASSUME NEW q \in Process, NEW r \in Process, Calling(q)', Calling(r)',
               call'[r].account = call'[q].account, call'[r].key = call'[q].key
        PROVE  call'[r].terms = call'[q].terms
    <3>1. \A x \in Process \ {p} : Calling(x)' => Calling(x)
      BY <1>3 DEF Calling, CallAt
    <3>2. CASE q = p \/ r = p
      BY <1>2, <1>3, <1>5, <2>2, <3>1, <3>2
    <3>3. CASE q # p /\ r # p
      BY <1>3, <2>2, <3>1, <3>3 DEF KeyInv
    <3> QED BY <3>2, <3>3
  <2> QED BY <2>1, <2>2 DEF KeyInv
<1>7. MoneyInv'
  BY <1>1, <1>2, <1>3 DEF MoneyInv, Stored, Exists, CallAt, OneAccount
<1> QED BY <1>6, <1>7

\* So do the second read, and storing an intent.
LEMMA AccessMoney ==
  ASSUME DisbursalTypeOK, CallInv, KeyInv, MoneyInv, NEW p \in Process,
         LookAgain(p) \/ StoreIntent(p)
  PROVE  KeyInv' /\ MoneyInv'
<1> DEFINE a == call[p].account
<1>1. Calling(p) /\ a \in Account
  BY CallDue DEF LookAgain, StoreIntent, Calling, CallAt
<1>2. PICK label \in {"store", "pay"} : Access(p, label)
  BY DEF LookAgain, StoreIntent
<1>3. /\ call'[p].account = call[p].account /\ call'[p].terms = call[p].terms
      /\ call'[p].key = call[p].key /\ call'[p].at = label
      /\ \A q \in Process \ {p} : call'[q] = call[q]
  BY <1>2 DEF Access, DisbursalTypeOK, Call
<1>4. \A q \in Process :
        /\ Calling(q)' <=> Calling(q)
        /\ call'[q].account = call[q].account /\ call'[q].terms = call[q].terms
        /\ call'[q].key = call[q].key
  BY <1>1, <1>3 DEF Calling, CallAt
<1>5. forked \in BOOLEAN /\ Foreign(p) \in BOOLEAN /\ Exists(a) \in BOOLEAN
  BY DEF DisbursalTypeOK, Foreign, Exists
<1>6. CASE LookAgain(p)
  <2>1. UNCHANGED <<intent, payouts>> /\ forked' = (forked \/ Foreign(p))
        /\ label = (IF Exists(a) THEN "pay" ELSE "store")
    <3>1. call'[p].at = IF Exists(a) THEN "pay" ELSE "store"
      BY <1>6 DEF LookAgain, Access, DisbursalTypeOK, Call
    <3> QED BY <1>3, <1>6, <3>1 DEF LookAgain
  <2>2. KeyInv'
    BY <1>4, <2>1 DEF KeyInv, Stored, Exists
  <2>3. ASSUME ~forked', NEW q \in Process, CallAt(q, "pay")'
        PROVE  Exists(call[q].account)' /\ Stored(q)'.key = call'[q].key
    <3>1. CASE q = p
      BY <1>3, <1>5, <2>1, <2>3, <3>1 DEF CallAt, Foreign, Stored, Exists
    <3>2. CASE q # p
      BY <1>3, <1>5, <2>1, <2>3, <3>2 DEF MoneyInv, CallAt, Stored, Exists
    <3> QED BY <3>1, <3>2
  <2>4. MoneyInv'
    BY <1>5, <2>1, <2>3 DEF MoneyInv, Exists, OneAccount
  <2> QED BY <2>2, <2>4
<1>7. CASE StoreIntent(p)
  <2> DEFINE e == [phase |-> "open", terms |-> call[p].terms, key |-> call[p].key]
  <2>1. /\ intent' = [intent EXCEPT ![a] = e] /\ payouts' = payouts
        /\ forked' = (forked \/ Exists(a))
    BY <1>7 DEF StoreIntent
  <2>2. e.phase = "open" /\ e.terms = call[p].terms /\ e.key = call[p].key
    OBVIOUS
  <2> HIDE DEF e
  <2>3. intent'[a] = e /\ \A b \in Account \ {a} : intent'[b] = intent[b]
    BY <1>1, <2>1 DEF DisbursalTypeOK
  <2>4. \A q \in Process : Calling(q) => call[q].account \in Account
    BY DEF CallInv
  <2>5. ASSUME NEW q \in Process, Calling(q)',
               Exists(call[q].account)', Stored(q)'.key = call'[q].key
        PROVE  Stored(q)'.terms = call'[q].terms
    <3>1. CASE call[q].account = a
      BY <1>1, <1>4, <2>2, <2>3, <2>5, <3>1 DEF KeyInv, Stored
    <3>2. CASE call[q].account # a
      BY <1>4, <2>3, <2>4, <2>5, <3>2 DEF KeyInv, Stored, Exists
    <3> QED BY <3>1, <3>2
  <2>6. KeyInv'
    BY <1>4, <2>5 DEF KeyInv
  <2>7. ASSUME ~forked'
        PROVE  ~forked /\ ~Exists(a)
    BY <1>5, <2>1, <2>7
  <2>8. ASSUME ~forked', NEW q \in Process, CallAt(q, "pay")'
        PROVE  Exists(call[q].account)' /\ Stored(q)'.key = call'[q].key
    <3>1. CASE q = p
      BY <1>3, <2>2, <2>3, <3>1 DEF Stored, Exists
    <3>2. CASE q # p
      <4>1. CallAt(q, "pay") /\ Calling(q)
        BY <1>3, <2>8, <3>2 DEF CallAt, Calling
      <4>2. Exists(call[q].account) /\ Stored(q).key = call[q].key
        BY <2>7, <2>8, <4>1 DEF MoneyInv
      <4>3. call[q].account \in Account \ {a}
        BY <2>4, <2>7, <2>8, <4>1, <4>2
      <4> QED BY <1>4, <2>3, <4>2, <4>3 DEF Stored, Exists
    <3> QED BY <3>1, <3>2
  <2>9. ASSUME ~forked', NEW r \in payouts'
        PROVE  /\ Exists(r.account)'
               /\ intent'[r.account].key = r.key
               /\ intent'[r.account].terms = r.terms
    <3>1. r \in payouts /\ r.account \in Account
      BY <2>1, <2>9 DEF DisbursalTypeOK
    <3>2. Exists(r.account) /\ intent[r.account].key = r.key
          /\ intent[r.account].terms = r.terms
      BY <2>7, <2>9, <3>1 DEF MoneyInv
    <3>3. r.account # a
      BY <2>7, <2>9, <3>2
    <3> QED BY <2>3, <3>1, <3>2, <3>3 DEF Exists
  <2>10. ASSUME ~forked', Evidenced, NEW b \in Account,
                intent'[b].phase = "settled", OneAccount(b[2])'
         PROVE  \E r \in payouts' : r.account = b
    <3>1. b # a /\ intent[b].phase = "settled"
      BY <2>2, <2>3, <2>10
    <3>2. \A d \in Account : Exists(d) => Exists(d)'
      BY <2>2, <2>3 DEF Exists
    <3>3. OneAccount(b[2])
      BY <2>10, <3>2 DEF OneAccount
    <3> QED BY <2>1, <2>7, <2>10, <3>1, <3>3 DEF MoneyInv
  <2>11. MoneyInv'
    BY <2>8, <2>9, <2>10 DEF MoneyInv
  <2> QED BY <2>6, <2>11
<1> QED BY <1>6, <1>7
-----------------------------------------------------------------------------
(***************************************************************************)
(* What was approved, asked for or stored stays so.                        *)
(***************************************************************************)
Grows ==
  /\ approved \subseteq approved'
  /\ payouts \subseteq payouts'
  /\ year' = 0 => year = 0
  /\ forked => forked'
  /\ \A a \in Account : Exists(a) => Exists(a)'

\* Approvals are only ever added.
LEMMA RecordApproves ==
  ASSUME NEW p \in Process, Record(p)
  PROVE  approved \subseteq approved'
BY DEF Record, ReadHistory, SaveHistory, ResetTreasury, ClearHistory, RemoveFile,
   CheckUpload, MarkProcessed, RecordDecision, ResolveException, UploadCredit,
   BankPayoutWebhook, SetActive, Edit, Replace, Approve

LEMMA EndsGrow ==
  ASSUME NEW p, Ends(p), approved' = approved, year' = year
  PROVE  Grows
BY DEF Ends, KeepsIntents, Grows, Exists

\* A call that ends asks for what was approved.
LEMMA EndsApproval ==
  ASSUME DisbursalTypeOK, CallInv, ApprovalInv, NEW p \in Process, Ends(p),
         approved' = approved, year' = year
  PROVE  ApprovalInv'
<1> SUFFICES ASSUME ApprovalsHold
             PROVE  /\ \A q \in Process : Calling(q)' =>
                         <<call'[q].account[1], call'[q].account[2], call'[q].terms>>
                           \in approved
                    /\ \A a \in Account : Exists(a)' =>
                         <<a[1], a[2], intent'[a].terms>> \in approved
                    /\ \A r \in payouts' :
                         <<r.account[1], r.account[2], r.terms>> \in approved
  BY DEF ApprovalInv, ApprovalsHold
<1>1. ASSUME NEW q \in Process, Calling(q)'
      PROVE  call'[q] = call[q] /\ Calling(q)
  BY <1>1 DEF Ends, NoCall, Calling, CallAt, DisbursalTypeOK
<1>2. \A a \in Account : /\ Exists(a)' => Exists(a)
                         /\ intent'[a].terms = intent[a].terms
  BY DEF Ends, KeepsIntents, Exists
<1>3. ASSUME NEW r \in payouts'
      PROVE  <<r.account[1], r.account[2], r.terms>> \in approved
  <2>1. CASE r \in payouts
    BY <2>1 DEF ApprovalInv
  <2>2. CASE CallAt(p, "pay") /\ r = Payout(p)
    <3>1. Calling(p) /\ r.account = call[p].account /\ r.terms = call[p].terms
      BY <2>2 DEF Payout, Calling, CallAt
    <3> QED BY <3>1 DEF ApprovalInv
  <2> QED BY <1>3, <2>1, <2>2 DEF Ends
<1> QED BY <1>1, <1>2, <1>3 DEF ApprovalInv

\* So does one that starts: its decision passed the guard, and what is settled
\* was approved, or has its intent on the same terms.
LEMMA CreateApproval ==
  ASSUME HistoryInv, NEW p \in Process, NEW i \in Invoice, NEW k \in ProviderKey,
         GetOrCreate(p, i, k)
  PROVE  ApprovalInv'
<1> DEFINE d == copy[p][i]
           a == <<d.vendor, i, year>>
           c == [at |-> "look", account |-> a, terms |-> d.terms, key |-> k]
<1>1. /\ call' = [call EXCEPT ![p] = c]
      /\ UNCHANGED <<intent, payouts, approved, year>>
      /\ SameTerms(a, d.terms) /\ i \in job[p].todo /\ at[p] \in Paying
  BY DEF GetOrCreate, Paying
<1>2. DisbursalTypeOK /\ d \in Decision /\ d.vendor \in Vendor /\ year \in Year
      /\ Sound(i, d) /\ Payable(d)
  BY <1>1 DEF HistoryInv, DisbursalTypeOK, Decision, Shown, DueInv, Paying
<1>3. c.account[1] = d.vendor /\ c.account[2] = i /\ c.terms = d.terms
      /\ a \in Account
  BY <1>2 DEF Account
<1>4. ASSUME ApprovalsHold
      PROVE  <<d.vendor, i, d.terms>> \in approved
  <2>1. CASE d.status \in Disbursable \/ "credit" \notin Endpoint
    BY <1>2, <1>4, <2>1 DEF Sound, Payable, ApprovalsHold
  <2>2. CASE d.status = "SETTLED" /\ year = 0
    <3>1. Exists(a)
      BY <1>2, <1>4, <2>2 DEF Sound, ApprovalsHold
    <3>2. intent[a].terms = d.terms
      BY <1>1, <3>1 DEF SameTerms
    <3>3. <<a[1], a[2], intent[a].terms>> \in approved
      BY <1>3, <1>4, <3>1 DEF HistoryInv, ApprovalInv
    <3> QED BY <3>2, <3>3
  <2> QED BY <1>2, <1>4, <2>1, <2>2 DEF Payable, ApprovalsHold
<1> HIDE DEF c, a
<1>5. call'[p] = c /\ \A q \in Process \ {p} : call'[q] = call[q]
  BY <1>1, <1>2 DEF DisbursalTypeOK
<1>6. ASSUME ApprovalsHold, NEW q \in Process, Calling(q)'
      PROVE  <<call'[q].account[1], call'[q].account[2], call'[q].terms>> \in approved
  <2>1. CASE q = p
    BY <1>3, <1>4, <1>5, <1>6, <2>1
  <2>2. CASE q # p
    BY <1>5, <1>6, <2>2 DEF HistoryInv, ApprovalInv, Calling, CallAt
  <2> QED BY <2>1, <2>2
<1> QED BY <1>1, <1>6 DEF HistoryInv, ApprovalInv, ApprovalsHold, Exists

\* The accesses in between store what the call asks for.
LEMMA AccessApproval ==
  ASSUME DisbursalTypeOK, CallInv, ApprovalInv, NEW p \in Process,
         LookAgain(p) \/ StoreIntent(p)
  PROVE  ApprovalInv' /\ Grows
<1> DEFINE a == call[p].account
<1>1. Calling(p) /\ a \in Account
  BY CallDue DEF LookAgain, StoreIntent, Calling, CallAt
<1>2. PICK label \in {"store", "pay"} : Access(p, label)
  BY DEF LookAgain, StoreIntent
<1>3. \A q \in Process :
        /\ Calling(q)' <=> Calling(q)
        /\ call'[q].account = call[q].account /\ call'[q].terms = call[q].terms
  BY <1>1, <1>2 DEF Access, DisbursalTypeOK, Call, Calling, CallAt
<1>4. UNCHANGED <<payouts, approved, year>> /\ (forked => forked')
  BY <1>2 DEF LookAgain, StoreIntent, Access
<1>5. \A b \in Account :
        /\ intent'[b] = intent[b] \/ (b = a /\ Exists(b)'
                                      /\ intent'[b].terms = call[p].terms)
        /\ Exists(b) => Exists(b)'
  <2>1. CASE intent' = intent
    BY <2>1 DEF Exists
  <2>2. CASE StoreIntent(p)
    <3> DEFINE e == [phase |-> "open", terms |-> call[p].terms, key |-> call[p].key]
    <3>1. e.phase = "open" /\ e.terms = call[p].terms
          /\ intent' = [intent EXCEPT ![a] = e]
      BY <2>2 DEF StoreIntent
    <3> HIDE DEF e
    <3>2. intent'[a] = e /\ \A b \in Account \ {a} : intent'[b] = intent[b]
      BY <1>1, <3>1 DEF DisbursalTypeOK
    <3> QED BY <3>1, <3>2 DEF Exists
  <2> QED BY <2>1, <2>2 DEF LookAgain
<1>6. Grows
  BY <1>4, <1>5 DEF Grows
<1>7. ASSUME ApprovalsHold, NEW b \in Account, Exists(b)'
      PROVE  <<b[1], b[2], intent'[b].terms>> \in approved
  <2>1. <<a[1], a[2], call[p].terms>> \in approved
    BY <1>1, <1>7 DEF ApprovalInv
  <2>2. CASE intent'[b] = intent[b]
    BY <1>7, <2>2 DEF ApprovalInv, Exists
  <2> QED BY <1>5, <2>1, <2>2
<1>8. ApprovalInv'
  BY <1>3, <1>4, <1>7 DEF ApprovalInv, ApprovalsHold
<1> QED BY <1>6, <1>8

\* More approvals do no harm.
LEMMA IdleApproval ==
  ASSUME ApprovalInv, UNCHANGED paymentVars, approved \subseteq approved',
         year' = 0 => year = 0, forked => forked'
  PROVE  ApprovalInv' /\ Grows
<1>1. UNCHANGED <<intent, call, payouts>>
  BY DEF paymentVars
<1>2. Grows
  BY <1>1 DEF Grows, Exists
<1>3. ApprovalInv'
  BY <1>1 DEF ApprovalInv, ApprovalsHold, Calling, CallAt, Exists
<1> QED BY <1>2, <1>3
-----------------------------------------------------------------------------
(***************************************************************************)
(* What the histories show stays sound.                                    *)
(***************************************************************************)
\* What is sound stays sound.
LEMMA SoundGrows ==
  ASSUME Grows, DisbursalTypeOK
  PROVE  \A i \in Invoice, d \in Decision : Sound(i, d) => Sound(i, d)'
<1> SUFFICES ASSUME NEW i \in Invoice, NEW d \in Decision, Sound(i, d)
             PROVE  Sound(i, d)'
  OBVIOUS
<1>1. d.status \in Disbursable => <<d.vendor, i, d.terms>> \in approved'
  BY DEF Sound, Grows
<1>2. ASSUME d.status = "SETTLED", "webhook" \notin Endpoint
      PROVE  /\ "credit" \notin Endpoint => <<d.vendor, i, d.terms>> \in approved'
             /\ year' = 0 => Exists(<<d.vendor, i, 0>>)'
  <2>1. <<d.vendor, i, 0>> \in Account
    BY ZeroTypes DEF Account, Decision
  <2> QED BY <1>2, <2>1 DEF Sound, Grows
<1>3. ASSUME d.status = "SETTLED", "webhook" \notin Endpoint,
             "credit" \notin Endpoint, Evidenced, ~forked', OneAccount(i)'
      PROVE  PaidFor(i, d)'
  <2>1. OneAccount(i) /\ ~forked
    BY <1>3 DEF Grows, OneAccount
  <2>2. PaidFor(i, d)
    BY <1>3, <2>1 DEF Sound
  <2> QED BY <2>2 DEF PaidFor, Grows
<1> QED BY <1>1, <1>2, <1>3 DEF Sound

\* A number without a decision is.
LEMMA AbsentSound == \A i : Sound(i, NoDecision) /\ Sound(i, NoDecision)'
BY DEF Sound, NoDecision, Disbursable, Scheduled, Approved

\* A process that takes a history over, and writes its copy or nothing, shows
\* nothing else.
LEMMA ShownMoves ==
  ASSUME DisbursalTypeOK, NEW p \in Process, NEW h,
         copy' = [copy EXCEPT ![p] = h],
         file' = file \/ file' = copy[p] \/ file' = EmptyHistory, NEW i \in Invoice
  PROVE  Shown(i)' \subseteq Shown(i) \cup {NoDecision, h[i]}
<1>1. \A q \in Process : copy'[q] = IF q = p THEN h ELSE copy[q]
  BY DEF DisbursalTypeOK
<1>2. file'[i] \in {file[i], copy[p][i], NoDecision}
  BY DEF EmptyHistory
<1> QED BY <1>1, <1>2 DEF Shown

\* What a process loads is shown.
LEMMA LoadedShown ==
  ASSUME NEW p \in Process, NEW i \in Invoice
  PROVE  Loaded(p)[i] \in Shown(i)
BY DEF Loaded, Shown

\* What is shown is a decision.
LEMMA ShownType ==
  ASSUME DisbursalTypeOK, NEW i \in Invoice
  PROVE  Shown(i) \subseteq Decision
BY DEF Shown, DisbursalTypeOK

AllSound == \A i \in Invoice : \A d \in Shown(i) : Sound(i, d)

\* If a step shows but what was shown, nothing, and sound decisions, all is sound.
LEMMA ShownSound ==
  ASSUME DisbursalTypeOK, AllSound, Grows,
         \A i \in Invoice : \A d \in Shown(i)' :
           d \in Shown(i) \/ d = NoDecision \/ Sound(i, d)'
  PROVE  AllSound'
BY SoundGrows, AbsentSound, ShownType DEF AllSound

\* Steps that take over a history shown, and write a copy, keep all sound.
LEMMA CopySound ==
  ASSUME DisbursalTypeOK, AllSound, Grows, NEW p \in Process, NEW h,
         copy' = [copy EXCEPT ![p] = h],
         file' = file \/ file' = copy[p] \/ file' = EmptyHistory,
         \A i \in Invoice : h[i] \in Shown(i) \cup {NoDecision}
  PROVE  AllSound'
<1>1. ASSUME NEW i \in Invoice, NEW d \in Shown(i)'
      PROVE  d \in Shown(i) \/ d = NoDecision
  <2>1. Shown(i)' \subseteq Shown(i) \cup {NoDecision, h[i]}
    BY ShownMoves
  <2> QED BY <1>1, <2>1
<1> QED BY <1>1, ShownSound

\* A replaced decision is sound if it is approved where it becomes disbursable,
\* and settled only by the webhook or because it was.
LEMMA ReplaceSound ==
  ASSUME DisbursalTypeOK, AllSound, Grows, NEW p \in Process, NEW i \in Invoice,
         NEW d \in Decision, Replace(p, i, d),
         d.status = "SETTLED" =>
           \/ "webhook" \in Endpoint
           \/ /\ Loaded(p)[i].status = "SETTLED"
              /\ d.vendor = Loaded(p)[i].vendor
              /\ d.terms = Loaded(p)[i].terms \/ "credit" \in Endpoint
  PROVE  AllSound'
<1>1. PICK e \in Decision : e = Loaded(p)[i]
  BY LoadedType
<1>2. Sound(i, e)'
  <2>1. Sound(i, e)
    BY <1>1, LoadedShown DEF AllSound
  <2> QED BY <1>1, <2>1, SoundGrows
<1>3. d.status \in Disbursable => <<d.vendor, i, d.terms>> \in approved'
  BY DEF Replace, Approve
<1>4. ASSUME d.status = "SETTLED", "webhook" \notin Endpoint
      PROVE  /\ e.status = "SETTLED" /\ d.vendor = e.vendor
             /\ "credit" \notin Endpoint => d.terms = e.terms
  BY <1>1, <1>4
<1>5. Sound(i, d)'
  BY <1>2, <1>3, <1>4 DEF Sound, PaidFor
<1> DEFINE h == [Loaded(p) EXCEPT ![i] = d]
<1>6. h[i] = d /\ \A k \in Invoice \ {i} : h[k] = Loaded(p)[k]
  BY LoadedType
<1>7. copy' = [copy EXCEPT ![p] = h] /\ file' = file
  BY DEF Replace, Proceed
<1> HIDE DEF h
<1>8. ASSUME NEW k \in Invoice, NEW x \in Shown(k)'
      PROVE  x \in Shown(k) \/ x = NoDecision \/ Sound(k, x)'
  <2>1. x \in Shown(k) \cup {NoDecision, h[k]}
    BY <1>7, ShownMoves
  <2>2. CASE k = i
    BY <1>5, <1>6, <2>1, <2>2
  <2>3. CASE k # i
    BY <1>6, <2>1, <2>3, LoadedShown
  <2> QED BY <2>2, <2>3
<1> QED BY <1>8, ShownSound

\* Recording keeps what is shown sound.
LEMMA RecordSound ==
  ASSUME DisbursalTypeOK, AllSound, Grows, NEW p \in Process, Record(p)
  PROVE  AllSound'
<1>1. ASSUME NEW h, copy' = [copy EXCEPT ![p] = h],
             \A i \in Invoice : h[i] \in Shown(i) \cup {NoDecision},
             file' = file \/ file' = copy[p] \/ file' = EmptyHistory
      PROVE  AllSound'
  BY <1>1, CopySound
<1>2. ASSUME copy' = copy, file' = file \/ file' = copy[p] \/ file' = EmptyHistory
      PROVE  AllSound'
  <2>1. copy' = [copy EXCEPT ![p] = copy[p]]
    BY <1>2, Unmoved
  <2> QED BY <1>1, <1>2, <2>1 DEF Shown
<1>3. \A i \in Invoice : Loaded(p)[i] \in Shown(i)
  BY LoadedShown
<1>4. CASE ReadHistory(p)
  BY <1>1, <1>3, <1>4 DEF ReadHistory
<1>5. CASE SaveHistory(p) \/ ClearHistory(p)
  BY <1>2, <1>5 DEF SaveHistory, ClearHistory, Written
<1>6. CASE ResetTreasury(p)
  <2>1. copy' = [copy EXCEPT ![p] = EmptyHistory] /\ file' = file
    BY <1>6 DEF ResetTreasury, Proceed
  <2>2. \A i \in Invoice : EmptyHistory[i] = NoDecision
    BY DEF EmptyHistory
  <2> QED BY <1>1, <2>1, <2>2
<1>7. CASE RemoveFile(p)
  BY <1>2, <1>7 DEF RemoveFile
<1>8. ASSUME NEW a \in Account, CheckUpload(p, a) \/ MarkProcessed(p, a)
      PROVE  AllSound'
  BY <1>2, <1>8 DEF CheckUpload, MarkProcessed, historyVars
<1>9. ASSUME NEW a \in Account, NEW v \in Verdict, RecordDecision(p, a, v)
      PROVE  AllSound'
  <2> DEFINE d == [NoDecision EXCEPT !.status = v, !.vendor = a[1]]
  <2>1. d \in Decision /\ d.status = v /\ v # "SETTLED" /\ a[2] \in Invoice
    BY NewDecisionType, DisbursalAssumption DEF NoDecision, Account
  <2>2. Replace(p, a[2], d)
    BY <1>9 DEF RecordDecision
  <2> HIDE DEF d
  <2> QED BY <2>1, <2>2, ReplaceSound
<1>10. ASSUME NEW i \in Invoice PROVE Loaded(p)[i] \in Decision
  BY LoadedType
<1>11. ASSUME NEW i \in Invoice, ResolveException(p, i) PROVE AllSound'
  <2> DEFINE d == Loaded(p)[i]
             cut == [d EXCEPT !.status = "SHORT_PAID_APPROVED", !.terms = @ + 1]
  <2>0. d \in Decision
    BY <1>10
  <2>1. ASSUME NEW s \in {"APPROVED_BY_CONTROLLER", "REJECTED_RETURNED_TO_VENDOR"},
               Replace(p, i, [d EXCEPT !.status = s])
        PROVE  AllSound'
    <3>1. [d EXCEPT !.status = s] \in Decision
          /\ [d EXCEPT !.status = s].status # "SETTLED"
      BY <2>0, EditedTypes DEF Decision
    <3> QED BY <2>1, <3>1, ReplaceSound
  <2>2. ASSUME d.terms < MaxCuts, Replace(p, i, cut) PROVE AllSound'
    <3>1. cut \in Decision
      BY <2>0, <2>2, ReducedType
    <3>2. cut.status # "SETTLED"
      BY <2>0 DEF Decision
    <3> HIDE DEF cut
    <3> QED BY <2>2, <3>1, <3>2, ReplaceSound
  <2> QED BY <1>11, <2>1, <2>2 DEF ResolveException, Edit
<1>12. ASSUME NEW i \in Invoice, UploadCredit(p, i) PROVE AllSound'
  <2> DEFINE d == Loaded(p)[i]
             e == [d EXCEPT !.terms = @ + 1]
  <2>1. e \in Decision
    BY <1>10, <1>12, ReducedType DEF UploadCredit
  <2>2. e.status = d.status /\ e.vendor = d.vendor
    BY <1>10 DEF Decision
  <2>3. Replace(p, i, e) /\ "credit" \in Endpoint
    BY <1>12 DEF UploadCredit, Edit, Begin
  <2> HIDE DEF e
  <2> QED BY <2>1, <2>2, <2>3, ReplaceSound
<1>13. ASSUME NEW i \in Invoice, BankPayoutWebhook(p, i) PROVE AllSound'
  <2> DEFINE e == [Loaded(p)[i] EXCEPT !.status = "SETTLED"]
  <2>1. e \in Decision
    BY <1>10, EditedTypes
  <2>2. Replace(p, i, e) /\ "webhook" \in Endpoint
    BY <1>13 DEF BankPayoutWebhook, Edit, Begin
  <2> HIDE DEF e
  <2> QED BY <2>1, <2>2, ReplaceSound
<1>14. ASSUME NEW i \in Invoice, SetActive(p, i) PROVE AllSound'
  BY <1>10, <1>14, ReplaceSound DEF SetActive, Edit
<1> QED
  BY <1>4, <1>5, <1>6, <1>7, <1>8, <1>9, <1>11, <1>12, <1>13, <1>14
  DEF Record

\* A decision that is answered with success was due, has its intent and, where
\* nothing is forked, its payout.
LEMMA SettlesSound ==
  ASSUME HistoryInv, AllSound, NEW p \in Process, Settles(p)
  PROVE  AllSound' /\ Grows
<1>1. DisbursalTypeOK /\ CallInv /\ ApprovalInv /\ DueInv
  BY DEF HistoryInv
<1>2. PICK i \in job[p].todo, answer \in Answers :
        /\ Notes(p, i, answer)
        /\ Calling(p) => i = call[p].account[2]
        /\ answer = "SUCCESS" => Calling(p) /\ Earned(p)
  BY DEF Settles
<1>3. Grows /\ file' = file /\ year' = year /\ approved' = approved
  BY <1>2, EndsGrow DEF Settles, Notes
<1>4. i \in Invoice /\ copy[p] \in [Invoice -> Decision]
  BY <1>1 DEF DisbursalTypeOK, Job
<1>5. PICK d \in Decision, label \in {"idle", "save", "bulk"}, j \in Job :
        /\ Moves(p, label, [copy[p] EXCEPT ![i] = d], j)
        /\ d.vendor = copy[p][i].vendor /\ d.terms = copy[p][i].terms
        /\ \/ d = copy[p][i]
           \/ d.status = "SETTLED" /\ answer = "SUCCESS"
           \/ d.status = "PAYMENT_UNKNOWN"
  BY <1>2 DEF Notes
<1>6. CASE d = copy[p][i]
  <2>1. \A k \in Invoice : [copy[p] EXCEPT ![i] = d][k] \in Shown(k)
    BY <1>4, <1>6 DEF Shown
  <2> QED BY <1>1, <1>3, <1>5, <2>1, CopySound DEF Moves
<1>7. ASSUME \/ d.status = "SETTLED" /\ answer = "SUCCESS"
             \/ d.status = "PAYMENT_UNKNOWN"
      PROVE  Sound(i, d)'
  <2>1. d.status \notin Disbursable
    BY <1>7 DEF Disbursable, Scheduled, Approved
  <2>2. ASSUME d.status = "SETTLED", "webhook" \notin Endpoint
        PROVE  /\ "credit" \notin Endpoint => <<d.vendor, i, d.terms>> \in approved'
               /\ year' = 0 => Exists(<<d.vendor, i, 0>>)'
               /\ "credit" \notin Endpoint /\ Evidenced /\ ~forked' /\ OneAccount(i)' =>
                    PaidFor(i, d)'
    <3> DEFINE a == call[p].account
    <3>1. Calling(p) /\ Earned(p) /\ i = a[2] /\ a \in Account
          /\ a[1] = d.vendor /\ call[p].terms = d.terms /\ a[3] <= year
      BY <1>1, <1>2, <1>5, <1>7, <2>2, CallDue DEF CallInv
    <3>2. "credit" \notin Endpoint => <<d.vendor, i, d.terms>> \in approved
      BY <1>1, <2>2, <3>1 DEF ApprovalInv, ApprovalsHold
    <3>3. ASSUME year' = 0 PROVE Exists(<<d.vendor, i, 0>>)'
      <4>1. a[3] = 0
        BY <1>3, <3>1, <3>3, DisbursalAssumption DEF Account, Year
      <4>2. a = <<d.vendor, i, 0>>
        BY <3>1, <4>1 DEF Account
      <4> QED BY <1>3, <3>1, <4>2 DEF Earned, Grows
    <3>4. ASSUME Evidenced, ~forked', OneAccount(i)' PROVE PaidFor(i, d)'
      <4>1. OneAccount(a[2])
        BY <3>1, <3>4, AccountsKept DEF Settles, Ends
      <4>2. PICK r \in payouts' : r.account = a /\ r.terms = call[p].terms
        BY <3>1, <3>4, <4>1 DEF Earned
      <4> QED BY <3>1, <4>2 DEF PaidFor
    <3> QED BY <1>3, <3>2, <3>3, <3>4
  <2> QED BY <2>1, <2>2 DEF Sound
<1>8. CASE \/ d.status = "SETTLED" /\ answer = "SUCCESS"
           \/ d.status = "PAYMENT_UNKNOWN"
  <2> DEFINE h == [copy[p] EXCEPT ![i] = d]
  <2>1. h[i] = d /\ \A k \in Invoice \ {i} : h[k] \in Shown(k)
    BY <1>4 DEF Shown
  <2>2. copy' = [copy EXCEPT ![p] = h]
    BY <1>5 DEF Moves
  <2> HIDE DEF h
  <2>3. ASSUME NEW k \in Invoice, NEW x \in Shown(k)'
        PROVE  x \in Shown(k) \/ x = NoDecision \/ Sound(k, x)'
    <3>1. x \in Shown(k) \cup {NoDecision, h[k]}
      BY <1>1, <1>3, <2>2, ShownMoves
    <3>2. CASE k = i
      BY <1>7, <1>8, <2>1, <3>1, <3>2
    <3>3. CASE k # i
      BY <2>1, <3>1, <3>3
    <3> QED BY <3>2, <3>3
  <2> QED BY <1>1, <1>3, <2>3, ShownSound
<1> QED BY <1>3, <1>5, <1>6, <1>8

\* Steps that leave the histories alone keep all sound.
LEMMA SameSound ==
  ASSUME DisbursalTypeOK, AllSound, Grows, UNCHANGED <<file, copy>>
  PROVE  AllSound'
BY ShownSound DEF Shown
-----------------------------------------------------------------------------
(***************************************************************************)
(* The invariant, and what follows.                                        *)
(***************************************************************************)
\* The types hold initially.
LEMMA TypeInit == DisbursalInit => DisbursalTypeOK
<1> SUFFICES ASSUME DisbursalInit PROVE DisbursalTypeOK
  OBVIOUS
<1>1. /\ present \in BOOLEAN
      /\ file \in [Invoice -> Decision]
      /\ copy \in [Process -> [Invoice -> Decision]]
      /\ processed \subseteq Account
      /\ payouts \subseteq [account: Account, terms: Amount, key: ProviderKey]
      /\ approved \subseteq Vendor \X Invoice \X Amount
      /\ forked \in BOOLEAN
      /\ requests \in Nat
      /\ year \in Year
  BY EmptyTypes, ZeroTypes DEF DisbursalInit
<1>2. at \in [Process -> {"idle", "save", "clear", "remove", "dispatch", "bulk"}]
  BY DEF DisbursalInit
<1>3. job \in [Process -> Job] /\ call \in [Process -> Call]
  BY NoJobType, NoCallType DEF DisbursalInit
<1>4. upload \in [Process -> [Account -> {"none", "checked", "recorded"}]]
  BY DEF DisbursalInit
<1>5. NoIntent \in Intent
  BY ZeroTypes DEF NoIntent, Intent
<1>6. intent \in [Account -> Intent]
  BY <1>5 DEF DisbursalInit
<1> QED BY <1>1, <1>2, <1>3, <1>4, <1>6 DEF DisbursalTypeOK

\* Initially nothing is paid and every history is empty.
LEMMA HistoryInit == DisbursalInit => HistoryInv
<1> SUFFICES ASSUME DisbursalInit PROVE HistoryInv
  OBVIOUS
<1>1. \A p \in Process : ~Calling(p) /\ at[p] \notin Paying /\ ~CallAt(p, "pay")
  BY DEF DisbursalInit, Calling, CallAt, NoCall, Paying
<1>2. \A a \in Account : ~Exists(a) /\ intent[a].phase # "settled"
  BY DEF DisbursalInit, Exists, NoIntent
<1>3. payouts = {}
  BY DEF DisbursalInit
<1>4. \A i \in Invoice : Shown(i) = {NoDecision}
  BY DEF DisbursalInit, Shown, EmptyHistory
<1>5. \A i \in Invoice : \A d \in Shown(i) : Sound(i, d)
  BY <1>4, AbsentSound
<1>6. DueInv /\ CallInv /\ KeyInv
  BY <1>1 DEF DueInv, CallInv, KeyInv, Paying
<1>7. MoneyInv /\ ApprovalInv
  BY <1>1, <1>2, <1>3 DEF MoneyInv, ApprovalInv
<1> QED BY <1>5, <1>6, <1>7, TypeInit DEF HistoryInv

\* A process that pays keeps it.
LEMMA SettleStep ==
  ASSUME HistoryInv, NEW p \in Process, Settle(p) PROVE HistoryInv'
<1>1. DisbursalTypeOK /\ DueInv /\ CallInv /\ KeyInv /\ MoneyInv /\ ApprovalInv
      /\ AllSound
  BY DEF HistoryInv, AllSound
<1>2. DisbursalTypeOK' /\ DueInv' /\ CallInv'
  BY <1>1, SettleType, SettleLinks
<1>3. ASSUME KeyInv', MoneyInv', ApprovalInv', AllSound' PROVE HistoryInv'
  BY <1>2, <1>3 DEF HistoryInv, AllSound
<1>4. ASSUME UNCHANGED <<year, paymentVars, approved>>
      PROVE  KeyInv' /\ MoneyInv' /\ ApprovalInv' /\ Grows
  <2>1. UNCHANGED <<intent, call, payouts, forked>>
    BY <1>4 DEF paymentVars
  <2>2. KeyInv' /\ MoneyInv'
    BY <1>1, <2>1 DEF KeyInv, MoneyInv, Calling, CallAt, Stored, Exists, OneAccount
  <2> QED BY <1>1, <1>4, <2>1, <2>2, IdleApproval
<1>5. CASE Starts(p)
  <2>1. KeyInv' /\ MoneyInv' /\ ApprovalInv' /\ Grows
    BY <1>4, <1>5 DEF Starts
  <2>2. AllSound'
    BY <1>1, <1>5, <2>1, CopySound, LoadedShown DEF Starts, Moves
  <2> QED BY <1>3, <2>1, <2>2
<1>6. CASE Settles(p)
  <2>1. Ends(p) /\ approved' = approved /\ year' = year
    BY <1>6 DEF Settles, Notes
  <2> QED BY <1>1, <1>3, <1>6, <2>1, EndsMoney, EndsApproval, SettlesSound
<1>7. ASSUME NEW i \in Invoice, NEW k \in ProviderKey, GetOrCreate(p, i, k)
      PROVE  HistoryInv'
  <2>1. UNCHANGED <<file, copy>> /\ Grows
    BY <1>7 DEF GetOrCreate, historyVars, Grows, Exists
  <2> QED BY <1>1, <1>3, <1>7, <2>1, CreateMoney, CreateApproval, SameSound
<1>8. CASE LookAgain(p) \/ StoreIntent(p)
  <2>1. UNCHANGED <<file, copy>>
    BY <1>8 DEF LookAgain, StoreIntent, Access, historyVars
  <2> QED BY <1>1, <1>3, <1>8, <2>1, AccessMoney, AccessApproval, SameSound
<1>9. CASE BulkDone(p)
  <2>1. UNCHANGED <<year, paymentVars, approved, file, copy>>
    BY <1>9 DEF BulkDone
  <2> QED BY <1>1, <1>3, <1>4, <2>1, SameSound
<1> QED
  BY <1>1, <1>5, <1>6, <1>7, <1>8, <1>9, StartStarts, EndingSettles DEF Settle

\* Every step keeps it.
LEMMA HistoryStep == HistoryInv /\ [DisbursalNext]_disbursalVars => HistoryInv'
<1> SUFFICES ASSUME HistoryInv, [DisbursalNext]_disbursalVars PROVE HistoryInv'
  OBVIOUS
<1>1. DisbursalTypeOK /\ DueInv /\ CallInv /\ KeyInv /\ MoneyInv /\ ApprovalInv
      /\ AllSound
  BY DEF HistoryInv, AllSound
<1>2. ASSUME UNCHANGED paymentVars, approved \subseteq approved',
             year' = 0 => year = 0
      PROVE  KeyInv' /\ MoneyInv' /\ ApprovalInv' /\ Grows
  <2>1. UNCHANGED <<intent, call, payouts, forked>>
    BY <1>2 DEF paymentVars
  <2>2. KeyInv' /\ MoneyInv'
    BY <1>1, <2>1 DEF KeyInv, MoneyInv, Calling, CallAt, Stored, Exists, OneAccount
  <2> QED BY <1>1, <1>2, <2>1, <2>2, IdleApproval
<1>3. ASSUME NEW p \in Process, Record(p) PROVE HistoryInv'
  <2>1. DisbursalTypeOK' /\ Quiet(p)
    BY <1>1, <1>3, RecordType
  <2>2. DueInv' /\ CallInv'
    BY <1>1, <2>1, QuietLinks
  <2>3. KeyInv' /\ MoneyInv' /\ ApprovalInv' /\ Grows
    BY <1>2, <1>3, <2>1, RecordApproves DEF Quiet
  <2>4. AllSound'
    BY <1>1, <1>3, <2>3, RecordSound
  <2> QED BY <2>1, <2>2, <2>3, <2>4 DEF HistoryInv, AllSound
<1>4. ASSUME NEW p \in Process, CrashProcess(p) PROVE HistoryInv'
  <2>1. DisbursalTypeOK' /\ Ends(p) /\ Moves(p, "idle", EmptyHistory, NoJob)
    BY <1>1, <1>4, CrashEnds
  <2>2. approved' = approved /\ year' = year /\ file' = file
    BY <1>4 DEF CrashProcess
  <2>3. KeyInv' /\ MoneyInv' /\ ApprovalInv' /\ Grows
    BY <1>1, <2>1, <2>2, EndsMoney, EndsApproval, EndsGrow
  <2>4. call' = [call EXCEPT ![p] = NoCall]
    BY <2>1 DEF Ends
  <2>5. DueInv' /\ CallInv'
    BY <1>1, <2>1, <2>2, <2>4, LinksKept DEF Paying
  <2>6. \A i \in Invoice : EmptyHistory[i] = NoDecision
    BY DEF EmptyHistory
  <2>7. AllSound'
    BY <1>1, <2>1, <2>2, <2>3, <2>6, CopySound DEF Moves
  <2> QED BY <2>1, <2>3, <2>5, <2>7 DEF HistoryInv, AllSound
<1>5. CASE NewYear
  <2>1. UNCHANGED <<present, file, copy, at, job, approved, paymentVars>>
    BY <1>5 DEF NewYear, historyVars
  <2>2. DisbursalTypeOK' /\ year' >= year /\ year' # 0
    BY <1>1, <1>5, YearType
  <2>3. KeyInv' /\ MoneyInv' /\ ApprovalInv' /\ Grows
    BY <1>2, <2>1, <2>2
  <2>4. DueInv'
    BY <1>1, <2>1 DEF DueInv, Payable
  <2>5. \A p \in Process : Calling(p) => call[p].account[3] \in Nat
    BY <1>1 DEF CallInv, Account, Year
  <2>6. year \in Nat /\ year' \in Nat
    BY <1>1, <2>2 DEF DisbursalTypeOK, Year
  <2>7. CallInv'
    BY <1>1, <2>1, <2>2, <2>5, <2>6 DEF CallInv, Calling, CallAt, paymentVars
  <2>8. AllSound'
    BY <1>1, <2>1, <2>3, SameSound
  <2> QED BY <2>2, <2>3, <2>4, <2>7, <2>8 DEF HistoryInv, AllSound
<1>6. CASE UNCHANGED disbursalVars
  <2>1. UNCHANGED <<paymentVars, approved, year, file, copy, at, job>>
    BY <1>6 DEF disbursalVars, historyVars
  <2>2. KeyInv' /\ MoneyInv' /\ ApprovalInv' /\ Grows
    BY <1>2, <2>1
  <2>3. DisbursalTypeOK'
    BY <1>1, <1>6 DEF DisbursalTypeOK, disbursalVars, historyVars, uploadVars,
       paymentVars
  <2>4. DueInv' /\ CallInv'
    BY <1>1, <2>1 DEF DueInv, CallInv, Payable, Calling, CallAt, paymentVars
  <2>5. AllSound'
    BY <1>1, <2>1, <2>2, SameSound
  <2> QED BY <2>2, <2>3, <2>4, <2>5 DEF HistoryInv, AllSound
<1> QED BY <1>3, <1>4, <1>5, <1>6, SettleStep DEF DisbursalNext

\* HistoryInv holds always: whatever stale copy overwrites the file and however
\* the calls of the processes meet, what any history shows as payable was approved
\* as it stands, a provider key stands for one amount, and until calls meet each
\* other's intents every payout is that of the stored intent of its account.
THEOREM HistoryInvariance == DisbursalSpec => []HistoryInv
<1>1. DisbursalInit => HistoryInv
  BY HistoryInit
<1>2. HistoryInv /\ [DisbursalNext]_disbursalVars => HistoryInv'
  BY HistoryStep
<1> QED BY <1>1, <1>2, PTL DEF DisbursalSpec

\* The variables of the history, the copies and the payments keep their types.
THEOREM HistoryTypes == DisbursalSpec => []DisbursalTypeOK
<1>1. HistoryInv => DisbursalTypeOK
  BY DEF HistoryInv
<1> QED BY <1>1, HistoryInvariance, PTL

\* Under the conditions of SettledAsAgreed, what the file shows as settled was
\* paid to its vendor, in the amount it shows (main.py disburse, bulk-disburse).
THEOREM SettledMeansPaid == DisbursalSpec => []SettledAsAgreed
<1>1. HistoryInv => SettledAsAgreed
  BY DEF HistoryInv, SettledAsAgreed, Shown, Sound
<1> QED BY <1>1, HistoryInvariance, PTL

\* Without callbacks and late credits, no payout was asked for on terms nobody
\* scheduled or approved for its vendor (the guards of disburse and bulk-disburse).
THEOREM PayoutsAsApproved == DisbursalSpec => []PaidAsApproved
<1>1. HistoryInv => PaidAsApproved
  BY DEF HistoryInv, ApprovalInv, PaidAsApproved
<1> QED BY <1>1, HistoryInvariance, PTL

\* Until calls meet each other's intents, an account has one payout at most: one
\* provider key and one amount, whatever is uploaded, resolved, credited or reset
\* (the intent's terms check).
THEOREM PayoutsAreFinal == DisbursalSpec => []PaidOnce
<1>1. HistoryInv => PaidOnce
  <2> SUFFICES ASSUME HistoryInv, ~forked, NEW r \in payouts, NEW s \in payouts,
                      r.account = s.account
               PROVE  r = s
    BY DEF PaidOnce
  <2>1. r.key = s.key /\ r.terms = s.terms
    BY DEF HistoryInv, MoneyInv
  <2>2. \A x \in payouts : x = [account |-> x.account, terms |-> x.terms, key |-> x.key]
    BY DEF HistoryInv, DisbursalTypeOK
  <2> QED BY <2>1, <2>2
<1> QED BY <1>1, HistoryInvariance, PTL
-----------------------------------------------------------------------------
(***************************************************************************)
(* A single process loses no decision.                                     *)
(***************************************************************************)
\* From load to save, the copy differs from the file only where the request
\* works; and a removed file holds nothing.
OwnInv ==
  /\ ~present => file = EmptyHistory
  /\ Cardinality(Process) = 1 => \A p \in Process :
       /\ at[p] \in Paying => job[p].todo \subseteq job[p].invoices
       /\ at[p] \in {"save", "dispatch", "bulk"} /\ present =>
            \A i \in Invoice \ job[p].invoices : copy[p][i] = file[i]

\* The only process is the one that takes the step.
LEMMA OnlyProcess ==
  ASSUME IsFiniteSet(Process), Cardinality(Process) = 1,
         NEW p \in Process, NEW q \in Process
  PROVE  q = p
BY FS_Singleton

\* A process goes on with a history that differs from the file only where its
\* job says.
LEMMA OwnKept ==
  ASSUME IsFiniteSet(Process), DisbursalTypeOK, OwnInv, NEW p \in Process,
         NEW label, NEW h, NEW j, UNCHANGED <<present, file>>,
         Moves(p, label, h, j),
         label \in Paying => j.todo \subseteq j.invoices,
         label \in {"save", "dispatch", "bulk"} /\ present =>
           \A i \in Invoice \ j.invoices : h[i] = file[i]
  PROVE  OwnInv'
<1>1. at'[p] = label /\ copy'[p] = h /\ job'[p] = j
  BY DEF DisbursalTypeOK, Moves
<1> SUFFICES ASSUME Cardinality(Process) = 1, NEW q \in Process
             PROVE  /\ at'[q] \in Paying =>
                         job'[q].todo \subseteq job'[q].invoices
                    /\ at'[q] \in {"save", "dispatch", "bulk"} /\ present' =>
                         \A i \in Invoice \ job'[q].invoices :
                           copy'[q][i] = file'[i]
  BY DEF OwnInv, Paying
<1>2. q = p
  BY OnlyProcess
<1> QED BY <1>1, <1>2

\* A process that has written the file, or dies, works on nothing.
LEMMA OwnRests ==
  ASSUME IsFiniteSet(Process), DisbursalTypeOK, OwnInv, NEW p \in Process,
         NEW label \in {"idle", "remove"}, at' = [at EXCEPT ![p] = label],
         ~present' => file' = EmptyHistory
  PROVE  OwnInv'
<1>1. at'[p] = label
  BY DEF DisbursalTypeOK
<1> QED BY <1>1, OnlyProcess DEF OwnInv, Paying

\* A replaced decision is the one the request is about.
LEMMA ReplaceOwn ==
  ASSUME IsFiniteSet(Process), DisbursalTypeOK, OwnInv, NEW p \in Process,
         NEW i \in Invoice, NEW d, Replace(p, i, d)
  PROVE  OwnInv'
<1> DEFINE h == [Loaded(p) EXCEPT ![i] = d]
           j == [NoJob EXCEPT !.invoices = {i}]
<1>1. j.invoices = {i}
  BY DEF NoJob
<1>2. present => \A k \in Invoice \ {i} : h[k] = file[k]
  BY DEF Loaded, DisbursalTypeOK
<1>3. Moves(p, "save", h, j) /\ UNCHANGED <<present, file>>
  BY DEF Replace, Proceed, Moves
<1> HIDE DEF h, j
<1> QED BY <1>1, <1>2, <1>3, OwnKept DEF Paying

\* Records, edits and saves.
LEMMA RecordOwn ==
  ASSUME IsFiniteSet(Process), DisbursalTypeOK, OwnInv, NEW p \in Process,
         Record(p)
  PROVE  OwnInv'
<1> USE DEF historyVars
<1>1. CASE ReadHistory(p)
  <2>1. /\ Moves(p, "idle", Loaded(p), job[p])
        /\ UNCHANGED <<present, file, at, job>>
    BY <1>1, Unmoved DEF ReadHistory, Idle, Moves
  <2> QED BY <2>1, OwnKept DEF Paying
<1>2. CASE SaveHistory(p)
  BY <1>2, OwnRests DEF SaveHistory, Finish, Written, OwnInv
<1>3. CASE ResetTreasury(p)
  <2>1. Moves(p, "clear", EmptyHistory, NoJob) /\ UNCHANGED <<present, file>>
    BY <1>3 DEF ResetTreasury, Proceed, Moves
  <2> QED BY <2>1, OwnKept DEF Paying
<1>4. CASE ClearHistory(p)
  BY <1>4, OwnRests DEF ClearHistory, Written, OwnInv
<1>5. CASE RemoveFile(p)
  BY <1>5, OwnRests DEF RemoveFile, Finish, OwnInv
<1>6. ASSUME NEW a \in Account, CheckUpload(p, a) \/ MarkProcessed(p, a)
      PROVE  OwnInv'
  BY <1>6 DEF CheckUpload, MarkProcessed, OwnInv
<1>7. ASSUME NEW a \in Account, NEW v \in Verdict, RecordDecision(p, a, v)
      PROVE  OwnInv'
  <2>1. a[2] \in Invoice
    BY DEF Account
  <2> QED BY <1>7, <2>1, ReplaceOwn DEF RecordDecision
<1>8. ASSUME NEW i \in Invoice,
             \/ ResolveException(p, i) \/ UploadCredit(p, i)
             \/ BankPayoutWebhook(p, i) \/ SetActive(p, i)
      PROVE  OwnInv'
  <2>1. PICK endpoint, d : Edit(p, endpoint, i, d)
    BY <1>8 DEF ResolveException, UploadCredit, BankPayoutWebhook, SetActive
  <2> QED BY <2>1, ReplaceOwn DEF Edit
<1> QED BY <1>1, <1>2, <1>3, <1>4, <1>5, <1>6, <1>7, <1>8 DEF Record

\* Disbursements touch what their job names.
LEMMA SettleOwn ==
  ASSUME IsFiniteSet(Process), DisbursalTypeOK, CallInv, KeyInv, MoneyInv, OwnInv,
         NEW p \in Process, Settle(p)
  PROVE  OwnInv'
<1> USE DEF historyVars
<1>1. CASE Starts(p)
  <2>1. PICK j \in Job, label \in Paying :
          Moves(p, label, Loaded(p), j) /\ j.todo \subseteq j.invoices
    BY <1>1 DEF Starts
  <2>2. present => Loaded(p) = file
    BY DEF Loaded
  <2>3. UNCHANGED <<present, file>>
    BY <1>1 DEF Starts
  <2> QED BY <2>1, <2>2, <2>3, OwnKept
<1>2. CASE BulkDone(p)
  <2>1. /\ UNCHANGED <<present, file, copy, job>>
        /\ at[p] = "bulk" /\ at' = [at EXCEPT ![p] = "save"]
    BY <1>2 DEF BulkDone
  <2>2. at'[p] = "save"
    BY <2>1 DEF DisbursalTypeOK
  <2> QED BY <2>1, <2>2, OnlyProcess DEF OwnInv, Paying
<1>3. CASE Settles(p)
  <2>1. PICK i \in job[p].todo, answer \in Answers : Notes(p, i, answer)
    BY <1>3 DEF Settles
  <2>2. PICK d \in Decision, label \in {"idle", "save", "bulk"}, j \in Job :
          /\ Moves(p, label, [copy[p] EXCEPT ![i] = d], j)
          /\ label = "bulk" => /\ j.todo = job[p].todo \ {i}
                               /\ j.invoices = job[p].invoices
          /\ label = "save" => j = job[p]
    BY <2>1 DEF Notes
  <2>3. at[p] \in Paying /\ UNCHANGED <<present, file>>
    BY <1>3, <2>1 DEF Settles, Notes
  <2>4. copy[p] \in [Invoice -> Decision]
    BY DEF DisbursalTypeOK
  <2>5. CASE Cardinality(Process) = 1
    <3>1. /\ job[p].todo \subseteq job[p].invoices
          /\ present => \A k \in Invoice \ job[p].invoices : copy[p][k] = file[k]
      BY <2>3, <2>5 DEF OwnInv, Paying
    <3>2. present => \A k \in Invoice \ job[p].invoices :
                       [copy[p] EXCEPT ![i] = d][k] = file[k]
      BY <2>4, <3>1
    <3>3. CASE label = "idle"
      BY <2>2, <2>3, <3>3, OwnKept DEF Paying
    <3>4. CASE label # "idle"
      <4>1. j.invoices = job[p].invoices /\ j.todo \subseteq j.invoices
        BY <2>2, <3>1, <3>4
      <4> QED BY <2>2, <2>3, <3>2, <4>1, OwnKept
    <3> QED BY <3>3, <3>4
  <2>6. CASE Cardinality(Process) # 1
    BY <2>3, <2>6 DEF OwnInv
  <2> QED BY <2>5, <2>6
<1>4. ASSUME NEW i \in Invoice, NEW k \in ProviderKey, GetOrCreate(p, i, k)
      PROVE  OwnInv'
  BY <1>4 DEF GetOrCreate, OwnInv
<1>5. CASE LookAgain(p) \/ StoreIntent(p)
  <2>1. UNCHANGED <<present, file, copy, at, job>>
    BY <1>5 DEF LookAgain, StoreIntent, Access
  <2> QED BY <2>1 DEF OwnInv
<1> QED
  BY <1>1, <1>2, <1>3, <1>4, <1>5, StartStarts, EndingSettles DEF Settle

\* With a single process, a save changes only what its request is about:
\* whatever else the file shows is what the request had loaded.
THEOREM SavesKeepDecisions ==
  ASSUME IsFiniteSet(Process) PROVE DisbursalSpec => DecisionsKept
<1>1. DisbursalInit => OwnInv
  BY DEF DisbursalInit, OwnInv, Paying
<1>2. HistoryInv /\ OwnInv /\ [DisbursalNext]_disbursalVars => OwnInv'
  <2> SUFFICES ASSUME HistoryInv, OwnInv, [DisbursalNext]_disbursalVars
               PROVE  OwnInv'
    OBVIOUS
  <2>1. CASE UNCHANGED disbursalVars \/ NewYear
    BY <2>1 DEF NewYear, disbursalVars, historyVars, OwnInv
  <2>2. ASSUME NEW p \in Process, CrashProcess(p) PROVE OwnInv'
    BY <2>2, OwnRests DEF CrashProcess, HistoryInv, OwnInv
  <2> QED BY <2>1, <2>2, RecordOwn, SettleOwn DEF DisbursalNext, HistoryInv
<1>3. HistoryInv /\ OwnInv /\ [DisbursalNext]_disbursalVars =>
        [Cardinality(Process) = 1 =>
           \A p \in Process, i \in Invoice :
             at[p] = "save" /\ Known(file[i]) /\ file'[i] # file[i]
               => i \in job[p].invoices]_disbursalVars
  <2> SUFFICES ASSUME HistoryInv, OwnInv, DisbursalNext, Cardinality(Process) = 1,
                      NEW p \in Process, NEW i \in Invoice, at[p] = "save",
                      Known(file[i]), file'[i] # file[i]
               PROVE  i \in job[p].invoices
    OBVIOUS
  <2>1. present
    BY DEF OwnInv, EmptyHistory, NoDecision, Known
  <2>2. Record(p) \/ Settle(p) \/ CrashProcess(p)
    BY OnlyProcess DEF DisbursalNext, NewYear, historyVars
  <2>3. DisbursalTypeOK /\ CallInv /\ KeyInv /\ MoneyInv
    BY DEF HistoryInv
  <2>4. ~Settle(p)
    <3>1. ~Starts(p) /\ ~Settles(p)
      BY DEF Starts, Settles, Paying
    <3> QED BY <2>3, <3>1, StartStarts, EndingSettles DEF Settle, BulkDone,
            GetOrCreate, LookAgain, StoreIntent, Access, historyVars
  <2>5. file' = copy[p]
    BY <2>2, <2>4 DEF Record, ReadHistory, SaveHistory, Written, ResetTreasury,
       Begin, Idle, ClearHistory, RemoveFile, CheckUpload, MarkProcessed,
       historyVars, RecordDecision, ResolveException, UploadCredit,
       BankPayoutWebhook, SetActive, Edit, CrashProcess
  <2> QED BY <2>1, <2>5 DEF OwnInv
<1> QED BY <1>1, <1>2, <1>3, HistoryInvariance, PTL DEF DisbursalSpec, DecisionsKept
=============================================================================
