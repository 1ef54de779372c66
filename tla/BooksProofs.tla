----------------------------- MODULE BooksProofs -----------------------------
(***************************************************************************)
(* BooksInv is an invariant of AccountingBooks for every number of         *)
(* requests, journals and records, and BooksTypeOK, ReversalNegates,       *)
(* ReleasedIsPaid and PostedKept follow.                                   *)
(***************************************************************************)
EXTENDS AccountingBooks, TLAPS

----------------------------------------------------------------------------
(* The invariant.                                                          *)

Reference == Number \cup {Nothing}

JournalRec == [postings : Postings \cup {"none"}, sign : Int, origin : Reference]

EntryRec ==
  [journal : JournalRec, state : {"ACTIVE", "REVERSED", "REVERSAL"},
   reversal : Reference, replacement : Reference]

HoldRec ==
  [state : {"NONE", "AWAITING_EVIDENCE", "PARTIAL_RELEASE", "RELEASED"},
   released : Nat, remaining : Nat]

JobRec ==
  [kind : {"none", "post", "reverse", "replace", "release"},
   on : Reference, rep : Reference, journal : JournalRec,
   read : EntryRec \cup {NoEntry}, found : EntryRec \cup {NoEntry},
   hold : Hold \cup {"none"}, due : HoldRec, asked : Nat]

TypeInv ==
  /\ books \in [Number -> EntryRec \cup {NoEntry}]
  /\ holds \in [Hold -> HoldRec]
  /\ at \in [Worker -> Labels]
  /\ job \in [Worker -> JobRec]
  /\ paid \in [Hold -> Nat]

\* The labels a request of each kind passes.
LabelsOf(kind) ==
  CASE kind = "none"    -> {"idle"}
    [] kind = "post"    -> {"checkPosted", "post"}
    [] kind = "reverse" -> {"mark", "reverse"}
    [] kind = "replace" -> {"mark", "reverse", "reread", "checkPosted", "post",
                            "link"}
    [] kind = "release" -> {"release"}

Reversing(w) == job[w].kind \in {"reverse", "replace"}
Posting(w) == job[w].kind \in {"post", "replace"}

\* It has marked the journal it reverses.
Marked(w) == Reversing(w) /\ at[w] # "mark"

\* A request that reverses holds a journal that exists and may be reversed.
JobOf(w) ==
  /\ at[w] \in LabelsOf(job[w].kind)
  /\ Reversing(w) =>
       /\ job[w].on \in Number /\ job[w].on[2] < MaxDepth
       /\ job[w].read \in EntryRec
       /\ books[job[w].on] # NoEntry
  /\ Posting(w) => job[w].rep \in Number /\ job[w].rep[2] = 0
  /\ job[w].found = NoEntry
  /\ at[w] = "link" => books[job[w].rep] # NoEntry

JobInv == \A w \in Worker : JobOf(w)

\* Records, and what releases have read of them, add up.
AddsUp(r, h) == r.state # "NONE" => r.released + r.remaining = Retained[h]

DueOf(w) == at[w] = "release" =>
  /\ job[w].hold \in Hold
  /\ job[w].due.state # "NONE"
  /\ AddsUp(job[w].due, job[w].hold)
  /\ job[w].asked <= job[w].due.remaining

HoldInv ==
  /\ \A h \in Hold : AddsUp(holds[h], h)
  /\ \A w \in Worker : DueOf(w)

\* As long as no write hid another, the entry a reversal was made from has
\* kept its journal, and a marked one its mark.
MarkOf(w) == Reversing(w) =>
  /\ books[job[w].on].journal = job[w].read.journal
  /\ Marked(w) => books[job[w].on].state = "REVERSED"

MarkInv == ~crossed => \A w \in Worker : MarkOf(w)

\* A reversal is of a journal in the ledger; the last ones are not reversed.
OriginInv == \A t \in Number : books[t] # NoEntry =>
  /\ t[2] > 0 => books[<<t[1], t[2] - 1>>] # NoEntry
  /\ books[t].state = "REVERSED" => t[2] < MaxDepth

LedgerInv == TypeInv /\ JobInv /\ MarkInv /\ OriginInv /\ ReversalNegates

BooksInv == LedgerInv /\ HoldInv /\ ReleasedIsPaid

----------------------------------------------------------------------------
(* Numbers and records.                                                    *)

LEMMA NumberParts ==
  ASSUME NEW t \in Number
  PROVE  t = <<t[1], t[2]>> /\ t[1] \in Base /\ t[2] \in Nat /\ t[2] <= MaxDepth
BY BooksAssumption DEF Number

LEMMA RevOfNumber ==
  ASSUME NEW t \in Number, t[2] < MaxDepth
  PROVE  /\ RevOf(t) \in Number
         /\ RevOf(t)[1] = t[1] /\ RevOf(t)[2] = t[2] + 1
         /\ RevOf(t) # t
         /\ t = <<RevOf(t)[1], RevOf(t)[2] - 1>>
BY NumberParts, BooksAssumption DEF Number, RevOf

LEMMA BaseNumber ==
  ASSUME NEW b \in Base
  PROVE  <<b, 0>> \in Number /\ <<b, 0>>[2] = 0
BY BooksAssumption DEF Number

\* The absent entry is told apart from every entry.
LEMMA EntryShape ==
  /\ NoEntry \notin EntryRec
  /\ \A e \in EntryRec : e.state \in {"ACTIVE", "REVERSED", "REVERSAL"}
BY DEF NoEntry, EntryRec

LEMMA EntryMade ==
  ASSUME NEW journal \in JournalRec, NEW state \in {"ACTIVE", "REVERSAL"}
  PROVE  /\ Entry(journal, state) \in EntryRec
         /\ Entry(journal, state).journal = journal
         /\ Entry(journal, state).state = state
         /\ Entry(journal, state).replacement = Nothing
BY DEF Entry, EntryRec, Reference

LEMMA EntryMarked ==
  ASSUME NEW e \in EntryRec, NEW t \in Number, NEW r \in Number
  PROVE  LET m == [e EXCEPT !.state = "REVERSED", !.reversal = r]
             l == [e EXCEPT !.replacement = r]
         IN /\ m \in EntryRec /\ m.journal = e.journal /\ m.state = "REVERSED"
            /\ m.replacement = e.replacement
            /\ l \in EntryRec /\ l.journal = e.journal /\ l.state = e.state
            /\ l.replacement = r
BY DEF EntryRec, Reference

LEMMA NegatedType ==
  ASSUME NEW journal \in JournalRec, NEW t \in Number
  PROVE  /\ Negated(journal, t) \in JournalRec
         /\ Negated(journal, t).postings = journal.postings
         /\ Negated(journal, t).sign = -journal.sign
BY DEF Negated, Journal, JournalRec, Reference

LEMMA NoJobType == NoJob \in JobRec /\ NoJob.kind = "none" /\ NoJob.found = NoEntry
BY DEF NoJob, JobRec, Journal, JournalRec, NoHold, HoldRec, Reference

LEMMA NoHoldType == NoHold \in HoldRec /\ NoHold.state = "NONE" /\ NoHold.released = 0
BY DEF NoHold, HoldRec

LEMMA InitType == BooksInit => BooksInv
<1> SUFFICES ASSUME BooksInit PROVE BooksInv
  OBVIOUS
<1>1. TypeInv
  <2>1. books \in [Number -> EntryRec \cup {NoEntry}]
    BY DEF BooksInit
  <2>2. holds \in [Hold -> HoldRec] /\ paid \in [Hold -> Nat]
    BY NoHoldType DEF BooksInit
  <2>3. at \in [Worker -> Labels] /\ job \in [Worker -> JobRec]
    BY NoJobType DEF BooksInit, Labels
  <2> QED
    BY <2>1, <2>2, <2>3 DEF TypeInv
<1>2. JobInv /\ MarkInv
  BY NoJobType DEF BooksInit, JobInv, JobOf, MarkInv, MarkOf, Reversing, Posting, LabelsOf
<1>3. OriginInv /\ ReversalNegates
  BY DEF BooksInit, OriginInv, ReversalNegates
<1>4. HoldInv /\ ReleasedIsPaid
  BY NoHoldType DEF BooksInit, HoldInv, DueOf, ReleasedIsPaid, AddsUp
<1> QED
  BY <1>1, <1>2, <1>3, <1>4 DEF BooksInv, LedgerInv

----------------------------------------------------------------------------
(* What a step writes to the ledger.                                       *)

WorkerStep(w) ==
  \/ \E b \in Base, p \in Postings :
       BeginPost(w, b, p) \/ \E t \in Number : BeginReplace(w, t, b, p)
  \/ \E t \in Number : BeginReverse(w, t)
  \/ \E h \in Hold : SaveRetention(w, h)
                     \/ \E a \in Amounts : BeginRelease(w, h, a)
  \/ CheckPosted(w) \/ Post(w) \/ MarkReversed(w) \/ PostReversal(w)
  \/ Reread(w) \/ LinkReplacement(w) \/ UpdateRetention(w) \/ Break(w)

\* e is the entry a step puts under t.
Writes(t, e) ==
  /\ books' = [books EXCEPT ![t] = e]
  /\ t[2] > 0 => books[<<t[1], t[2] - 1>>] # NoEntry
  /\ e.state = "REVERSED" => t[2] < MaxDepth
  /\ ~crossed' =>
       /\ books[t] # NoEntry =>
            /\ e.journal = books[t].journal
            /\ books[t].state = "REVERSED" => e.state = "REVERSED"
       /\ t[2] > 0 => LET o == books[<<t[1], t[2] - 1>>].journal IN
            e.journal.postings = o.postings /\ e.journal.sign = -o.sign
       /\ e.replacement # Nothing =>
            e.replacement \in Number /\ books[e.replacement] # NoEntry /\ e.state = "REVERSED"
       /\ e.state = "REVERSED" =>
            \/ books[t] # NoEntry /\ books[t].state = "REVERSED"
            \/ \E w \in Worker : at'[w] = "reverse" /\ job'[w].on = t

NoWrite == UNCHANGED books

\* Only posting, marking, the reversal and the link write.
LEMMA Unwritten ==
  ASSUME NEW w \in Worker, WorkerStep(w)
  PROVE  NoWrite \/ Post(w) \/ MarkReversed(w) \/ PostReversal(w) \/ LinkReplacement(w)
BY DEF WorkerStep, NoWrite, BeginPost, BeginReplace, BeginReverse, SaveRetention,
       BeginRelease, CheckPosted, Reread, UpdateRetention, Break

LEMMA PostWrites ==
  ASSUME LedgerInv, NEW w \in Worker, Post(w)
  PROVE  \E t \in Number, e \in EntryRec : Writes(t, e)
<1> DEFINE t == job[w].rep
           e == Entry(job[w].journal, "ACTIVE")
<1>1. Posting(w) /\ t \in Number /\ t[2] = 0 /\ job[w].found = NoEntry
  BY DEF LedgerInv, JobInv, JobOf, Posting, LabelsOf, Post, TypeInv, JobRec
<1>2. job[w].journal \in JournalRec
  BY DEF LedgerInv, TypeInv, JobRec
<1>3. e \in EntryRec /\ e.state = "ACTIVE" /\ e.replacement = Nothing
  BY <1>2, EntryMade
<1>4. books' = [books EXCEPT ![t] = e] /\ (~crossed' => books[t] = NoEntry)
  BY <1>1 DEF Post, Posted
<1>5. Writes(t, e)
  BY <1>1, <1>3, <1>4 DEF Writes
<1> QED
  BY <1>1, <1>3, <1>5

LEMMA MarkWrites ==
  ASSUME LedgerInv, NEW w \in Worker, MarkReversed(w)
  PROVE  \E t \in Number, e \in EntryRec : Writes(t, e)
<1> DEFINE t == job[w].on
           e == [job[w].read EXCEPT !.state = "REVERSED", !.reversal = RevOf(t)]
<1>1. Reversing(w)
  BY DEF LedgerInv, JobInv, JobOf, Reversing, LabelsOf, MarkReversed, TypeInv, JobRec
<1>2. t \in Number /\ t[2] < MaxDepth /\ job[w].read \in EntryRec /\ books[t] # NoEntry
  BY <1>1 DEF LedgerInv, JobInv, JobOf
<1>3. RevOf(t) \in Number
  BY <1>2, RevOfNumber
<1>4. /\ e \in EntryRec /\ e.journal = job[w].read.journal /\ e.state = "REVERSED"
      /\ e.replacement = job[w].read.replacement
  BY <1>2, <1>3, EntryMarked
<1>5. /\ books' = [books EXCEPT ![t] = e]
      /\ ~crossed' => ~crossed /\ books[t] = job[w].read
      /\ at' = [at EXCEPT ![w] = "reverse"] /\ job' = job
  BY DEF MarkReversed, Goto
<1>6. at'[w] = "reverse" /\ job'[w].on = t
  BY <1>5 DEF LedgerInv, TypeInv
<1>7. t[2] > 0 => books[<<t[1], t[2] - 1>>] # NoEntry
  BY <1>2 DEF LedgerInv, OriginInv
<1>8. ~crossed' =>
        /\ e.journal = books[t].journal
        /\ t[2] > 0 => LET o == books[<<t[1], t[2] - 1>>].journal IN
             e.journal.postings = o.postings /\ e.journal.sign = -o.sign
        /\ e.replacement # Nothing =>
             e.replacement \in Number /\ books[e.replacement] # NoEntry
  BY <1>2, <1>4, <1>5 DEF LedgerInv, ReversalNegates, EntryRec, Reference
<1>9. Writes(t, e)
  BY <1>2, <1>4, <1>5, <1>6, <1>7, <1>8 DEF Writes
<1> QED
  BY <1>2, <1>4, <1>9

LEMMA ReversalWrites ==
  ASSUME LedgerInv, NEW w \in Worker, PostReversal(w)
  PROVE  \E t \in Number, e \in EntryRec : Writes(t, e)
<1> DEFINE o == job[w].on
           t == RevOf(o)
           j == Negated(job[w].read.journal, o)
           e == Entry(j, "REVERSAL")
<1>1. Reversing(w)
  BY DEF LedgerInv, JobInv, JobOf, Reversing, LabelsOf, PostReversal, TypeInv, JobRec
<1>2. o \in Number /\ o[2] < MaxDepth /\ job[w].read \in EntryRec /\ books[o] # NoEntry
  BY <1>1 DEF LedgerInv, JobInv, JobOf
<1>3. t \in Number /\ o = <<t[1], t[2] - 1>>
  BY <1>2, RevOfNumber
<1>4. /\ job[w].read.journal \in JournalRec
      /\ j \in JournalRec /\ j.postings = job[w].read.journal.postings
      /\ j.sign = -job[w].read.journal.sign
  BY <1>2, NegatedType DEF EntryRec
<1>5. e \in EntryRec /\ e.journal = j /\ e.state = "REVERSAL" /\ e.replacement = Nothing
  BY <1>4, EntryMade
<1>6. /\ books' = [books EXCEPT ![t] = e]
      /\ ~crossed' => ~crossed /\ books[t] \in {NoEntry, e}
  BY DEF PostReversal
<1>7. ~crossed' => books[o].journal = job[w].read.journal
  BY <1>1, <1>6 DEF LedgerInv, MarkInv, MarkOf
<1>8. Writes(t, e)
  BY <1>2, <1>3, <1>4, <1>5, <1>6, <1>7 DEF Writes
<1> QED
  BY <1>3, <1>5, <1>8

LEMMA LinkWrites ==
  ASSUME LedgerInv, NEW w \in Worker, LinkReplacement(w)
  PROVE  \E t \in Number, e \in EntryRec : Writes(t, e)
<1> DEFINE t == job[w].on
           e == [job[w].read EXCEPT !.replacement = job[w].rep]
<1>1. Reversing(w) /\ Marked(w) /\ Posting(w)
  BY DEF LedgerInv, JobInv, JobOf, Reversing, Marked, Posting, LabelsOf, LinkReplacement,
         TypeInv, JobRec
<1>2. /\ t \in Number /\ t[2] < MaxDepth /\ job[w].read \in EntryRec
      /\ books[t] # NoEntry /\ job[w].rep \in Number /\ books[job[w].rep] # NoEntry
  BY <1>1 DEF LedgerInv, JobInv, JobOf, LinkReplacement
<1>3. /\ e \in EntryRec /\ e.journal = job[w].read.journal
      /\ e.state = job[w].read.state /\ e.replacement = job[w].rep
  BY <1>2, EntryMarked
<1>4. /\ books' = [books EXCEPT ![t] = e]
      /\ ~crossed' => ~crossed /\ books[t] = job[w].read
  BY DEF LinkReplacement
<1>5. ~crossed' => books[t].state = "REVERSED"
  BY <1>1, <1>4 DEF LedgerInv, MarkInv, MarkOf
<1>6. t[2] > 0 => books[<<t[1], t[2] - 1>>] # NoEntry
  BY <1>2 DEF LedgerInv, OriginInv
<1>7. ~crossed' =>
        /\ e.journal = books[t].journal
        /\ t[2] > 0 => LET o == books[<<t[1], t[2] - 1>>].journal IN
             e.journal.postings = o.postings /\ e.journal.sign = -o.sign
  BY <1>2, <1>3, <1>4 DEF LedgerInv, ReversalNegates
<1>8. Writes(t, e)
  BY <1>2, <1>3, <1>4, <1>5, <1>6, <1>7 DEF Writes
<1> QED
  BY <1>2, <1>3, <1>8

LEMMA WriteCases ==
  ASSUME LedgerInv, NEW w \in Worker, WorkerStep(w)
  PROVE  NoWrite \/ \E t \in Number, e \in EntryRec : Writes(t, e)
BY Unwritten, PostWrites, MarkWrites, ReversalWrites, LinkWrites

----------------------------------------------------------------------------
(* The ledger after a step.                                                *)

\* What is in the ledger stays: its journal, and its mark.
Kept == \A t \in Number : books[t] # NoEntry =>
  /\ books'[t] # NoEntry
  /\ ~crossed' => /\ books'[t].journal = books[t].journal
                  /\ books[t].state = "REVERSED" => books'[t].state = "REVERSED"

LEMMA StepKept ==
  ASSUME LedgerInv, NEW w \in Worker, WorkerStep(w)
  PROVE  Kept /\ books' \in [Number -> EntryRec \cup {NoEntry}]
<1>0. books \in [Number -> EntryRec \cup {NoEntry}]
  BY DEF LedgerInv, TypeInv
<1>1. CASE NoWrite
  BY <1>0, <1>1 DEF NoWrite, Kept
<1>2. CASE \E t \in Number, e \in EntryRec : Writes(t, e)
  <2>1. PICK t \in Number, e \in EntryRec : Writes(t, e)
    BY <1>2
  <2>2. books' \in [Number -> EntryRec \cup {NoEntry}] /\ books'[t] = e
    BY <1>0, <2>1 DEF Writes
  <2>3. \A u \in Number : u # t => books'[u] = books[u]
    BY <1>0, <2>1 DEF Writes
  <2> QED
    BY <2>1, <2>2, <2>3, EntryShape DEF Writes, Kept
<1> QED
  BY <1>1, <1>2, WriteCases

LEMMA StepOrigin ==
  ASSUME LedgerInv, NEW w \in Worker, WorkerStep(w)
  PROVE  OriginInv'
<1>0. books \in [Number -> EntryRec \cup {NoEntry}] /\ OriginInv /\ Kept
  BY StepKept DEF LedgerInv, TypeInv
<1> SUFFICES ASSUME NEW u \in Number, books'[u] # NoEntry
             PROVE  /\ u[2] > 0 => books'[<<u[1], u[2] - 1>>] # NoEntry
                    /\ books'[u].state = "REVERSED" => u[2] < MaxDepth
  BY DEF OriginInv
<1>1. u[2] > 0 => <<u[1], u[2] - 1>> \in Number
  BY NumberParts, BooksAssumption DEF Number
<1>2. CASE books'[u] = books[u]
  BY <1>0, <1>1, <1>2 DEF OriginInv, Kept
<1>3. CASE books'[u] # books[u]
  <2>1. PICK t \in Number, e \in EntryRec : Writes(t, e)
    BY <1>3, WriteCases DEF NoWrite
  <2>2. u = t /\ books'[u] = e
    BY <1>0, <1>3, <2>1 DEF Writes
  <2> QED
    BY <1>0, <1>1, <2>1, <2>2 DEF Writes, Kept
<1> QED
  BY <1>2, <1>3

\* A step of one request leaves the others where they are.
LEMMA Others ==
  ASSUME TypeInv, NEW w \in Worker, WorkerStep(w), NEW v \in Worker, v # w
  PROVE  at'[v] = at[v] /\ job'[v] = job[v]
BY DEF TypeInv, WorkerStep, BeginPost, BeginReplace, BeginReverse, SaveRetention,
       BeginRelease, Call, CheckPosted, Post, MarkReversed, PostReversal, Reread,
       LinkReplacement, UpdateRetention, Break, Finish, Goto

\* What was hidden or broken off stays so.
LEMMA Histories ==
  ASSUME NEW w \in Worker, WorkerStep(w)
  PROVE  (crossed => crossed') /\ (broken => broken')
<1>1. CASE UNCHANGED <<crossed, broken>>
  BY <1>1
<1>2. CASE CheckPosted(w)
  BY <1>2 DEF CheckPosted
<1>3. CASE Post(w)
  BY <1>3 DEF Post
<1>4. CASE MarkReversed(w)
  BY <1>4 DEF MarkReversed
<1>5. CASE PostReversal(w)
  BY <1>5 DEF PostReversal
<1>6. CASE LinkReplacement(w)
  BY <1>6 DEF LinkReplacement
<1>7. CASE UpdateRetention(w)
  <2>1. CASE (crossed' = (crossed \/ holds[job[w].hold] # job[w].due)) /\ broken' = broken
    BY <2>1
  <2>2. CASE crossed' = crossed /\ broken' = TRUE
    BY <2>2
  <2> QED
    BY <1>7, <2>1, <2>2 DEF UpdateRetention
<1>8. CASE Break(w)
  BY <1>8 DEF Break
<1>9. CASE \/ \E b \in Base, p \in Postings :
                BeginPost(w, b, p) \/ \E t \in Number : BeginReplace(w, t, b, p)
           \/ \E t \in Number : BeginReverse(w, t)
           \/ \E h \in Hold : SaveRetention(w, h)
                              \/ \E a \in Amounts : BeginRelease(w, h, a)
           \/ Reread(w)
  <2> UNCHANGED <<crossed, broken>>
    BY <1>9 DEF BeginPost, BeginReplace, BeginReverse, SaveRetention,
                BeginRelease, Call, Reread
  <2> QED
    BY <1>1
<1> QED
  BY <1>2, <1>3, <1>4, <1>5, <1>6, <1>7, <1>8, <1>9 DEF WorkerStep

\* A journal that still lacks its reversal is about to get it.
LEMMA StepReversing ==
  ASSUME LedgerInv, NEW w \in Worker, WorkerStep(w), ~crossed', ~broken',
         NEW t \in Number, t[2] < MaxDepth, at[w] = "reverse", job[w].on = t
  PROVE  books'[RevOf(t)] # NoEntry
<1>1. PostReversal(w)
  BY DEF WorkerStep, BeginPost, BeginReplace, BeginReverse, SaveRetention,
       BeginRelease, Call, CheckPosted, Post, MarkReversed, Reread,
       LinkReplacement, UpdateRetention, Break
<1>2. RevOf(t) \in Number
  BY RevOfNumber
<1>3. books'[RevOf(t)] = Entry(Negated(job[w].read.journal, t), "REVERSAL")
  BY <1>1, <1>2 DEF PostReversal, LedgerInv, TypeInv
<1>4. Entry(Negated(job[w].read.journal, t), "REVERSAL").state # NoEntry.state
  BY DEF Entry, NoEntry
<1> QED
  BY <1>3, <1>4

----------------------------------------------------------------------------
(* The invariant, part by part.                                            *)

LEMMA StepNegates ==
  ASSUME LedgerInv, NEW w \in Worker, WorkerStep(w)
  PROVE  ReversalNegates'
<1>0. /\ books \in [Number -> EntryRec \cup {NoEntry}]
      /\ books' \in [Number -> EntryRec \cup {NoEntry}]
      /\ Kept /\ OriginInv /\ OriginInv'
  BY StepKept, StepOrigin DEF LedgerInv, TypeInv
<1> SUFFICES ASSUME ~crossed', NEW u \in Number, books'[u] # NoEntry
             PROVE  LET e == books'[u] IN
               /\ e.state = "REVERSED" /\ ~broken' =>
                    \/ books'[RevOf(u)] # NoEntry
                    \/ \E v \in Worker : at'[v] = "reverse" /\ job'[v].on = u
               /\ u[2] > 0 => LET o == books'[<<u[1], u[2] - 1>>].journal IN
                    /\ e.journal.postings = o.postings /\ e.journal.sign = -o.sign
               /\ e.replacement # Nothing =>
                    books'[e.replacement] # NoEntry /\ e.state = "REVERSED"
  BY DEF ReversalNegates
<1>1. ~crossed /\ (~broken' => ~broken)
  BY Histories
<1>2. u[2] > 0 => /\ <<u[1], u[2] - 1>> \in Number
                  /\ books'[u] # NoEntry
  BY NumberParts, BooksAssumption DEF Number
<1>3. books'[u].state = "REVERSED" => RevOf(u) \in Number /\ u[2] < MaxDepth
  BY <1>0, RevOfNumber DEF OriginInv
<1>4. books'[u] \in EntryRec
  BY <1>0
<1>5. books[u] # NoEntry /\ books[u].state = "REVERSED" /\ ~broken' /\ u[2] < MaxDepth =>
        \/ books'[RevOf(u)] # NoEntry
        \/ \E v \in Worker : at'[v] = "reverse" /\ job'[v].on = u
  <2> SUFFICES ASSUME books[u] # NoEntry, books[u].state = "REVERSED", ~broken',
                      u[2] < MaxDepth, books'[RevOf(u)] = NoEntry
               PROVE  \E v \in Worker : at'[v] = "reverse" /\ job'[v].on = u
    OBVIOUS
  <2>1. RevOf(u) \in Number
    BY RevOfNumber
  <2>2. books[RevOf(u)] = NoEntry
    BY <1>0, <2>1 DEF Kept
  <2>3. PICK v \in Worker : at[v] = "reverse" /\ job[v].on = u
    BY <1>1, <2>2 DEF LedgerInv, ReversalNegates
  <2>4. v # w
    BY <2>3, StepReversing
  <2> QED
    BY <2>3, <2>4, Others DEF LedgerInv
<1>6. CASE books'[u] = books[u]
  <2>1. u[2] > 0 => LET o == books'[<<u[1], u[2] - 1>>].journal IN
          books'[u].journal.postings = o.postings /\ books'[u].journal.sign = -o.sign
    BY <1>0, <1>1, <1>2, <1>6 DEF LedgerInv, ReversalNegates, OriginInv, Kept
  <2>2. books'[u].replacement # Nothing =>
          books'[books'[u].replacement] # NoEntry /\ books'[u].state = "REVERSED"
    <3>1. books[u].replacement # Nothing =>
            books[u].replacement \in Number /\ books[books[u].replacement] # NoEntry
                                            /\ books[u].state = "REVERSED"
      BY <1>1, <1>4, <1>6 DEF LedgerInv, ReversalNegates, EntryRec, Reference
    <3> QED
      BY <1>0, <1>6, <3>1 DEF Kept
  <2> QED
    BY <1>3, <1>5, <1>6, <2>1, <2>2
<1>7. CASE books'[u] # books[u]
  <2>1. PICK t \in Number, e \in EntryRec : Writes(t, e)
    BY <1>7, WriteCases DEF NoWrite
  <2>2. u = t /\ books'[u] = e
    BY <1>0, <1>7, <2>1 DEF Writes
  <2>3. u[2] > 0 => LET o == books'[<<u[1], u[2] - 1>>].journal IN
          e.journal.postings = o.postings /\ e.journal.sign = -o.sign
    BY <1>0, <1>2, <2>1, <2>2 DEF Writes, Kept
  <2>4. e.replacement # Nothing =>
          books'[e.replacement] # NoEntry /\ e.state = "REVERSED"
    BY <1>0, <2>1 DEF Writes, Kept
  <2>5. e.state = "REVERSED" /\ ~broken' =>
          \/ books'[RevOf(u)] # NoEntry
          \/ \E v \in Worker : at'[v] = "reverse" /\ job'[v].on = u
    BY <1>3, <1>5, <2>1, <2>2 DEF Writes
  <2> QED
    BY <2>2, <2>3, <2>4, <2>5
<1> QED
  BY <1>6, <1>7

\* Requests a step leaves alone.
LEMMA RestKept ==
  ASSUME LedgerInv, NEW w \in Worker, WorkerStep(w), NEW v \in Worker, v # w
  PROVE  JobOf(v)' /\ (~crossed' => MarkOf(v)')
<1>1. at'[v] = at[v] /\ job'[v] = job[v] /\ Kept /\ JobOf(v)
  BY Others, StepKept DEF LedgerInv, JobInv
<1>2. JobOf(v)'
  <2>1. at[v] = "link" => Posting(v)
    BY <1>1 DEF JobOf, LabelsOf, Posting, LedgerInv, TypeInv, JobRec
  <2> QED
    BY <1>1, <2>1 DEF JobOf, Reversing, Posting, Kept
<1>3. ~crossed' => MarkOf(v)
  BY Histories DEF LedgerInv, MarkInv
<1>4. ~crossed' => MarkOf(v)'
  BY <1>1, <1>3 DEF MarkOf, JobOf, Reversing, Marked, Kept
<1> QED
  BY <1>2, <1>4

\* A request that is over.
LEMMA Finished ==
  ASSUME TypeInv, NEW w \in Worker, Finish(w)
  PROVE  JobOf(w)' /\ MarkOf(w)' /\ at' \in [Worker -> Labels] /\ job' \in [Worker -> JobRec]
<1>1. at'[w] = "idle" /\ job'[w] = NoJob
  BY DEF Finish, Goto, TypeInv
<1>2. JobOf(w)' /\ MarkOf(w)'
  BY <1>1, NoJobType DEF JobOf, MarkOf, Reversing, Posting, LabelsOf
<1>3. at' \in [Worker -> Labels] /\ job' \in [Worker -> JobRec]
  BY NoJobType DEF Finish, Goto, TypeInv, Labels
<1> QED
  BY <1>2, <1>3

\* The request that takes the step.
Self(w) ==
  /\ at' \in [Worker -> Labels] /\ job' \in [Worker -> JobRec]
  /\ JobOf(w)'
  /\ ~crossed' => MarkOf(w)'

LEMMA BeginSelf ==
  ASSUME LedgerInv, HoldInv, NEW w \in Worker,
         \/ \E b \in Base, p \in Postings :
              BeginPost(w, b, p) \/ \E t \in Number : BeginReplace(w, t, b, p)
         \/ \E t \in Number : BeginReverse(w, t)
         \/ \E h \in Hold, a \in Amounts : BeginRelease(w, h, a)
  PROVE  Self(w)
<1>0. /\ at \in [Worker -> Labels] /\ job \in [Worker -> JobRec]
      /\ books \in [Number -> EntryRec \cup {NoEntry}] /\ holds \in [Hold -> HoldRec]
  BY DEF LedgerInv, TypeInv
<1>1. ASSUME NEW b \in Base, NEW p \in Postings, BeginPost(w, b, p) PROVE Self(w)
  <2> DEFINE j == [NoJob EXCEPT !.kind = "post", !.rep = <<b, 0>>,
                     !.journal = Journal(p, 1, Nothing)]
  <2>1. /\ j \in JobRec /\ j.kind = "post" /\ j.rep \in Number /\ j.rep[2] = 0
        /\ j.found = NoEntry
    <3>1. Journal(p, 1, Nothing) \in JournalRec
      BY DEF Journal, JournalRec, Reference
    <3>2. <<b, 0>> \in Number /\ <<b, 0>>[2] = 0
      BY BaseNumber
    <3>3. /\ j \in JobRec /\ j.kind = "post" /\ j.rep = <<b, 0>>
          /\ j.found = NoEntry
      BY <3>1, <3>2, NoJobType DEF JobRec, Reference
    <3> QED
      BY <3>2, <3>3
  <2> HIDE DEF j
  <2>2. /\ at' = [at EXCEPT ![w] = "checkPosted"] /\ job' = [job EXCEPT ![w] = j]
    BY <1>1 DEF BeginPost, Call, Goto, j
  <2>3. at'[w] = "checkPosted" /\ job'[w] = j
    BY <1>0, <2>2
  <2>4. JobOf(w)' /\ MarkOf(w)'
    BY <2>1, <2>3 DEF JobOf, MarkOf, Reversing, Posting, LabelsOf
  <2> QED
    BY <1>0, <2>1, <2>2, <2>4 DEF Self, Labels
<1>2. ASSUME NEW b \in Base, NEW p \in Postings, NEW t \in Number,
             BeginReplace(w, t, b, p)
      PROVE  Self(w)
  <2> DEFINE j == [NoJob EXCEPT !.kind = "replace", !.on = t, !.rep = <<b, 0>>,
                     !.journal = Journal(p, 1, t), !.read = books[t]]
  <2>0. books[t] # NoEntry /\ t[2] < MaxDepth /\ books[t] \in EntryRec
    BY <1>0, <1>2 DEF BeginReplace
  <2>1. /\ j \in JobRec /\ j.kind = "replace" /\ j.rep \in Number /\ j.rep[2] = 0
        /\ j.on = t /\ j.read = books[t] /\ j.found = NoEntry
    <3>1. Journal(p, 1, t) \in JournalRec
      BY DEF Journal, JournalRec, Reference
    <3>2. <<b, 0>> \in Number /\ <<b, 0>>[2] = 0
      BY BaseNumber
    <3>3. /\ j \in JobRec /\ j.kind = "replace" /\ j.rep = <<b, 0>>
          /\ j.on = t /\ j.read = books[t] /\ j.found = NoEntry
      BY <2>0, <3>1, <3>2, NoJobType DEF JobRec, Reference
    <3> QED
      BY <3>2, <3>3
  <2> HIDE DEF j
  <2>2. /\ at' = [at EXCEPT ![w] = "mark"] /\ job' = [job EXCEPT ![w] = j]
        /\ books' = books
    BY <1>2 DEF BeginReplace, Call, Goto, j
  <2>3. at'[w] = "mark" /\ job'[w] = j
    BY <1>0, <2>2
  <2>4. JobOf(w)' /\ MarkOf(w)'
    BY <2>0, <2>1, <2>2, <2>3
       DEF JobOf, MarkOf, Marked, Reversing, Posting, LabelsOf
  <2> QED
    BY <1>0, <2>1, <2>2, <2>4 DEF Self, Labels
<1>3. ASSUME NEW t \in Number, BeginReverse(w, t) PROVE Self(w)
  <2> DEFINE j == [NoJob EXCEPT !.kind = "reverse", !.on = t, !.read = books[t]]
  <2>0. books[t] # NoEntry /\ t[2] < MaxDepth /\ books[t] \in EntryRec
    BY <1>0, <1>3 DEF BeginReverse
  <2>1. /\ j \in JobRec /\ j.kind = "reverse"
        /\ j.on = t /\ j.read = books[t] /\ j.found = NoEntry
    BY <2>0, NoJobType DEF NoJob, JobRec, Reference
  <2> HIDE DEF j
  <2>2. /\ at' = [at EXCEPT ![w] = "mark"] /\ job' = [job EXCEPT ![w] = j]
        /\ books' = books
    BY <1>3 DEF BeginReverse, Call, Goto, j
  <2>3. at'[w] = "mark" /\ job'[w] = j
    BY <1>0, <2>2
  <2>4. JobOf(w)' /\ MarkOf(w)'
    BY <2>0, <2>1, <2>2, <2>3
       DEF JobOf, MarkOf, Marked, Reversing, Posting, LabelsOf
  <2> QED
    BY <1>0, <2>1, <2>2, <2>4 DEF Self, Labels
<1>4. ASSUME NEW h \in Hold, NEW a \in Amounts, BeginRelease(w, h, a) PROVE Self(w)
  <2> DEFINE r == holds[h]
             asked == IF a >= r.remaining THEN r.remaining ELSE a
             j == [NoJob EXCEPT !.kind = "release", !.hold = h, !.asked = asked,
                                !.due = r]
  <2>0. r \in HoldRec /\ asked \in Nat
    BY <1>0, BooksAssumption DEF HoldRec
  <2>1. j \in JobRec /\ j.kind = "release" /\ j.found = NoEntry
    BY <2>0, NoJobType DEF NoJob, JobRec
  <2> HIDE DEF j
  <2>2. at' = [at EXCEPT ![w] = "release"] /\ job' = [job EXCEPT ![w] = j]
    BY <1>4 DEF BeginRelease, Call, Goto, j
  <2>3. at'[w] = "release" /\ job'[w] = j
    BY <1>0, <2>2
  <2>4. JobOf(w)' /\ MarkOf(w)'
    BY <2>1, <2>3 DEF JobOf, MarkOf, Reversing, Posting, LabelsOf
  <2> QED
    BY <1>0, <2>1, <2>2, <2>4 DEF Self, Labels
<1> QED
  BY <1>1, <1>2, <1>3, <1>4

LEMMA FinishSelf ==
  ASSUME LedgerInv, NEW w \in Worker, Finish(w)
  PROVE  Self(w)
BY Finished DEF Self, LedgerInv

\* The steps in the middle of a request.
LEMMA OnwardSelf ==
  ASSUME LedgerInv, NEW w \in Worker,
         \/ CheckPosted(w) \/ Post(w) \/ MarkReversed(w) \/ PostReversal(w)
         \/ Reread(w)
  PROVE  Self(w)
<1>0. /\ at \in [Worker -> Labels] /\ job \in [Worker -> JobRec]
      /\ books \in [Number -> EntryRec \cup {NoEntry}]
      /\ JobOf(w) /\ Kept /\ books' \in [Number -> EntryRec \cup {NoEntry}]
      /\ ~crossed' => MarkOf(w)
  BY StepKept, Histories DEF LedgerInv, TypeInv, JobInv, MarkInv, WorkerStep
<1>00. job[w] \in JobRec
  BY <1>0
<1>1. ASSUME CheckPosted(w) PROVE Self(w)
  <2>0. job[w].kind \in {"post", "replace"} /\ Posting(w)
    BY <1>0, <1>00, <1>1 DEF CheckPosted, JobOf, LabelsOf, JobRec, Posting
  <2>1. CASE Finish(w)
    BY <2>1, FinishSelf
  <2>2. CASE job' = job /\ at' = [at EXCEPT ![w] = "post"]
    <3>1. at'[w] = "post" /\ job'[w] = job[w] /\ books' = books
      BY <1>0, <1>1, <2>2 DEF CheckPosted
    <3>2. JobOf(w)'
      BY <1>0, <2>0, <3>1 DEF JobOf, Reversing, Posting, LabelsOf
    <3>3. Reversing(w) => Marked(w)
      BY <1>1 DEF CheckPosted, Marked
    <3>4. ~crossed' => MarkOf(w)'
      BY <1>0, <3>1, <3>3 DEF MarkOf, Reversing, Marked
    <3> QED
      BY <1>0, <2>2, <3>2, <3>4 DEF Self, Labels
  <2>3. CASE /\ job' = job /\ at' = [at EXCEPT ![w] = "link"]
             /\ Posted(w) # NoEntry /\ job[w].kind = "replace"
    <3>1. at'[w] = "link" /\ job'[w] = job[w] /\ books' = books
      BY <1>0, <1>1, <2>3 DEF CheckPosted
    <3>2. JobOf(w)'
      BY <1>0, <2>3, <3>1 DEF JobOf, Reversing, Posting, LabelsOf, Posted
    <3>3. Reversing(w) => Marked(w)
      BY <1>1 DEF CheckPosted, Marked
    <3>4. ~crossed' => MarkOf(w)'
      BY <1>0, <3>1, <3>3 DEF MarkOf, Reversing, Marked
    <3> QED
      BY <1>0, <2>3, <3>2, <3>4 DEF Self, Labels
  <2> QED
    BY <1>1, <2>1, <2>2, <2>3 DEF CheckPosted, Goto
<1>2. ASSUME Post(w) PROVE Self(w)
  <2>1. CASE Finish(w)
    BY <2>1, FinishSelf
  <2>2. CASE job' = job /\ at' = [at EXCEPT ![w] = "link"] /\ job[w].kind = "replace"
    <3>0. Posting(w) /\ Reversing(w) /\ Marked(w)
      BY <1>2, <2>2 DEF Posting, Reversing, Marked, Post
    <3>1. at'[w] = "link" /\ job'[w] = job[w]
      BY <1>0, <2>2
    <3>2. books'[job[w].rep] = Entry(job[w].journal, "ACTIVE")
      BY <1>0, <1>2, <3>0 DEF Post, JobOf
    <3>3. books'[job[w].rep] # NoEntry
      BY <3>2 DEF Entry, NoEntry
    <3>4. JobOf(w)'
      BY <1>0, <2>2, <3>0, <3>1, <3>3 DEF JobOf, Reversing, Posting, LabelsOf, Kept
    <3>5. ~crossed' => MarkOf(w)'
      BY <1>0, <3>0, <3>1 DEF MarkOf, JobOf, Reversing, Marked, Kept
    <3> QED
      BY <1>0, <2>2, <3>4, <3>5 DEF Self, Labels
  <2> QED
    BY <1>2, <2>1, <2>2 DEF Post, Goto
<1>3. ASSUME MarkReversed(w) PROVE Self(w)
  <2>0. Reversing(w)
    BY <1>0, <1>00, <1>3 DEF MarkReversed, JobOf, LabelsOf, JobRec, Reversing
  <2>1. job' = job /\ at' = [at EXCEPT ![w] = "reverse"] /\ at'[w] = "reverse"
    BY <1>0, <1>3 DEF MarkReversed, Goto
  <2>2. /\ job[w].on \in Number /\ job[w].on[2] < MaxDepth /\ job[w].read \in EntryRec
        /\ books[job[w].on] # NoEntry
    BY <1>0, <2>0 DEF JobOf
  <2>3. books'[job[w].on].state = "REVERSED"
    <3> DEFINE m == [job[w].read EXCEPT !.state = "REVERSED", !.reversal = RevOf(job[w].on)]
    <3>1. books'[job[w].on] = m
      BY <1>0, <1>3, <2>2 DEF MarkReversed
    <3>2. m.state = "REVERSED"
      BY <2>2 DEF EntryRec
    <3> QED
      BY <3>1, <3>2
  <2>4. JobOf(w)'
    BY <1>0, <2>0, <2>1, <2>2 DEF JobOf, Reversing, Posting, LabelsOf, Kept
  <2>5. ~crossed' => MarkOf(w)'
    BY <1>0, <2>0, <2>1, <2>2, <2>3 DEF MarkOf, Reversing, Kept
  <2> QED
    BY <1>0, <2>1, <2>4, <2>5 DEF Self, Labels
<1>4. ASSUME PostReversal(w) PROVE Self(w)
  <2>1. CASE Finish(w)
    BY <2>1, FinishSelf
  <2>2. CASE job' = job /\ at' = [at EXCEPT ![w] = "reread"] /\ job[w].kind = "replace"
    <3>0. Posting(w) /\ Reversing(w) /\ Marked(w)
      BY <1>4, <2>2 DEF Posting, Reversing, Marked, PostReversal
    <3>1. at'[w] = "reread" /\ job'[w] = job[w]
      BY <1>0, <2>2
    <3>2. JobOf(w)'
      BY <1>0, <2>2, <3>0, <3>1 DEF JobOf, Reversing, Posting, LabelsOf, Kept
    <3>3. ~crossed' => MarkOf(w)'
      BY <1>0, <3>0, <3>1 DEF MarkOf, JobOf, Reversing, Marked, Kept
    <3> QED
      BY <1>0, <2>2, <3>2, <3>3 DEF Self, Labels
  <2> QED
    BY <1>4, <2>1, <2>2 DEF PostReversal, Goto
<1>5. ASSUME Reread(w) PROVE Self(w)
  <2>0. job[w].kind = "replace" /\ Reversing(w) /\ Posting(w) /\ Marked(w)
    BY <1>0, <1>00, <1>5
       DEF Reread, JobOf, LabelsOf, JobRec, Reversing, Posting, Marked
  <2>1. books[job[w].on] \in EntryRec /\ job[w].on \in Number
    BY <1>0, <2>0 DEF JobOf
  <2>2. /\ at' = [at EXCEPT ![w] = "checkPosted"]
        /\ job' = [job EXCEPT ![w].read = books[job[w].on]]
        /\ books' = books
    BY <1>5 DEF Reread, Goto
  <2>3. /\ at'[w] = "checkPosted"
        /\ job'[w] = [job[w] EXCEPT !.read = books[job[w].on]]
    BY <1>0, <2>2
  <2>4. /\ job'[w] \in JobRec /\ job'[w].read = books[job[w].on]
        /\ job'[w].kind = "replace" /\ job'[w].on = job[w].on
        /\ job'[w].rep = job[w].rep /\ job'[w].found = job[w].found
    BY <1>00, <2>0, <2>1, <2>3 DEF JobRec
  <2>5. JobOf(w)'
    BY <1>0, <2>0, <2>1, <2>2, <2>3, <2>4 DEF JobOf, Reversing, Posting, LabelsOf
  <2>6. ~crossed' => MarkOf(w)'
    BY <1>0, <2>0, <2>2, <2>4 DEF MarkOf, Reversing, Marked
  <2>7. at' \in [Worker -> Labels] /\ job' \in [Worker -> JobRec]
    BY <1>0, <2>2, <2>3, <2>4 DEF Labels
  <2> QED
    BY <2>5, <2>6, <2>7 DEF Self
<1> QED
  BY <1>1, <1>2, <1>3, <1>4, <1>5

LEMMA StepSelf ==
  ASSUME LedgerInv, HoldInv, NEW w \in Worker, WorkerStep(w)
  PROVE  Self(w)
<1>1. CASE \E h \in Hold : SaveRetention(w, h)
  <2>1. UNCHANGED <<books, at, job, crossed>>
    BY <1>1 DEF SaveRetention
  <2> QED
    BY <2>1 DEF Self, LedgerInv, TypeInv, JobInv, JobOf, MarkInv, MarkOf,
                Reversing, Posting, Marked
<1>2. CASE LinkReplacement(w) \/ UpdateRetention(w) \/ Break(w)
  BY <1>2, FinishSelf DEF LinkReplacement, UpdateRetention, Break
<1> QED
  BY <1>1, <1>2, BeginSelf, OnwardSelf DEF WorkerStep

----------------------------------------------------------------------------
(* The retention records after a step.                                     *)

LEMMA ReleasedAdds ==
  ASSUME NEW r \in HoldRec, NEW h \in Hold, NEW a \in Nat,
         r.state # "NONE", AddsUp(r, h), a <= r.remaining
  PROVE  /\ Released(r, a) \in HoldRec /\ AddsUp(Released(r, a), h)
         /\ Released(r, a).released = r.released + a
BY BooksAssumption DEF Released, HoldRec, AddsUp

LEMMA StepHolds ==
  ASSUME LedgerInv, HoldInv, ReleasedIsPaid, NEW w \in Worker, WorkerStep(w)
  PROVE  /\ holds' \in [Hold -> HoldRec] /\ paid' \in [Hold -> Nat]
         /\ \A h \in Hold : AddsUp(holds'[h], h)
         /\ ReleasedIsPaid'
<1>0. /\ holds \in [Hold -> HoldRec] /\ paid \in [Hold -> Nat]
      /\ \A h \in Hold : AddsUp(holds[h], h)
  BY DEF LedgerInv, TypeInv, HoldInv
<1>1. CASE UNCHANGED <<holds, paid>>
  BY <1>0, <1>1, Histories DEF ReleasedIsPaid
<1>2. ASSUME NEW h \in Hold, SaveRetention(w, h)
      PROVE  /\ holds' \in [Hold -> HoldRec] /\ paid' \in [Hold -> Nat]
             /\ \A g \in Hold : AddsUp(holds'[g], g)
             /\ ReleasedIsPaid'
  <2> DEFINE r == [state |-> "AWAITING_EVIDENCE", released |-> 0,
                   remaining |-> Retained[h]]
  <2>1. r \in HoldRec /\ AddsUp(r, h) /\ r.released = 0
    BY BooksAssumption DEF HoldRec, AddsUp
  <2> HIDE DEF r
  <2>2. /\ holds' = [holds EXCEPT ![h] = r] /\ holds[h] = NoHold
        /\ UNCHANGED <<paid, crossed, broken>>
    BY <1>2 DEF SaveRetention, r
  <2> QED
    BY <1>0, <2>1, <2>2, NoHoldType DEF ReleasedIsPaid
<1>3. CASE UpdateRetention(w)
  <2> DEFINE h == job[w].hold
             r == Released(job[w].due, job[w].asked)
  <2>1. /\ h \in Hold /\ job[w].due \in HoldRec /\ job[w].asked \in Nat
        /\ job[w].due.state # "NONE" /\ AddsUp(job[w].due, h)
        /\ job[w].asked <= job[w].due.remaining
    BY <1>3 DEF UpdateRetention, HoldInv, DueOf, LedgerInv, TypeInv, JobRec
  <2>2. r \in HoldRec /\ AddsUp(r, h) /\ r.released = job[w].due.released + job[w].asked
    BY <2>1, ReleasedAdds
  <2>3. /\ paid' = [paid EXCEPT ![h] = @ + job[w].asked]
        /\ \/ /\ holds' = [holds EXCEPT ![h] = r]
              /\ ~crossed' => ~crossed /\ holds[h] = job[w].due
              /\ broken' = broken
           \/ holds' = holds /\ broken' = TRUE
    BY <1>3 DEF UpdateRetention
  <2> HIDE DEF h, r
  <2>4. paid' \in [Hold -> Nat] /\ holds' \in [Hold -> HoldRec]
    BY <1>0, <2>1, <2>2, <2>3
  <2>5. \A g \in Hold : AddsUp(holds'[g], g)
    BY <1>0, <2>1, <2>2, <2>3
  <2>6. ReleasedIsPaid'
    <3> SUFFICES ASSUME ~crossed', ~broken', NEW g \in Hold
                 PROVE  paid'[g] = holds'[g].released
      BY DEF ReleasedIsPaid
    <3>1. ~crossed /\ ~broken /\ paid[g] = holds[g].released
      BY Histories DEF ReleasedIsPaid
    <3>2. holds' = [holds EXCEPT ![h] = r] /\ holds[h] = job[w].due
      BY <2>3
    <3> QED
      BY <1>0, <2>1, <2>2, <2>3, <3>1, <3>2
  <2> QED
    BY <2>4, <2>5, <2>6
<1> QED
  BY <1>1, <1>2, <1>3
     DEF WorkerStep, BeginPost, BeginReplace, BeginReverse, BeginRelease, Call,
         CheckPosted, Post, MarkReversed, PostReversal, Reread, LinkReplacement, Break

LEMMA StepDue ==
  ASSUME LedgerInv, HoldInv, NEW w \in Worker, WorkerStep(w), NEW v \in Worker
  PROVE  DueOf(v)'
<1>0. DueOf(v) /\ TypeInv
  BY DEF HoldInv, LedgerInv
<1>1. CASE at'[v] = at[v] /\ job'[v] = job[v]
  BY <1>0, <1>1 DEF DueOf
<1>2. CASE v = w /\ \E h \in Hold, a \in Amounts : BeginRelease(w, h, a)
  <2>1. PICK h \in Hold, a \in Amounts : BeginRelease(w, h, a)
    BY <1>2
  <2> DEFINE r == holds[h]
             asked == IF a >= r.remaining THEN r.remaining ELSE a
             j == [NoJob EXCEPT !.kind = "release", !.hold = h, !.asked = asked,
                                !.due = r]
  <2>2. r \in HoldRec /\ AddsUp(r, h) /\ r.state # "NONE"
    BY <1>0, <2>1 DEF TypeInv, HoldInv, BeginRelease
  <2>3. asked <= r.remaining
    BY <2>2, BooksAssumption DEF HoldRec
  <2> HIDE DEF asked
  <2>4. job'[w] = j
    BY <1>0, <2>1 DEF BeginRelease, Call, TypeInv, asked
  <2>5. j.hold = h /\ j.asked = asked /\ j.due = r
    BY NoJobType DEF JobRec
  <2> QED
    BY <1>2, <2>2, <2>3, <2>4, <2>5 DEF DueOf
<1>3. CASE v = w /\ at'[w] # "release"
  BY <1>3 DEF DueOf
<1>4. CASE v = w /\ \E h \in Hold : SaveRetention(w, h)
  BY <1>1, <1>4 DEF SaveRetention
<1>5. CASE v = w /\ ~(\E h \in Hold, a \in Amounts : BeginRelease(w, h, a))
                 /\ ~(\E h \in Hold : SaveRetention(w, h))
  <2>1. at'[w] # "release"
    BY <1>0, <1>5
       DEF WorkerStep, BeginPost, BeginReplace, BeginReverse, Call, CheckPosted,
           Post, MarkReversed, PostReversal, Reread, LinkReplacement,
           UpdateRetention, Break, Finish, Goto, TypeInv
  <2> QED
    BY <1>3, <1>5, <2>1
<1> QED
  BY <1>0, <1>1, <1>2, <1>4, <1>5, Others

LEMMA StepInv ==
  ASSUME BooksInv, BooksNext
  PROVE  BooksInv'
<1>1. PICK w \in Worker : WorkerStep(w)
  BY DEF BooksNext, WorkerStep
<1>2. LedgerInv /\ HoldInv /\ ReleasedIsPaid
  BY DEF BooksInv
<1>3. Self(w) /\ \A v \in Worker : v # w => JobOf(v)' /\ (~crossed' => MarkOf(v)')
  BY <1>1, <1>2, StepSelf, RestKept
<1>4. JobInv' /\ MarkInv'
  BY <1>3 DEF JobInv, MarkInv, Self
<1>5. OriginInv' /\ ReversalNegates'
  BY <1>1, <1>2, StepOrigin, StepNegates
<1>6. TypeInv' /\ HoldInv' /\ ReleasedIsPaid'
  BY <1>1, <1>2, <1>3, StepKept, StepHolds, StepDue DEF TypeInv, HoldInv, Self
<1> QED
  BY <1>4, <1>5, <1>6 DEF BooksInv, LedgerInv

LEMMA StutterInv ==
  ASSUME BooksInv, UNCHANGED booksVars
  PROVE  BooksInv'
<1>1. UNCHANGED <<books, holds, at, job, paid, crossed, broken>>
  BY DEF booksVars
<1> QED
  BY <1>1 DEF BooksInv, LedgerInv, TypeInv, JobInv, JobOf, MarkInv, MarkOf, OriginInv,
              ReversalNegates, HoldInv, DueOf, ReleasedIsPaid, Reversing, Posting, Marked

THEOREM BooksInvariant == BooksSpec => []BooksInv
<1>1. BooksInv /\ [BooksNext]_booksVars => BooksInv'
  BY StepInv, StutterInv
<1> QED
  BY InitType, <1>1, PTL DEF BooksSpec

----------------------------------------------------------------------------
(* What follows from it.                                                   *)

\* Journals and records keep their shapes, and what a record has released and
\* still holds is what it was made out for.
THEOREM BooksTypeCorrect == BooksSpec => []BooksTypeOK
<1>1. BooksInv => BooksTypeOK
  <2> SUFFICES ASSUME BooksInv PROVE BooksTypeOK
    OBVIOUS
  <2>1. TypeInv /\ HoldInv
    BY DEF BooksInv, LedgerInv
  <2>2. \A t \in Number : books[t].state \in EntryStates
    BY <2>1, EntryShape DEF TypeInv, EntryStates, NoEntry
  <2>3. \A h \in Hold : holds[h] \in HoldRec /\ AddsUp(holds[h], h)
    BY <2>1 DEF TypeInv, HoldInv
  <2>4. \A h \in Hold : holds[h].state # "NONE" =>
          /\ holds[h].released \in Nat /\ holds[h].remaining \in Nat
          /\ holds[h].released + holds[h].remaining = Retained[h]
    BY <2>3 DEF HoldRec, AddsUp
  <2> QED
    BY <2>1, <2>2, <2>4 DEF TypeInv, BooksTypeOK
<1> QED
  BY BooksInvariant, <1>1, PTL

\* Every reversal cancels the journal it names, every journal marked as
\* reversed has one or is about to, and every replacement named exists, while
\* no write hid another.
THEOREM ReversalsNegate == BooksSpec => []ReversalNegates
<1>1. BooksInv => ReversalNegates
  BY DEF BooksInv, LedgerInv
<1> QED
  BY BooksInvariant, <1>1, PTL

\* What releases reported as paid out is what the record says.
THEOREM ReleasesPaid == BooksSpec => []ReleasedIsPaid
<1>1. BooksInv => ReleasedIsPaid
  BY DEF BooksInv
<1> QED
  BY BooksInvariant, <1>1, PTL

\* A posted journal keeps its postings for good.
THEOREM JournalsKept == BooksSpec => PostedKept
<1>1. BooksInv /\ [BooksNext]_booksVars =>
        [~crossed' => \A t \in Number : books[t] # NoEntry =>
           books'[t] # NoEntry /\ books'[t].journal = books[t].journal]_booksVars
  <2> SUFFICES ASSUME BooksInv, BooksNext, ~crossed', NEW t \in Number,
                      books[t] # NoEntry
               PROVE  books'[t] # NoEntry /\ books'[t].journal = books[t].journal
    OBVIOUS
  <2>1. PICK w \in Worker : WorkerStep(w)
    BY DEF BooksNext, WorkerStep
  <2>2. Kept
    BY <2>1, StepKept DEF BooksInv
  <2> QED
    BY <2>2 DEF Kept
<1> QED
  BY BooksInvariant, <1>1, PTL DEF BooksSpec, PostedKept
=============================================================================
