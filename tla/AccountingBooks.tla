--------------------------- MODULE AccountingBooks ---------------------------
(***************************************************************************)
(* The general ledger of FirestoreStateStore, where posted journals are    *)
(* reversed and replaced, and the retention records of                     *)
(* GSTR2BSplitSettlementEngine, from which held tax is released.  Every    *)
(* read and every write of a document is a step of its own.                *)
(*                                                                         *)
(* The reversal of journal t is numbered REV-t, that one's REV-REV-t: a    *)
(* number is a base and how often it was reversed.                         *)
(***************************************************************************)
EXTENDS Integers, Sequences, FiniteSets

CONSTANTS
  Worker,       \* requests under way at once
  Base,         \* the numbers journals are posted under
  Postings,     \* contents of journals
  Hold,         \* retention records
  Retained,     \* the tax held by each
  Amounts,      \* partial amounts releases ask for
  MaxDepth,     \* bound: reversals of reversals
  MaxCalls      \* bound: calls in all

ASSUME BooksAssumption ==
  /\ Retained \in [Hold -> Nat \ {0}]
  /\ Amounts \subseteq Nat \ {0}
  /\ MaxDepth \in Nat /\ MaxCalls \in Nat

VARIABLES
  books,     \* general_ledger_journals
  holds,     \* gst_retentions
  at, job,   \* what each worker does next, and on what
  paid,      \* history: what releases reported as released, by record
  crossed,   \* history: a write hid another that it did not know of
  broken,    \* history: a call ended halfway
  calls

booksVars == <<books, holds, at, job, paid, crossed, broken, calls>>

Number == Base \X (0 .. MaxDepth)
RevOf(t) == <<t[1], t[2] + 1>>
Nothing == <<"none", 0>>

NoEntry == [state |-> "NONE"]
NoHold == [state |-> "NONE", released |-> 0, remaining |-> 0]

\* Debits and credits of a reversal are those of the original, swapped.
Journal(postings, sign, origin) ==
  [postings |-> postings, sign |-> sign, origin |-> origin]

Entry(journal, state) ==
  [journal |-> journal, state |-> state, reversal |-> Nothing,
   replacement |-> Nothing]

NoJob == [kind |-> "none", on |-> Nothing, rep |-> Nothing,
          journal |-> Journal("none", 0, Nothing), read |-> NoEntry,
          found |-> NoEntry, hold |-> "none", due |-> NoHold, asked |-> 0]

BooksInit ==
  /\ books = [t \in Number |-> NoEntry]
  /\ holds = [h \in Hold |-> NoHold]
  /\ at = [w \in Worker |-> "idle"]
  /\ job = [w \in Worker |-> NoJob]
  /\ paid = [h \in Hold |-> 0]
  /\ crossed = FALSE /\ broken = FALSE
  /\ calls = 0

Goto(w, label) == at' = [at EXCEPT ![w] = label]

Finish(w) == Goto(w, "idle") /\ job' = [job EXCEPT ![w] = NoJob]

Call(w, fields, label) ==
  /\ at[w] = "idle"
  /\ calls < MaxCalls
  /\ calls' = calls + 1
  /\ job' = [job EXCEPT ![w] = fields]
  /\ Goto(w, label)
  /\ UNCHANGED <<paid, crossed, broken>>

----------------------------------------------------------------------------
(* persist_general_ledger: look whether it is posted, then write.          *)

BeginPost(w, b, p) ==
  /\ Call(w, [NoJob EXCEPT !.kind = "post", !.rep = <<b, 0>>,
                !.journal = Journal(p, 1, Nothing)], "checkPosted")
  /\ UNCHANGED <<books, holds>>

Posted(w) == books[job[w].rep]

\* Slip: nobody looks whether the number is taken.
CheckPosted_Trusting(w) ==
  /\ at[w] = "checkPosted"
  /\ job' = [job EXCEPT ![w].found = Posted(w)]
  /\ Goto(w, "post")
  /\ UNCHANGED <<books, holds, paid, crossed, broken, calls>>

\* The same journal again is no error; another one under the number is.
CheckPosted(w) ==
  /\ at[w] = "checkPosted"
  /\ \/ Posted(w) = NoEntry /\ Goto(w, "post") /\ UNCHANGED <<job, broken>>
     \/ /\ Posted(w) # NoEntry
        /\ IF job[w].kind = "replace" /\ Posted(w).journal = job[w].journal
           THEN Goto(w, "link") /\ UNCHANGED <<job, broken>>
           ELSE Finish(w) /\ broken' = (broken \/ job[w].kind = "replace")
  /\ UNCHANGED <<books, holds, paid, crossed, calls>>

Post(w) ==
  /\ at[w] = "post"
  /\ books' = [books EXCEPT ![job[w].rep] = Entry(job[w].journal, "ACTIVE")]
  /\ crossed' = (crossed \/ Posted(w) # job[w].found)
  /\ IF job[w].kind = "replace" THEN Goto(w, "link") /\ UNCHANGED job
     ELSE Finish(w)
  /\ UNCHANGED <<holds, paid, broken, calls>>

----------------------------------------------------------------------------
(* reverse_general_ledger and replace_general_ledger.                      *)

BeginReverse(w, t) ==
  /\ books[t] # NoEntry /\ t[2] < MaxDepth
  /\ Call(w, [NoJob EXCEPT !.kind = "reverse", !.on = t, !.read = books[t]],
          "mark")
  /\ UNCHANGED <<books, holds>>

BeginReplace(w, t, b, p) ==
  /\ books[t] # NoEntry /\ t[2] < MaxDepth
  /\ Call(w, [NoJob EXCEPT !.kind = "replace", !.on = t, !.rep = <<b, 0>>,
                !.journal = Journal(p, 1, t), !.read = books[t]], "mark")
  /\ UNCHANGED <<books, holds>>

\* The original is written first, whole, as it was read; it is not asked
\* whether it was reversed before.
MarkReversed(w) ==
  LET t == job[w].on IN
  /\ at[w] = "mark"
  /\ books' = [books EXCEPT ![t] =
       [job[w].read EXCEPT !.state = "REVERSED", !.reversal = RevOf(t)]]
  /\ crossed' = (crossed \/ books[t] # job[w].read)
  /\ Goto(w, "reverse")
  /\ UNCHANGED <<holds, job, paid, broken, calls>>

\* Slip: the reversal of a reversal credits again.
Negated_Credit(journal, t) == Journal(journal.postings, -1, t)

Negated(journal, t) == Journal(journal.postings, -journal.sign, t)

\* Reversing again hides that the reversal was reversed meanwhile.
PostReversal(w) ==
  LET t == job[w].on
      reversal == Entry(Negated(job[w].read.journal, t), "REVERSAL")
  IN
  /\ at[w] = "reverse"
  /\ books' = [books EXCEPT ![RevOf(t)] = reversal]
  /\ crossed' = (crossed \/ books[RevOf(t)] \notin {NoEntry, reversal})
  /\ IF job[w].kind = "replace" THEN Goto(w, "reread") /\ UNCHANGED job
     ELSE Finish(w)
  /\ UNCHANGED <<holds, paid, broken, calls>>

Reread(w) ==
  /\ at[w] = "reread"
  /\ job' = [job EXCEPT ![w].read = books[job[w].on]]
  /\ Goto(w, "checkPosted")
  /\ UNCHANGED <<books, holds, paid, crossed, broken, calls>>

LinkReplacement(w) ==
  LET t == job[w].on IN
  /\ at[w] = "link"
  /\ books' = [books EXCEPT ![t] = [job[w].read EXCEPT !.replacement = job[w].rep]]
  /\ crossed' = (crossed \/ books[t] # job[w].read)
  /\ Finish(w)
  /\ UNCHANGED <<holds, paid, broken, calls>>

----------------------------------------------------------------------------
(* Retention: a settlement holds the tax back, releases pay it out.        *)

SaveRetention(w, h) ==
  /\ at[w] = "idle" /\ holds[h] = NoHold
  /\ holds' = [holds EXCEPT ![h] =
       [state |-> "AWAITING_EVIDENCE", released |-> 0, remaining |-> Retained[h]]]
  /\ UNCHANGED <<books, at, job, paid, crossed, broken, calls>>

\* Slip: more than there is may be released.
BeginRelease_Over(w, h, amount) ==
  LET r == holds[h] IN
  /\ r.state \notin {"NONE", "RELEASED"}
  /\ Call(w, [NoJob EXCEPT !.kind = "release", !.hold = h, !.asked = amount,
                           !.due = r], "release")
  /\ UNCHANGED <<books, holds>>

\* A record released in full answers a release without doing anything.
\* Asking for nothing in particular, or for more than there is, asks for all.
BeginRelease(w, h, amount) ==
  LET r == holds[h]
      asked == IF amount >= r.remaining THEN r.remaining ELSE amount
  IN
  /\ r.state \notin {"NONE", "RELEASED"}
  /\ Call(w, [NoJob EXCEPT !.kind = "release", !.hold = h, !.asked = asked,
                           !.due = r], "release")
  /\ UNCHANGED <<books, holds>>

Released(r, asked) ==
  [state |-> IF asked = r.remaining THEN "RELEASED" ELSE "PARTIAL_RELEASE",
   released |-> r.released + asked, remaining |-> r.remaining - asked]

\* Slip: only a release in full is written.
UpdateRetention_Full(w) ==
  LET j == job[w]
      r == Released(j.due, j.asked)
  IN
  /\ at[w] = "release"
  /\ holds' = [holds EXCEPT ![j.hold] = IF r.state = "RELEASED" THEN r ELSE @]
  /\ paid' = [paid EXCEPT ![j.hold] = @ + j.asked]
  /\ crossed' = (crossed \/ holds[j.hold] # j.due)
  /\ Finish(w)
  /\ UNCHANGED <<books, broken, calls>>

\* The answer does not depend on whether the update was written.
UpdateRetention(w) ==
  LET j == job[w] IN
  /\ at[w] = "release"
  /\ \/ /\ holds' = [holds EXCEPT ![j.hold] = Released(j.due, j.asked)]
        /\ crossed' = (crossed \/ holds[j.hold] # j.due)
        /\ UNCHANGED broken
     \/ UNCHANGED <<holds, crossed>> /\ broken' = TRUE
  /\ paid' = [paid EXCEPT ![j.hold] = @ + j.asked]
  /\ Finish(w)
  /\ UNCHANGED <<books, calls>>

\* A process dies, or a store access raises.
Break(w) ==
  /\ at[w] # "idle"
  /\ broken' = TRUE
  /\ Finish(w)
  /\ UNCHANGED <<books, holds, paid, crossed, calls>>

BooksNext == \E w \in Worker :
  \/ \E b \in Base, p \in Postings :
       BeginPost(w, b, p) \/ \E t \in Number : BeginReplace(w, t, b, p)
  \/ \E t \in Number : BeginReverse(w, t)
  \/ \E h \in Hold : SaveRetention(w, h)
                     \/ \E a \in Amounts : BeginRelease(w, h, a)
  \/ CheckPosted(w) \/ Post(w) \/ MarkReversed(w) \/ PostReversal(w)
  \/ Reread(w) \/ LinkReplacement(w) \/ UpdateRetention(w) \/ Break(w)

BooksSpec == BooksInit /\ [][BooksNext]_booksVars

----------------------------------------------------------------------------
EntryStates == {"NONE", "ACTIVE", "REVERSED", "REVERSAL"}

Labels == {"idle", "checkPosted", "post", "mark", "reverse", "reread", "link",
           "release"}

\* Journals and records have their shapes, and what a record has released
\* and still holds is what it was made out for, however releases race.
BooksTypeOK ==
  /\ \A t \in Number : books[t].state \in EntryStates
  /\ at \in [Worker -> Labels]
  /\ \A h \in Hold : holds[h].state # "NONE" =>
       /\ holds[h].released \in Nat /\ holds[h].remaining \in Nat
       /\ holds[h].released + holds[h].remaining = Retained[h]

\* A posted journal keeps its postings for good, through reversals,
\* replacements and posts under its number, unless two posts slip past the
\* check for it together.
PostedKept == [][~crossed' => \A t \in Number : books[t] # NoEntry =>
  books'[t] # NoEntry /\ books'[t].journal = books[t].journal]_booksVars

\* Every reversal found in the ledger cancels the journal it names, and every
\* journal marked as reversed has one or is about to, unless a call ended
\* halfway; a replacement exists where a journal names one.
ReversalNegates == ~crossed => \A t \in Number : books[t] # NoEntry =>
  LET e == books[t] IN
  /\ e.state = "REVERSED" /\ ~broken =>
       \/ books[RevOf(t)] # NoEntry
       \/ \E w \in Worker : at[w] = "reverse" /\ job[w].on = t
  /\ t[2] > 0 => LET o == books[<<t[1], t[2] - 1>>].journal IN
       /\ e.journal.postings = o.postings /\ e.journal.sign = -o.sign
  /\ e.replacement # Nothing =>
       books[e.replacement] # NoEntry /\ e.state = "REVERSED"

\* What releases reported as paid out is what the record says was released,
\* over any number of partial releases and retries, as long as no update is
\* lost to another release or to the store.
ReleasedIsPaid == ~crossed /\ ~broken =>
  \A h \in Hold : paid[h] = holds[h].released
=============================================================================
