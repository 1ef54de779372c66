------------------------------ MODULE TaxProofs ------------------------------
(***************************************************************************)
(* What the rules of StatutoryTax promise of every amount: how much they   *)
(* take, that neither splitting a purchase nor a penalty nor a larger year *)
(* saves tax, and that what one stage computes the next one accepts.       *)
(***************************************************************************)
EXTENDS StatutoryTax, TLAPS

----------------------------------------------------------------------------
(* Rounding and rates.                                                     *)

LEMMA HalfUpMonotone ==
  ASSUME NEW a \in Nat, NEW b \in Nat, a <= b
  PROVE  HalfUp(a) \in Nat /\ HalfUp(a) <= HalfUp(b)
BY DEF HalfUp, Whole

LEMMA HalfUpWhole ==
  ASSUME NEW a \in Nat
  PROVE  HalfUp(a * Whole) = a
BY DEF HalfUp, Whole

LEMMA StandardRates ==
  ASSUME NEW s \in Rated
  PROVE  StandardRate(s) \in 0 .. 100
BY DEF Rated, Section, Lower, Contractor, Professional, Goods, StandardRate

LEMMA PenalRates ==
  ASSUME NEW s \in Section
  PROVE  /\ PenalRate(s) \in {50, 200}
         /\ s \in Rated => StandardRate(s) <= PenalRate(s)
BY DEF Rated, Section, Lower, Contractor, Professional, Goods, StandardRate, PenalRate

LEMMA TaxableBounds ==
  ASSUME NEW c \in TaxCase
  PROVE  Taxable(c) \in 0 .. c.subtotal
<1>1. c.subtotal \in Nat /\ c.ytd \in Nat
  BY DEF TaxCase
<1>2. GoodsLimit \in Nat
  BY DEF GoodsLimit, Rupees
<1>3. CASE Breached(c) /\ c.section = Goods /\ c.ytd < GoodsLimit
  <2>1. c.ytd + c.subtotal > GoodsLimit
    BY <1>3 DEF Breached, Contractor, Professional, Goods, Lower
  <2> QED
    BY <1>1, <1>2, <1>3, <2>1 DEF Taxable
<1>4. CASE ~(Breached(c) /\ c.section = Goods /\ c.ytd < GoodsLimit)
  BY <1>1, <1>4 DEF Taxable
<1> QED
  BY <1>3, <1>4

LEMMA RateIsNat ==
  ASSUME NEW c \in TaxCase, Computed(c)
  PROVE  RateOf(c) \in Nat
<1>1. c.section \in Section /\ c.certificate.rate \in Nat
  BY DEF TaxCase, Certificate
<1>2. LowerRate(c.certificate.rate) \in Nat
  BY <1>1 DEF LowerRate, Whole
<1> QED
  BY <1>1, <1>2, StandardRates, PenalRates DEF RateOf, Computed

LEMMA LowerRates ==
  ASSUME NEW rate \in Nat, rate <= 100 * Whole
  PROVE  LowerRate(rate) \in 0 .. Whole
<1>1. CASE rate > 1000
  BY <1>1 DEF LowerRate, Whole
<1>2. CASE rate <= 1000
  BY <1>2 DEF LowerRate, Whole
<1> QED
  BY <1>1, <1>2

\* Of two invoices, the one with no less to tax at no lower a rate pays no
\* less.
LEMMA MoreIsTaxed ==
  ASSUME NEW c \in TaxCase, NEW d \in TaxCase, Computed(c), Computed(d),
         Taxable(c) <= Taxable(d), Taxable(c) = 0 \/ RateOf(c) <= RateOf(d)
  PROVE  TaxOn(c) \in Nat /\ TaxOn(c) <= TaxOn(d)
<1>1. Taxable(c) \in Nat /\ Taxable(d) \in Nat
  BY TaxableBounds DEF TaxCase
<1>2. RateOf(c) \in Nat /\ RateOf(d) \in Nat
  BY RateIsNat
<1> DEFINE m == Taxable(c)  n == Taxable(d)  p == RateOf(c)  q == RateOf(d)
<1>3. m * p \in Nat /\ n * q \in Nat /\ m * p <= n * q
  <2> HIDE DEF m, n, p, q
  <2>1. m \in Nat /\ n \in Nat /\ p \in Nat /\ q \in Nat /\ m <= n
    BY <1>1, <1>2 DEF m, n, p, q
  <2>2. CASE m = 0
    BY <2>1, <2>2
  <2>3. CASE p <= q
    <3>1. m * p <= m * q
      BY <2>1, <2>3
    <3>2. m * q <= n * q
      BY <2>1
    <3> QED
      BY <2>1, <3>1, <3>2
  <2> QED
    BY <2>2, <2>3 DEF m, p, q
<1> QED
  BY <1>3, HalfUpMonotone DEF TaxOn

----------------------------------------------------------------------------
(* What is taken.                                                          *)

\* The tax is never negative and never more than the part of the invoice that
\* is taxed, whatever the section, the flags and the year, as long as no
\* certificate is written for more than a hundred percent.
THEOREM TaxWithinBase ==
  ASSUME NEW c \in TaxCase, Computed(c), c.certificate.rate <= 100 * Whole
  PROVE  TaxOn(c) \in 0 .. Taxable(c) /\ Taxable(c) <= c.subtotal
<1>1. Taxable(c) \in Nat /\ Taxable(c) <= c.subtotal
  BY TaxableBounds DEF TaxCase
<1>2. RateOf(c) \in 0 .. Whole
  <2>1. c.section \in Section /\ c.certificate.rate \in Nat
    BY DEF TaxCase, Certificate
  <2>2. LowerRate(c.certificate.rate) \in 0 .. Whole
    BY <2>1, LowerRates
  <2>3. /\ c.section \in Rated => StandardRate(c.section) \in 0 .. Whole
        /\ PenalRate(c.section) \in 0 .. Whole
    BY <2>1, StandardRates, PenalRates DEF Whole
  <2> QED
    BY <2>2, <2>3 DEF RateOf, Computed
<1> DEFINE n == Taxable(c)  r == RateOf(c)
<1>3. n * r \in Nat /\ n * Whole \in Nat /\ n * r <= n * Whole
  <2> HIDE DEF n, r
  <2>1. n \in Nat /\ r \in Nat /\ r <= Whole /\ Whole \in Nat
    BY <1>1, <1>2 DEF n, r, Whole
  <2> QED
    BY <2>1
<1>4. HalfUp(n * r) \in Nat /\ HalfUp(n * r) <= n
  BY <1>1, <1>3, HalfUpMonotone, HalfUpWhole
<1> QED
  BY <1>1, <1>4 DEF TaxOn

\* Buying goods on two invoices instead of one changes nothing of what is
\* taxed: the second is judged with the first in the year's billing.
THEOREM SplittingGoodsSavesNothing ==
  ASSUME NEW c \in TaxCase, c.section = Goods,
         NEW first \in Nat, NEW second \in Nat, c.subtotal = first + second
  PROVE  Taxable(c) = Taxable([c EXCEPT !.subtotal = first])
                      + Taxable([c EXCEPT !.subtotal = second,
                                          !.ytd = c.ytd + first])
<1> DEFINE a == [c EXCEPT !.subtotal = first]
           b == [c EXCEPT !.subtotal = second, !.ytd = c.ytd + first]
<1>1. c.ytd \in Nat /\ c.subtotal \in Nat /\ GoodsLimit \in Nat
  BY DEF TaxCase, GoodsLimit, Rupees
<1>2. /\ a.subtotal = first /\ a.ytd = c.ytd /\ a.section = Goods
      /\ b.subtotal = second /\ b.ytd = c.ytd + first /\ b.section = Goods
  BY DEF TaxCase
<1>3. /\ Breached(c) <=> c.ytd + c.subtotal > GoodsLimit
      /\ Breached(a) <=> c.ytd + first > GoodsLimit
      /\ Breached(b) <=> (c.ytd + first) + second > GoodsLimit
  BY <1>2 DEF Breached, Goods, Lower, Contractor, Professional
<1> HIDE DEF a, b
<1> QED
  BY <1>1, <1>2, <1>3 DEF Taxable, a, b

\* A larger year never lowers the tax on the same invoice.
THEOREM LargerYearSavesNothing ==
  ASSUME NEW c \in TaxCase, Computed(c), NEW ytd \in Nat, c.ytd <= ytd
  PROVE  TaxOn(c) <= TaxOn([c EXCEPT !.ytd = ytd])
<1> DEFINE d == [c EXCEPT !.ytd = ytd]
<1>1. d \in TaxCase /\ c.subtotal \in Nat /\ c.ytd \in Nat
  BY DEF TaxCase
<1>2. /\ d.subtotal = c.subtotal /\ d.ytd = ytd /\ d.section = c.section
      /\ RateOf(d) = RateOf(c) /\ Computed(d)
  BY DEF TaxCase, RateOf, Computed, Penal, Certified
<1>3. Breached(c) => Breached(d)
  BY <1>1, <1>2 DEF Breached, SingleLimit, ContractorLimit, GoodsLimit, Rupees
<1>4. Taxable(c) <= Taxable(d)
  <2>1. Taxable(d) \in Nat
    BY <1>1, TaxableBounds DEF TaxCase
  <2>2. CASE ~Breached(c)
    BY <2>1, <2>2 DEF Taxable
  <2>3. CASE Breached(c)
    <3>1. Breached(d) /\ GoodsLimit \in Nat
      BY <1>3, <2>3 DEF GoodsLimit, Rupees
    <3> QED
      BY <1>1, <1>2, <2>3, <3>1 DEF Taxable
  <2> QED
    BY <2>2, <2>3
<1>5. RateOf(c) \in Nat
  BY RateIsNat
<1> QED
  BY <1>1, <1>2, <1>4, <1>5, MoreIsTaxed

\* An invalid PAN or a flag never saves tax against a vendor in order who has
\* no certificate, in any section that has a rate.
THEOREM PenaltySavesNothing ==
  ASSUME NEW c \in TaxCase, c.section \in Rated, Penal(c)
  PROVE  TaxOn([c EXCEPT !.panValid = TRUE, !.inoperative = FALSE,
                         !.nonFiler = FALSE, !.certificate = NoCertificate])
           <= TaxOn(c)
<1> DEFINE d == [c EXCEPT !.panValid = TRUE, !.inoperative = FALSE,
                          !.nonFiler = FALSE, !.certificate = NoCertificate]
<1>1. d \in TaxCase
  BY DEF TaxCase, NoCertificate, Certificate
<1>2. /\ d.subtotal = c.subtotal /\ d.ytd = c.ytd /\ d.section = c.section
      /\ d.panValid /\ ~d.inoperative /\ ~d.nonFiler
      /\ d.certificate = NoCertificate
  BY DEF TaxCase
<1>3. Taxable(d) = Taxable(c) /\ Taxable(d) \in Nat
  BY <1>1, <1>2, TaxableBounds DEF Taxable, Breached, TaxCase
<1>4. RateOf(d) <= RateOf(c)
  BY <1>2, PenalRates DEF RateOf, Penal, Certified, NoCertificate, TaxCase
<1>5. Computed(c) /\ Computed(d)
  BY <1>2 DEF Computed
<1> QED
  BY <1>1, <1>3, <1>4, <1>5, MoreIsTaxed

\* A certificate spares tax when it is written as a fraction not above the
\* standard rate, or as a percentage above one.  (One percent or less, written
\* as a percentage, is read as a fraction.)
THEOREM CertificateSpares ==
  ASSUME NEW c \in TaxCase, c.section \in Rated, ~Penal(c), Certified(c),
         \/ c.certificate.rate <= StandardRate(c.section)
         \/ /\ c.certificate.rate > Whole
            /\ c.certificate.rate <= 100 * StandardRate(c.section)
  PROVE  TaxOn(c) <= TaxOn([c EXCEPT !.certificate = NoCertificate])
<1> DEFINE d == [c EXCEPT !.certificate = NoCertificate]
<1>1. d \in TaxCase /\ c.certificate.rate \in Nat
  BY DEF TaxCase, NoCertificate, Certificate
<1>2. /\ d.subtotal = c.subtotal /\ d.ytd = c.ytd /\ d.section = c.section
      /\ d.certificate = NoCertificate /\ ~Penal(d)
  BY DEF TaxCase, Penal
<1>3. Taxable(d) = Taxable(c) /\ Taxable(d) \in Nat
  BY <1>1, <1>2, TaxableBounds DEF Taxable, Breached, TaxCase
<1>4. RateOf(d) = StandardRate(c.section)
  BY <1>2 DEF RateOf, Certified, NoCertificate
<1>5. LowerRate(c.certificate.rate) <= StandardRate(c.section)
  BY <1>1, StandardRates DEF LowerRate, Whole
<1>6. RateOf(c) <= RateOf(d) /\ Computed(c) /\ Computed(d)
  BY <1>2, <1>4, <1>5 DEF RateOf, Computed
<1> QED
  BY <1>1, <1>3, <1>6, MoreIsTaxed

\* An approval never finds more payable than the pipeline found of the same
\* invoice, whatever section that took its rate from: it may draw less credit,
\* never more.
THEOREM ApprovalPaysNoMore ==
  ASSUME NEW subtotal \in Nat, NEW ytd \in Nat, NEW gst \in Nat,
         NEW section \in Rated
  PROVE  Disbursement(ApprovalCase(subtotal, ytd), gst)
           <= Disbursement(PipelineCase(subtotal, ytd, section), gst)
<1> DEFINE c == PipelineCase(subtotal, ytd, section)
           d == ApprovalCase(subtotal, ytd)
<1>1. c \in TaxCase /\ d \in TaxCase
  BY DEF PipelineCase, ApprovalCase, NoCertificate, TaxCase, Certificate,
         Section, Rated, Professional
<1>2. /\ c.subtotal = subtotal /\ c.ytd = ytd /\ c.section = section
      /\ d.subtotal = subtotal /\ d.ytd = ytd /\ d.section = "194J_PROF"
  BY DEF PipelineCase, ApprovalCase
<1>3. RateOf(c) = StandardRate(section) /\ RateOf(d) = 100
  BY DEF PipelineCase, ApprovalCase, NoCertificate, RateOf, Penal, Certified,
         StandardRate, Goods
<1>4. Computed(c) /\ Computed(d)
  BY <1>2 DEF Computed, Rated, Section, Professional, Lower
<1>5. Breached(c) => Breached(d)
  BY <1>2 DEF Breached, Rated, Lower, Professional, Contractor, SingleLimit, ContractorLimit,
              GoodsLimit, Rupees, Goods
<1>6. Taxable(c) <= Taxable(d)
  <2>1. Taxable(c) \in 0 .. subtotal /\ Taxable(d) \in Nat
    BY <1>1, <1>2, TaxableBounds
  <2>2. Breached(d) => Taxable(d) = subtotal
    BY <1>2 DEF Taxable, Goods
  <2>3. ~Breached(c) => Taxable(c) = 0
    BY DEF Taxable
  <2> QED
    BY <1>5, <2>1, <2>2, <2>3
<1>7. TaxOn(c) \in Nat /\ TaxOn(c) <= TaxOn(d)
  BY <1>1, <1>3, <1>6, <1>4, StandardRates, MoreIsTaxed
<1>8. TaxOn(d) \in Nat
  BY <1>1, <1>4, TaxableBounds, RateIsNat, MoreIsTaxed
<1> QED
  BY <1>2, <1>7, <1>8 DEF Disbursement

----------------------------------------------------------------------------
(* What one stage computes the next one accepts.                           *)

\* The journal of an invoice balances for every tax and every credit netted
\* against what is payable, and is refused for an invoice of nothing only.
THEOREM JournalBalances ==
  ASSUME NEW c \in TaxCase, Computed(c), c.certificate.rate <= 100 * Whole,
         NEW gst \in Nat, NEW credit \in 0 .. Disbursement(c, gst)
  PROVE  JournalAccepted(c, gst, credit) <=> c.subtotal > 0
<1>1. c.subtotal \in Nat
  BY DEF TaxCase
<1>2. TaxOn(c) \in Nat /\ TaxOn(c) <= c.subtotal
  BY <1>1, TaxWithinBase, TaxableBounds
<1>3. JournalDebits(c, gst) = JournalCredits(c, gst, credit)
  BY <1>1, <1>2 DEF JournalDebits, JournalCredits, Disbursement, NotBelowZero
<1> QED
  BY <1>3 DEF JournalAccepted

\* A split is accepted exactly if the credit leaves no more than a paisa short
\* of what may be paid at once: held GST is not there to be netted.
THEOREM SplitRefusesCredit ==
  ASSUME NEW subtotal \in Nat, NEW gst \in Nat, NEW tax \in 0 .. subtotal,
         NEW credit \in Nat, NEW matched \in BOOLEAN, NEW retains \in BOOLEAN
  PROVE  LET split == SplitOf(subtotal, gst, tax, credit, matched, retains) IN
         SplitAccepted(subtotal, gst, tax, credit, split)
           <=> tax + credit + split.hold <= subtotal + gst + 1
BY DEF SplitOf, SplitAccepted, NotBelowZero, Within

\* An upload whose split is accepted does not fail at its voucher, after the
\* vendor's totals were raised and before the decision is recorded.
THEOREM VoucherFollowsSplit ==
  ASSUME NEW subtotal \in Nat, NEW gst \in Nat, NEW tax \in 0 .. subtotal,
         NEW credit \in Nat, NEW matched \in BOOLEAN, NEW retains \in BOOLEAN,
         SplitAccepted(subtotal, gst, tax, credit,
           SplitOf(subtotal, gst, tax, credit, matched, retains))
  PROVE  LET v == VoucherOf(subtotal, gst, tax, credit,
                    SplitOf(subtotal, gst, tax, credit, matched, retains)) IN
         VoucherAccepted(v) /\ BalancedWithRounding(v)
BY SMTT(40) DEF SplitOf, SplitAccepted, VoucherOf, VoucherAccepted, BalancedWithRounding,
       Difference, VoucherDebits, VoucherCredits, NotBelowZero, Within
=============================================================================
