---------------------------- MODULE StatutoryTax ----------------------------
(***************************************************************************)
(* The arithmetic of a payment: the tax withheld (tax_engine.py), the      *)
(* split of an invoice into what is paid and what is held (tax_gstr2b.py), *)
(* the journal of the pipeline (ledger.py) and the voucher of an upload    *)
(* (erp_exporter.py).                                                      *)
(*                                                                         *)
(* Amounts are whole paise, as the callers' quantized decimals are; rates  *)
(* are thousandths, and certificates are in tenths of a percent.           *)
(***************************************************************************)
EXTENDS Integers

Rupees(n) == n * 100
Whole == 1000

NotBelowZero(n) == IF n > 0 THEN n ELSE 0

Within(n, tolerance) == -tolerance <= n /\ n <= tolerance

----------------------------------------------------------------------------
(* Tax withheld from one invoice.                                          *)

Contractor == {"194C_IND", "194C_CORP"}
Professional == {"194J_TECH", "194J_PROF"}
Goods == "194Q"
Lower == "197_LOWER"
Section == Contractor \cup Professional \cup {Goods, Lower, "NONE"}

\* Sections with a rate of their own.
Rated == Section \ {Lower}

StandardRate(section) ==
  CASE section = "194C_IND"  -> 10
    [] section = "194C_CORP" -> 20
    [] section = "194J_TECH" -> 20
    [] section = "194J_PROF" -> 100
    [] section = Goods       -> 1
    [] section = "NONE"      -> 0

SingleLimit == Rupees(30000)
ContractorLimit == Rupees(100000)
GoodsLimit == Rupees(5000000)

\* A certificate as the vendor's record has it: whether the invoice's date is
\* in its window, the section it is for, and the rate as it is written there.
Certificate ==
  [active : BOOLEAN, inWindow : BOOLEAN, section : Section \cup {"ALL"},
   rate : Nat]

\* An invoice before tax: what was billed before in the year, the nominated
\* section, the vendor's flags, and its date as against 1 April 2025.
TaxCase ==
  [subtotal : Nat, ytd : Nat, section : Section,
   panValid : BOOLEAN, inoperative : BOOLEAN, nonFiler : BOOLEAN,
   dated : {"none", "before", "after"}, certificate : Certificate]

Breached(c) ==
  \/ /\ c.section \in Contractor
     /\ c.subtotal >= SingleLimit \/ c.ytd + c.subtotal >= ContractorLimit
  \/ /\ c.section \in Professional
     /\ c.subtotal >= SingleLimit \/ c.ytd + c.subtotal >= SingleLimit
  \/ c.section = Goods /\ c.ytd + c.subtotal > GoodsLimit
  \/ c.section = Lower

\* Of goods only the part over the limit is taxed.
Taxable(c) ==
  IF ~Breached(c) THEN 0
  ELSE IF c.section = Goods /\ c.ytd < GoodsLimit
       THEN c.ytd + c.subtotal - GoodsLimit
       ELSE c.subtotal

\* 206AA, and 206AB until its omission; an undated invoice is before that.
Penal(c) == ~c.panValid \/ c.inoperative \/ (c.nonFiler /\ c.dated # "after")

PenalRate(section) == IF section = Goods THEN 50 ELSE 200

Certified(c) ==
  /\ c.certificate.active
  /\ c.dated = "none" \/ c.certificate.inWindow
  /\ c.certificate.section \in {"ALL", c.section}

\* More than one is a percentage.
LowerRate(rate) == IF rate > Whole THEN rate \div 100 ELSE rate

\* A nominated 197_LOWER without a penalty or a certificate raises: TDS_RATES
\* lacks it.
Computed(c) == c.section \in Rated \/ Penal(c) \/ Certified(c)

RateOf(c) ==
  IF Penal(c) THEN PenalRate(c.section)
  ELSE IF Certified(c) THEN LowerRate(c.certificate.rate)
  ELSE StandardRate(c.section)

\* ROUND_HALF_UP to the paisa.
HalfUp(thousandths) == (thousandths + Whole \div 2) \div Whole

TaxOn(c) == HalfUp(Taxable(c) * RateOf(c))

Disbursement(c, gst) == c.subtotal - TaxOn(c) + gst

NoCertificate ==
  [active |-> FALSE, inWindow |-> FALSE, section |-> "ALL", rate |-> 0]

\* What the pipeline asks for: a valid PAN, no flags, the invoice's date.
PipelineCase(subtotal, ytd, section) ==
  [subtotal |-> subtotal, ytd |-> ytd, section |-> section,
   panValid |-> TRUE, inoperative |-> FALSE, nonFiler |-> FALSE,
   dated |-> "after", certificate |-> NoCertificate]

\* What an approval asks for, of the same bundle: always 194J, undated.
ApprovalCase(subtotal, ytd) ==
  [PipelineCase(subtotal, ytd, "194J_PROF") EXCEPT !.dated = "none"]

----------------------------------------------------------------------------
(* calculate_split_settlement: GST is held until the supplier has filed,   *)
(* where the contract and the policy let it.                               *)

SplitOf(subtotal, gst, tax, credit, matched, retains) ==
  LET hold == IF ~matched /\ retains THEN NotBelowZero(gst) ELSE 0 IN
  [hold |-> hold, pay |-> NotBelowZero(subtotal + gst - hold - tax - credit)]

\* FinancialPosition raises if the parts miss the invoice by over a paisa.
SplitAccepted(subtotal, gst, tax, credit, split) ==
  Within(split.pay + tax + credit + split.hold - (subtotal + gst), 1)

----------------------------------------------------------------------------
(* generate_accounting_records, as the pipeline and the approval call it:  *)
(* amounts not above zero get no posting.                                  *)

JournalDebits(c, gst) == c.subtotal + NotBelowZero(gst)

JournalCredits(c, gst, credit) ==
  NotBelowZero(Disbursement(c, gst) - credit) + NotBelowZero(credit)
    + NotBelowZero(TaxOn(c))

\* The expense is posted whatever it is, and a posting of zero raises.
JournalAccepted(c, gst, credit) ==
  c.subtotal > 0 /\ JournalDebits(c, gst) = JournalCredits(c, gst, credit)

----------------------------------------------------------------------------
(* generate_voucher, of the split of an upload.                            *)

VoucherDebits(v) == v.subtotal + v.gst

VoucherCredits(v) ==
  v.tax + v.pay + NotBelowZero(v.hold) + NotBelowZero(v.credit)

Difference(v) == VoucherDebits(v) - VoucherCredits(v)

\* Account 9990 takes the difference, on the side that lacks it.
BalancedWithRounding(v) ==
  VoucherDebits(v) + NotBelowZero(-Difference(v))
    = VoucherCredits(v) + NotBelowZero(Difference(v))

\* None of the four errors is raised.
VoucherAccepted(v) ==
  /\ v.subtotal > 0 => v.tax <= v.subtotal
  /\ v.gst > 0 => v.hold <= v.gst
  /\ Within(v.subtotal + v.gst - (v.pay + v.tax + v.hold + v.credit), 2)
  /\ Within(Difference(v), 2)

VoucherOf(subtotal, gst, tax, credit, split) ==
  [subtotal |-> subtotal, gst |-> gst, tax |-> tax, credit |-> credit,
   pay |-> split.pay, hold |-> split.hold]
=============================================================================
