--------------------------- MODULE FinanceProofs ---------------------------
(* Proofs about Finance, for every number of desks, tickets and rows. *)
EXTENDS Finance, SequenceTheorems, TLAPS

---------------------------------------------------------------------------
(* Amounts *)

LEMMA ApplyRateBounds ==
  ASSUME NEW a \in Nat, NEW bp \in Nat, bp <= RATE_BP_MAX
  PROVE  ApplyRate(a, bp) \in Nat /\ ApplyRate(a, bp) <= a
<1> DEFINE p == a * bp
<1>1. p \in Nat /\ p <= a * 10000
  BY SMT DEF RATE_BP_MAX
<1>2. ApplyRate(a, bp) = (p + 5000) \div 10000
  BY DEF ApplyRate, RATE_BP_MAX
<1> HIDE DEF p
<1>3. (p + 5000) \div 10000 \in Nat /\ (p + 5000) \div 10000 <= a
  BY <1>1, SMT
<1> QED BY <1>2, <1>3

LEMMA ComputeInvoiceNat ==
  ASSUME NEW s \in Nat, NEW d \in Nat, d <= RATE_BP_MAX, NEW x \in Nat, x <= RATE_BP_MAX
  PROVE  ComputeInvoice(s, d, x) \in Nat
<1> DEFINE taxable == s - ApplyRate(s, d)
<1>1. taxable \in Nat
  <2>1. ApplyRate(s, d) \in Nat /\ ApplyRate(s, d) <= s
    BY ApplyRateBounds
  <2> QED BY <2>1
<1>2. ApplyRate(taxable, x) \in Nat
  <2> HIDE DEF taxable
  <2> QED BY <1>1, ApplyRateBounds
<1> QED BY <1>1, <1>2 DEF ComputeInvoice

\* A share times the number of shares never exceeds what is shared.
LEMMA ShareFits ==
  ASSUME NEW t \in Nat, NEW n \in 1 .. 24
  PROVE  t \div n \in Nat /\ (t \div n) * (n - 1) <= t
<1>1. t \div n \in Nat
  BY SMT
<1>2. (t \div n) * n <= t
  BY SMT
<1>3. (t \div n) * (n - 1) <= (t \div n) * n
  BY <1>1, SMT
<1> QED BY <1>1, <1>2, <1>3, SMT

\* Every installment is an amount of whole rupiah.
LEMMA InstallmentsNat ==
  ASSUME NEW left \in Nat, NEW bp \in Nat, bp <= RATE_BP_MAX, NEW n \in 1 .. 24, NEW no \in 1 .. n
  PROVE  Installments(left, bp, n)[no] \in Nat
<1> DEFINE total == left + ApplyRate(left, bp)
           share == total \div n
<1>1. total \in Nat
  <2>1. ApplyRate(left, bp) \in Nat
    BY ApplyRateBounds
  <2> QED BY <2>1
<1>2. share \in Nat /\ share * (n - 1) <= total
  <2> HIDE DEF total
  <2> QED BY <1>1, ShareFits
<1>3. total - share * (n - 1) \in Nat
  <2>1. share * (n - 1) \in Nat
    <3> HIDE DEF share
    <3> QED BY <1>2, SMT
  <2> HIDE DEF share, total
  <2> QED BY <1>1, <1>2, <2>1, SMT
<1> QED BY <1>2, <1>3 DEF Installments

---------------------------------------------------------------------------
(* Types *)

\* The rows a form points at; rows are only ever added.
Refers(o) == /\ o.op \in {"allocate", "reschedule"} =>
                  o.fund \in DOMAIN fund /\ o.invoice \in DOMAIN invoice
             /\ o.op = "deposit" => o.fund \in DOMAIN fund

PassedRefers == \A d \in passed : form[d] # None /\ Refers(form[d])

TypeInv == TypeOK /\ PassedRefers

LEMMA GuardRefers ==
  ASSUME NEW o \in Form, FinanceGuard(o) \/ Accepted(o)
  PROVE  Refers(o)
BY DEF Refers, FinanceGuard, Accepted, AllocationAccepted, PartialPaymentAccepted, DepositAccepted

LEMMA RateMax == RATE_BP_MAX \in Nat
BY DEF RATE_BP_MAX

LEMMA RowTypes ==
  ASSUME TypeOK
  PROVE  /\ Len(invoice) \in Nat /\ DOMAIN invoice = 1 .. Len(invoice)
         /\ Len(fund) \in Nat /\ DOMAIN fund = 1 .. Len(fund)
         /\ \A i \in DOMAIN invoice : invoice[i] \in InvoiceRow
         /\ \A f \in DOMAIN fund : fund[f] \in FundRow
BY LenProperties, ElementOfSeq DEF TypeOK

LEMMA PutInvoice ==
  ASSUME TypeOK, NEW i \in DOMAIN invoice, NEW r \in InvoiceRow
  PROVE  /\ [invoice EXCEPT ![i] = r] \in Seq(InvoiceRow)
         /\ DOMAIN [invoice EXCEPT ![i] = r] = DOMAIN invoice
BY RowTypes, ExceptSeq DEF TypeOK

LEMMA PutFund ==
  ASSUME TypeOK, NEW f \in DOMAIN fund, NEW r \in FundRow
  PROVE  /\ [fund EXCEPT ![f] = r] \in Seq(FundRow)
         /\ DOMAIN [fund EXCEPT ![f] = r] = DOMAIN fund
BY RowTypes, ExceptSeq DEF TypeOK

LEMMA TotalNowNat ==
  ASSUME TypeOK, NEW s \in Nat, NEW r \in BOOLEAN
  PROVE  TotalNow(s, r) \in Nat
<1>1. \A k \in OptionKinds : option[k].rate_bp \in Nat /\ option[k].rate_bp <= RATE_BP_MAX
  BY RateMax DEF TypeOK, OptionRow
<1>2. ComputeInvoice(s, option["DISCOUNT"].rate_bp, option["TAX"].rate_bp) \in Nat
  BY <1>1, ComputeInvoiceNat DEF OptionKinds
<1> QED BY <1>2 DEF TotalNow

LEMMA RevisionNat ==
  ASSUME TypeOK, NEW type, NEW t \in Ticket \cup {None}
  PROVE  InvoiceRevisionIndex(type, t) \in Nat
BY DEF TypeOK, Facts, InvoiceRevisionIndex

LEMMA RecomputedForm ==
  ASSUME TypeOK, NEW o \in Form, Accepted(Recomputed(o))
  PROVE  Recomputed(o) \in Form /\ Recomputed(o).op = o.op
<1>1. CASE o.op = "create"
  <2>1. o \in InvoiceForm
    BY <1>1 DEF Form, InvoiceForm, PaymentForm, PartialForm, FundForm, DepositForm, StopForm
  <2>2. TotalNow(o.subtotal, o.rated) \in Nat /\ InvoiceRevisionIndex(o.ref_type, o.ticket) \in Nat
    BY <2>1, TotalNowNat, RevisionNat DEF InvoiceForm
  <2>3. o.ticket # None => ClientOf[o.ticket] \in Client
    BY <2>1, FinanceAssumption DEF InvoiceForm
  <2>4. Recomputed(o) =
         [o EXCEPT !.client = IF o.ticket = None THEN @ ELSE ClientOf[o.ticket],
                   !.revision = InvoiceRevisionIndex(o.ref_type, o.ticket),
                   !.total = TotalNow(o.subtotal, o.rated)]
    BY <1>1 DEF Recomputed
  <2>5. Recomputed(o) \in InvoiceForm
    BY <2>1, <2>2, <2>3, <2>4 DEF InvoiceForm
  <2> QED BY <2>1, <2>5 DEF Form, InvoiceForm
<1>2. CASE o.op = "reschedule"
  <2>1. o \in PartialForm
    BY <1>2 DEF Form, InvoiceForm, PaymentForm, PartialForm, FundForm, DepositForm, StopForm
  <2>2. Recomputed(o) = [o EXCEPT !.plan = option["INSTALLMENT_PLAN"],
                                  !.left = Remaining(o.invoice) - o.amount]
    BY <1>2 DEF Recomputed
  <2>3. /\ Recomputed(o).invoice = o.invoice /\ Recomputed(o).amount = o.amount
        /\ Recomputed(o).op = "reschedule"
    BY <2>1, <2>2 DEF PartialForm
  <2>4. o.invoice \in DOMAIN invoice /\ o.amount < Remaining(o.invoice)
    BY <2>3 DEF Accepted, PartialPaymentAccepted
  <2>5. Remaining(o.invoice) - o.amount \in Nat
    BY <2>1, <2>4, RowTypes DEF InvoiceRow, Remaining, PartialForm
  <2>6. option["INSTALLMENT_PLAN"] \in OptionRow
    BY DEF TypeOK, OptionKinds
  <2>7. Recomputed(o) \in PartialForm
    BY <2>1, <2>2, <2>5, <2>6 DEF PartialForm
  <2> QED BY <2>1, <2>7 DEF Form, PartialForm
<1>3. CASE o.op = "deposit"
  <2>1. o \in DepositForm
    BY <1>3 DEF Form, InvoiceForm, PaymentForm, PartialForm, FundForm, DepositForm, StopForm
  <2>2. Recomputed(o) = [o EXCEPT !.client = IF fund[o.fund].client = None THEN @
                                             ELSE fund[o.fund].client]
    BY <1>3 DEF Recomputed
  <2>3. Recomputed(o).fund = o.fund /\ Recomputed(o).op = "deposit"
    BY <2>1, <2>2 DEF DepositForm
  <2>4. o.fund \in DOMAIN fund
    BY <2>3 DEF Accepted, DepositAccepted
  <2>5. fund[o.fund].client \in Client \cup {None}
    BY <2>4, RowTypes DEF FundRow
  <2>6. Recomputed(o) \in DepositForm
    BY <2>1, <2>2, <2>5 DEF DepositForm
  <2> QED BY <2>1, <2>6 DEF Form, DepositForm
<1>4. CASE o.op \notin {"create", "reschedule", "deposit"}
  BY <1>4 DEF Recomputed
<1> QED BY <1>1, <1>2, <1>3, <1>4

\* Rows with the fields the statements change.
LEMMA PaidRow ==
  ASSUME NEW r \in InvoiceRow, NEW a \in Nat
  PROVE  [r EXCEPT !.paid = @ + a] \in InvoiceRow
<1>1. r.paid + a \in Nat
  BY DEF InvoiceRow
<1> QED BY <1>1 DEF InvoiceRow

LEMMA UsedRow ==
  ASSUME NEW r \in FundRow, NEW a \in Nat
  PROVE  [r EXCEPT !.used = @ + a] \in FundRow
<1>1. r.used + a \in Nat
  BY DEF FundRow
<1> QED BY <1>1 DEF FundRow

LEMMA RescheduledRow ==
  ASSUME NEW r \in InvoiceRow, NEW a \in Nat
  PROVE  [r EXCEPT !.paid = @ + a, !.status = IF @ = "OPEN" THEN "RESCHEDULED" ELSE @]
           \in InvoiceRow
<1>1. r.paid + a \in Nat
  BY DEF InvoiceRow
<1> QED BY <1>1 DEF InvoiceRow

LEMMA InstallmentRow ==
  ASSUME NEW r \in InvoiceRow, NEW t \in Nat, NEW p \in Nat
  PROVE  [r EXCEPT !.ref_type = "INSTALLMENT", !.total = t, !.paid = 0, !.status = "OPEN",
                   !.parent = p] \in InvoiceRow
BY DEF InvoiceRow

\* What a written form leaves in the tables.
LEMMA WriteTypes ==
  ASSUME TypeOK, NEW o \in Form, Refers(o), Write(o)
  PROVE  /\ invoice' \in Seq(InvoiceRow) /\ fund' \in Seq(FundRow)
         /\ DOMAIN invoice \subseteq DOMAIN invoice' /\ DOMAIN fund \subseteq DOMAIN fund'
<1>0. invoice \in Seq(InvoiceRow) /\ fund \in Seq(FundRow)
  BY DEF TypeOK
<1>1. CASE o.op = "create" /\ InsertInvoice(o)
  <2>1. o \in InvoiceForm
    BY <1>1 DEF Form, InvoiceForm, PaymentForm, PartialForm, FundForm, DepositForm, StopForm
  <2>2. [ref_type |-> o.ref_type, ticket |-> o.ticket, client |-> o.client,
         revision |-> o.revision, total |-> o.total, paid |-> 0, status |-> "OPEN",
         parent |-> 0] \in InvoiceRow
    BY <2>1 DEF InvoiceForm, InvoiceRow
  <2> QED BY <1>0, <1>1, <2>2 DEF InsertInvoice
<1>2. CASE CancelRecord(o)
  <2>1. CASE invoice' = invoice /\ fund' = fund
    BY <1>0, <2>1
  <2>2. CASE /\ Cancellable(o.row) /\ fund' = fund
             /\ invoice' = [invoice EXCEPT ![o.row].status = "CANCELLED"]
    <3>1. o.row \in DOMAIN invoice /\ invoice[o.row] \in InvoiceRow
      BY <2>2, RowTypes DEF Cancellable
    <3>2. [invoice[o.row] EXCEPT !.status = "CANCELLED"] \in InvoiceRow
      BY <3>1 DEF InvoiceRow
    <3>3. invoice' = [invoice EXCEPT ![o.row] = [invoice[o.row] EXCEPT !.status = "CANCELLED"]]
      BY <2>2, <3>1
    <3> QED BY <1>0, <2>2, <3>1, <3>2, <3>3, PutInvoice
  <2>3. CASE /\ Voidable(o.row) /\ invoice' = invoice
             /\ fund' = [fund EXCEPT ![o.row].status = "VOID"]
    <3>1. o.row \in DOMAIN fund /\ fund[o.row] \in FundRow
      BY <2>3, RowTypes DEF Voidable
    <3>2. [fund[o.row] EXCEPT !.status = "VOID"] \in FundRow
      BY <3>1 DEF FundRow
    <3>3. fund' = [fund EXCEPT ![o.row] = [fund[o.row] EXCEPT !.status = "VOID"]]
      BY <2>3, <3>1
    <3> QED BY <1>0, <2>3, <3>1, <3>2, <3>3, PutFund
  <2> QED BY <1>2, <2>1, <2>2, <2>3 DEF CancelRecord
<1>3. CASE o.op = "record" /\ RecordIncomingFund(o)
  <2>1. o \in FundForm
    BY <1>3 DEF Form, InvoiceForm, PaymentForm, PartialForm, FundForm, DepositForm, StopForm
  <2>2. [client |-> o.client, amount |-> o.amount, used |-> 0, status |-> "ACTIVE",
         deposit |-> FALSE] \in FundRow
    BY <2>1 DEF FundForm, FundRow
  <2> QED BY <1>0, <1>3, <2>2 DEF RecordIncomingFund
<1>4. CASE o.op = "allocate" /\ AllocateFund(o)
  <2>1. o \in PaymentForm
    BY <1>4 DEF Form, InvoiceForm, PaymentForm, PartialForm, FundForm, DepositForm, StopForm
  <2>2. o.fund \in DOMAIN fund /\ o.invoice \in DOMAIN invoice /\ o.amount \in Nat
    BY <1>4, <2>1 DEF Refers, PaymentForm
  <2>3. [invoice[o.invoice] EXCEPT !.paid = @ + o.amount] \in InvoiceRow
    BY <2>2, RowTypes, PaidRow
  <2>4. [fund[o.fund] EXCEPT !.used = @ + o.amount] \in FundRow
    BY <2>2, RowTypes, UsedRow
  <2> QED BY <1>0, <1>4, <2>2, <2>3, <2>4, PutInvoice, PutFund DEF AllocateFund
<1>5. CASE o.op = "reschedule" /\ AcceptPartialPayment(o)
  <2>1. o \in PartialForm
    BY <1>5 DEF Form, InvoiceForm, PaymentForm, PartialForm, FundForm, DepositForm, StopForm
  <2>2. /\ o.fund \in DOMAIN fund /\ o.invoice \in DOMAIN invoice
        /\ o.amount \in Nat /\ o.left \in Nat
        /\ o.plan.rate_bp \in Nat /\ o.plan.rate_bp <= RATE_BP_MAX
        /\ o.plan.installment_count \in 1 .. 24
    BY <1>5, <2>1, RateMax DEF Refers, PartialForm, OptionRow
  <2> DEFINE part == Installments(o.left, o.plan.rate_bp, o.plan.installment_count)
  <2>3. \A no \in 1 .. o.plan.installment_count : part[no] \in Nat
    BY <2>2, InstallmentsNat
  <2> HIDE DEF part
  <2> DEFINE old == Len(invoice)
             parent == invoice[o.invoice]
             Installment(no) == [parent EXCEPT !.ref_type = "INSTALLMENT", !.total = part[no],
                                   !.paid = 0, !.status = "OPEN", !.parent = o.invoice]
             paid == [parent EXCEPT !.paid = @ + o.amount,
                                    !.status = IF @ = "OPEN" THEN "RESCHEDULED" ELSE @]
             n == o.plan.installment_count
  <2>4. old \in Nat /\ parent \in InvoiceRow /\ DOMAIN invoice = 1 .. old /\ o.invoice \in Nat
    BY <2>2, RowTypes
  <2>5. n \in 1 .. 24
    BY <2>2
  <2>6. invoice' = [i \in 1 .. old + n |->
             IF i > old THEN Installment(i - old) ELSE IF i = o.invoice THEN paid ELSE invoice[i]]
    BY <1>5 DEF AcceptPartialPayment, part
  <2>7. \A no \in 1 .. n : Installment(no) \in InvoiceRow
    <3> HIDE DEF parent, n, old
    <3> QED BY <2>3, <2>4, InstallmentRow DEF n
  <2>8. paid \in InvoiceRow
    <3> HIDE DEF parent
    <3> QED BY <2>2, <2>4, RescheduledRow
  <2> HIDE DEF Installment, paid, parent, old, n
  <2>9. ASSUME NEW i \in 1 .. old + n
        PROVE  (IF i > old THEN Installment(i - old) ELSE IF i = o.invoice THEN paid
                ELSE invoice[i]) \in InvoiceRow
    <3>1. CASE i > old
      <4>1. i - old \in 1 .. n
        BY <2>4, <2>5, <3>1
      <4> QED BY <2>7, <3>1, <4>1
    <3>2. CASE ~(i > old)
      <4>1. i \in DOMAIN invoice
        BY <2>4, <2>5, <3>2
      <4>2. invoice[i] \in InvoiceRow
        BY <4>1, RowTypes
      <4> QED BY <2>8, <3>2, <4>2
    <3> QED BY <3>1, <3>2
  <2>10. old + n \in Nat /\ old <= old + n
    BY <2>4, <2>5
  <2>11. invoice' \in [1 .. old + n -> InvoiceRow]
    BY <2>6, <2>9, Zenon
  <2>12. invoice' \in Seq(InvoiceRow) /\ DOMAIN invoice \subseteq DOMAIN invoice'
    <3>1. invoice' \in Seq(InvoiceRow)
      BY <2>10, <2>11, SeqDef
    <3>2. DOMAIN invoice' = 1 .. old + n
      BY <2>11
    <3> QED BY <2>4, <2>5, <3>1, <3>2
  <2>13. [fund[o.fund] EXCEPT !.used = @ + o.amount] \in FundRow
    BY <2>2, RowTypes, UsedRow
  <2> QED BY <1>5, <2>2, <2>12, <2>13, PutFund DEF AcceptPartialPayment
<1>6. CASE o.op = "deposit" /\ ConfirmDeposit(o)
  <2>1. o \in DepositForm
    BY <1>6 DEF Form, InvoiceForm, PaymentForm, PartialForm, FundForm, DepositForm, StopForm
  <2>2. o.fund \in DOMAIN fund /\ o.client \in Client
    BY <1>6, <2>1 DEF Refers, DepositForm
  <2>3. [fund[o.fund] EXCEPT !.client = o.client, !.deposit = TRUE] \in FundRow
    BY <2>2, RowTypes DEF FundRow
  <2> QED BY <1>0, <1>6, <2>2, <2>3, PutFund DEF ConfirmDeposit
<1> QED BY <1>1, <1>2, <1>3, <1>4, <1>5, <1>6 DEF Write

\* A form filled in from the tables is a form.
LEMMA FilledForm ==
  ASSUME TypeOK,
         NEW o \in InvoiceForms \cup PaymentForms \cup PartialForms \cup FundForms
                     \cup DepositForms \cup StopForms,
         Accepted(o)
  PROVE  o \in Form
<1>1. CASE o \in InvoiceForms
  <2>1. PICK type \in Billed, t \in Ticket \cup {None}, c \in Client, s \in Subtotals, r \in Rated :
          o = [op |-> "create", ref_type |-> type, ticket |-> t, client |-> c,
               revision |-> InvoiceRevisionIndex(type, t), subtotal |-> s, rated |-> r,
               total |-> TotalNow(s, r)]
    BY <1>1 DEF InvoiceForms
  <2>2. s \in Nat /\ r \in BOOLEAN /\ type \in InvoiceTypes
    BY FinanceAssumption
  <2>3. TotalNow(s, r) \in Nat /\ InvoiceRevisionIndex(type, t) \in Nat
    BY <2>2, TotalNowNat, RevisionNat
  <2>4. o \in InvoiceForm
    BY <2>1, <2>2, <2>3 DEF InvoiceForm
  <2> QED BY <2>4 DEF Form
<1>2. CASE o \in PaymentForms
  <2>1. PICK f \in DOMAIN fund, i \in DOMAIN invoice :
          o = [op |-> "allocate", fund |-> f, invoice |-> i, amount |-> Remaining(i)]
    BY <1>2 DEF PaymentForms
  <2>2. f \in Nat /\ i \in Nat
    BY RowTypes
  <2>3. Remaining(i) >= 1
    BY <2>1 DEF Accepted, AllocationAccepted
  <2>4. Remaining(i) \in Int
    BY RowTypes DEF Remaining, InvoiceRow
  <2>5. o \in PaymentForm
    BY <2>1, <2>2, <2>3, <2>4 DEF PaymentForm
  <2> QED BY <2>5 DEF Form
<1>3. CASE o \in PartialForms
  <2>1. PICK f \in DOMAIN fund, i \in DOMAIN invoice, a \in Parts :
          o = [op |-> "reschedule", fund |-> f, invoice |-> i, amount |-> a,
               plan |-> option["INSTALLMENT_PLAN"], left |-> Remaining(i) - a]
    BY <1>3 DEF PartialForms
  <2>2. f \in Nat /\ i \in Nat /\ a \in Nat
    BY RowTypes, FinanceAssumption
  <2>3. a < Remaining(i)
    BY <2>1 DEF Accepted, PartialPaymentAccepted
  <2>4. Remaining(i) \in Int
    BY RowTypes DEF Remaining, InvoiceRow
  <2>5. Remaining(i) - a \in Nat
    BY <2>2, <2>3, <2>4
  <2>6. option["INSTALLMENT_PLAN"] \in OptionRow
    BY DEF TypeOK, OptionKinds
  <2>7. o \in PartialForm
    BY <2>1, <2>2, <2>5, <2>6 DEF PartialForm
  <2> QED BY <2>7 DEF Form
<1>4. CASE o \in FundForms
  BY <1>4, FinanceAssumption DEF FundForms, FundForm, Form
<1>5. CASE o \in DepositForms
  BY <1>5, RowTypes DEF DepositForms, DepositForm, Form
<1>6. CASE o \in StopForms
  BY <1>6, RowTypes DEF StopForms, StopForm, Form
<1> QED BY <1>1, <1>2, <1>3, <1>4, <1>5, <1>6

LEMMA DomainsKept ==
  ASSUME UNCHANGED tables
  PROVE  DOMAIN invoice \subseteq DOMAIN invoice' /\ DOMAIN fund \subseteq DOMAIN fund'
BY DEF tables

\* An event that has passed keeps pointing at rows that exist.
LEMMA PassedKept ==
  ASSUME PassedRefers, DOMAIN invoice \subseteq DOMAIN invoice', DOMAIN fund \subseteq DOMAIN fund',
         passed' \subseteq passed, \A d \in passed' : form'[d] = form[d]
  PROVE  PassedRefers'
BY DEF PassedRefers, Refers

LEMMA TypeInit == Init => TypeInv
<1> SUFFICES ASSUME Init PROVE TypeInv
  OBVIOUS
<1>1. facts \in [Ticket -> Facts] /\ option \in [OptionKinds -> OptionRow]
  BY FinanceAssumption DEF Init
<1>2. invoice \in Seq(InvoiceRow) /\ fund \in Seq(FundRow)
  BY DEF Init
<1>3. passed \subseteq Device /\ raced \in BOOLEAN /\ lost \in 0 .. MaxLost
  <2>1. MaxLost \in Nat
    BY FinanceAssumption
  <2>2. passed = {} /\ raced = FALSE
    BY DEF Init
  <2>3. passed \subseteq Device /\ raced \in BOOLEAN
    BY <2>2, Zenon
  <2>4. lost \in 0 .. MaxLost
    BY <2>1 DEF Init
  <2> QED BY <2>3, <2>4
<1>4. form \in [Desk -> Form \cup {None}]
  BY DEF Init
<1>5. PassedRefers
  BY DEF Init, PassedRefers
<1> QED BY <1>1, <1>2, <1>3, <1>4, <1>5 DEF TypeInv, TypeOK

LEMMA TypeStep == TypeInv /\ [Next]_vars => TypeInv'
<1> SUFFICES ASSUME TypeInv, [Next]_vars PROVE TypeInv'
  OBVIOUS
<1>0. TypeOK /\ PassedRefers
  BY DEF TypeInv
<1>f. facts \in [Ticket -> Facts] /\ option \in [OptionKinds -> OptionRow]
  BY <1>0 DEF TypeOK
<1>t. invoice \in Seq(InvoiceRow) /\ fund \in Seq(FundRow)
  BY <1>0 DEF TypeOK
<1>p. passed \subseteq Device /\ raced \in BOOLEAN /\ lost \in 0 .. MaxLost
  BY <1>0 DEF TypeOK
<1>d. form \in [Desk -> Form \cup {None}] /\ Device \subseteq Desk /\ WebDesk \subseteq Desk
  BY <1>0 DEF TypeOK, Desk
<1>1. ASSUME NEW d \in Desk, Fill(d) PROVE TypeInv'
  <2>1. PICK o \in InvoiceForms \cup PaymentForms \cup PartialForms \cup FundForms
                \cup DepositForms \cup StopForms :
          Accepted(o) /\ form' = [form EXCEPT ![d] = o]
    BY <1>1 DEF Fill
  <2>2. form' \in [Desk -> Form \cup {None}]
    BY <1>0, <1>d, <2>1, FilledForm
  <2>3. PassedRefers'
    <3>1. d \notin passed
      BY <1>0, <1>1 DEF PassedRefers, Fill
    <3> QED BY <1>0, <1>1, <1>d, <1>p, <2>1, <3>1, DomainsKept, PassedKept DEF Fill
  <2> QED BY <1>1, <1>f, <1>t, <1>p, <2>2, <2>3 DEF TypeInv, TypeOK, Fill, tables
<1>2. ASSUME NEW w \in WebDesk, Close(w) PROVE TypeInv'
  <2>1. form' \in [Desk -> Form \cup {None}]
    BY <1>2, <1>d DEF Close
  <2>2. PassedRefers'
    <3>1. w \notin passed
      BY <1>p, FinanceAssumption
    <3> QED BY <1>0, <1>2, <1>d, <1>p, <3>1, DomainsKept, PassedKept DEF Close
  <2> QED BY <1>2, <1>f, <1>t, <1>p, <2>1, <2>2 DEF TypeInv, TypeOK, Close, tables
<1>3. ASSUME NEW w \in WebDesk, Submit(w) PROVE TypeInv'
  <2>1. form[w] \in Form
    BY <1>3, <1>d DEF Submit
  <2>2. /\ invoice' \in Seq(InvoiceRow) /\ fund' \in Seq(FundRow)
        /\ DOMAIN invoice \subseteq DOMAIN invoice' /\ DOMAIN fund \subseteq DOMAIN fund'
    <3> DEFINE o == Recomputed(form[w])
    <3>1. CASE Accepted(o)
      <4>1. o \in Form /\ Write(o)
        BY <1>0, <1>3, <2>1, <3>1, RecomputedForm DEF Submit
      <4>2. Refers(o)
        BY <3>1, <4>1, GuardRefers
      <4> QED BY <1>0, <4>1, <4>2, WriteTypes
    <3>2. CASE ~Accepted(o)
      BY <1>3, <1>t, <3>2 DEF Submit, tables
    <3> QED BY <3>1, <3>2
  <2>3. form' \in [Desk -> Form \cup {None}] /\ \A d \in Desk : d # w => form'[d] = form[d]
    BY <1>3, <1>d DEF Submit
  <2>4. lost' \in 0 .. MaxLost
    BY <1>3, <1>p, FinanceAssumption DEF Submit
  <2>5. PassedRefers'
    <3>1. w \notin passed /\ passed' = passed
      BY <1>p, <1>3, FinanceAssumption DEF Submit
    <3> QED BY <1>0, <1>d, <1>p, <2>2, <2>3, <3>1, PassedKept
  <2> QED BY <1>3, <1>f, <1>p, <2>2, <2>3, <2>4, <2>5 DEF TypeInv, TypeOK, Submit
<1>4. ASSUME NEW d \in Device, Refuse(d) PROVE TypeInv'
  <2>1. form' \in [Desk -> Form \cup {None}]
    BY <1>4, <1>d DEF Refuse
  <2>2. PassedRefers'
    BY <1>0, <1>4, <1>d, <1>p, DomainsKept, PassedKept DEF Refuse
  <2> QED BY <1>4, <1>f, <1>t, <1>p, <2>1, <2>2 DEF TypeInv, TypeOK, Refuse, tables
<1>5. ASSUME NEW d \in Device, Pass(d) PROVE TypeInv'
  <2>1. form[d] \in Form
    BY <1>5, <1>d DEF Pass
  <2>2. PassedRefers'
    <3>1. Refers(form[d])
      BY <1>5, <2>1, GuardRefers DEF Pass
    <3> QED BY <1>0, <1>5, <3>1 DEF Pass, PassedRefers, Refers, tables
  <2> QED BY <1>5, <1>f, <1>t, <1>p, <1>d, <2>2 DEF TypeInv, TypeOK, Pass, tables
<1>6. ASSUME NEW d \in Device, Commit(d) PROVE TypeInv'
  <2>1. form[d] \in Form /\ Refers(form[d]) /\ Write(form[d])
    BY <1>0, <1>6, <1>d DEF Commit, PassedRefers
  <2>2. /\ invoice' \in Seq(InvoiceRow) /\ fund' \in Seq(FundRow)
        /\ DOMAIN invoice \subseteq DOMAIN invoice' /\ DOMAIN fund \subseteq DOMAIN fund'
    BY <1>0, <2>1, WriteTypes
  <2>3. form' \in [Desk -> Form \cup {None}] /\ passed' \subseteq Device /\ raced' \in BOOLEAN
    BY <1>6, <1>d, <1>p DEF Commit
  <2>4. PassedRefers'
    <3>1. passed' \subseteq passed /\ \A e \in passed' : form'[e] = form[e]
      BY <1>6, <1>d, <1>p DEF Commit
    <3> QED BY <1>0, <2>2, <3>1, PassedKept
  <2> QED BY <1>6, <1>f, <1>p, <2>2, <2>3, <2>4 DEF TypeInv, TypeOK, Commit
<1>7. CASE SaveFinanceOption
  <2>1. option' \in [OptionKinds -> OptionRow]
    BY <1>7, <1>f, FinanceAssumption DEF SaveFinanceOption
  <2>2. PassedRefers'
    BY <1>0, <1>7, DomainsKept, PassedKept DEF SaveFinanceOption
  <2> QED BY <1>7, <1>f, <1>t, <1>p, <1>d, <2>1, <2>2 DEF TypeInv, TypeOK, SaveFinanceOption, tables
<1>8. CASE TicketMoves
  <2>1. facts' \in [Ticket -> Facts]
    <3>1. PICK t \in Ticket : \/ facts' = [facts EXCEPT ![t].mou_accepted = TRUE]
                              \/ facts' = [facts EXCEPT ![t].batch_packed = TRUE]
                              \/ facts' = [facts EXCEPT ![t].storage_fee = 1]
      BY <1>8 DEF TicketMoves
    <3>2. facts[t] \in Facts
      BY <1>f
    <3>3. /\ [facts[t] EXCEPT !.mou_accepted = TRUE] \in Facts
          /\ [facts[t] EXCEPT !.batch_packed = TRUE] \in Facts
          /\ [facts[t] EXCEPT !.storage_fee = 1] \in Facts
      BY <3>2 DEF Facts
    <3>4. PICK r \in Facts : facts' = [facts EXCEPT ![t] = r]
      BY <1>f, <3>1, <3>3
    <3> QED BY <1>f, <3>4
  <2>2. PassedRefers'
    BY <1>0, <1>8, DomainsKept, PassedKept DEF TicketMoves
  <2> QED BY <1>8, <1>f, <1>t, <1>p, <1>d, <2>1, <2>2 DEF TypeInv, TypeOK, TicketMoves, tables
<1>9. CASE UNCHANGED vars
  BY <1>9, <1>0 DEF TypeInv, TypeOK, PassedRefers, Refers, vars, tables
<1> QED BY <1>1, <1>2, <1>3, <1>4, <1>5, <1>6, <1>7, <1>8, <1>9 DEF Next

\* Every state is well typed, and an event that has passed finance_guard points at
\* rows that exist.
THEOREM TypeCorrect == Spec => []TypeOK /\ []PassedRefers
<1>1. TypeInv => TypeOK /\ PassedRefers
  BY DEF TypeInv
<1> QED BY <1>1, TypeInit, TypeStep, PTL DEF Spec

---------------------------------------------------------------------------
(* Money *)

Sound(inv, fnd) ==
  /\ \A i \in DOMAIN inv : inv[i].paid <= inv[i].total /\ (inv[i].status = "CANCELLED" => inv[i].paid = 0)
  /\ \A f \in DOMAIN fnd : fnd[f].used <= fnd[f].amount /\ (fnd[f].status = "VOID" => fnd[f].used = 0)

MoneyInv == ~raced => Sound(invoice, fund)

LEMMA MoneyIs == MoneyInv <=> NeverOverpaid /\ StoppedRowsHoldNoMoney
BY DEF MoneyInv, Sound, NeverOverpaid, StoppedRowsHoldNoMoney

\* A form written while its rule holds keeps the money in order.
LEMMA WriteSound ==
  ASSUME TypeOK, NEW o \in Form, Accepted(o) \/ FinanceGuard(o), Write(o), Sound(invoice, fund)
  PROVE  Sound(invoice, fund)'
<1>r. /\ \A i \in DOMAIN invoice : invoice[i] \in InvoiceRow
      /\ \A f \in DOMAIN fund : fund[f] \in FundRow
      /\ invoice \in Seq(InvoiceRow) /\ fund \in Seq(FundRow)
  BY RowTypes DEF TypeOK
<1>1. CASE o.op = "create" /\ InsertInvoice(o)
  <2>1. o.total \in Nat
    BY <1>1 DEF Form, InvoiceForm, PaymentForm, PartialForm, FundForm, DepositForm, StopForm
  <2> DEFINE r == [ref_type |-> o.ref_type, ticket |-> o.ticket, client |-> o.client,
                   revision |-> o.revision, total |-> o.total, paid |-> 0, status |-> "OPEN",
                   parent |-> 0]
  <2>2. r.paid = 0 /\ r.total = o.total /\ r.status = "OPEN"
    OBVIOUS
  <2>3. invoice' = Append(invoice, r) /\ fund' = fund
    BY <1>1 DEF InsertInvoice
  <2> HIDE DEF r
  <2>4. \A i \in DOMAIN invoice' : invoice'[i] = r \/ (i \in DOMAIN invoice /\ invoice'[i] = invoice[i])
    BY <1>r, <2>3
  <2> QED BY <2>1, <2>2, <2>3, <2>4 DEF Sound
<1>2. CASE CancelRecord(o)
  <2>1. CASE invoice' = invoice /\ fund' = fund
    BY <2>1 DEF Sound
  <2>2. CASE /\ Cancellable(o.row) /\ fund' = fund
             /\ invoice' = [invoice EXCEPT ![o.row].status = "CANCELLED"]
    <3>1. \A i \in DOMAIN invoice' :
            /\ i \in DOMAIN invoice
            /\ invoice'[i].paid = invoice[i].paid
            /\ invoice'[i].total = invoice[i].total
            /\ i = o.row \/ invoice'[i].status = invoice[i].status
      BY <1>r, <2>2 DEF InvoiceRow
    <3>2. invoice[o.row].paid = 0
      BY <2>2 DEF Cancellable
    <3> QED BY <2>2, <3>1, <3>2 DEF Sound
  <2>3. CASE /\ Voidable(o.row) /\ invoice' = invoice
             /\ fund' = [fund EXCEPT ![o.row].status = "VOID"]
    <3>1. \A f \in DOMAIN fund' :
            /\ f \in DOMAIN fund
            /\ fund'[f].used = fund[f].used
            /\ fund'[f].amount = fund[f].amount
            /\ f = o.row \/ fund'[f].status = fund[f].status
      BY <1>r, <2>3 DEF FundRow
    <3>2. fund[o.row].used = 0
      BY <2>3 DEF Voidable
    <3> QED BY <2>3, <3>1, <3>2 DEF Sound
  <2> QED BY <1>2, <2>1, <2>2, <2>3 DEF CancelRecord
<1>3. CASE o.op = "record" /\ RecordIncomingFund(o)
  <2>1. o.amount \in Nat
    BY <1>3 DEF Form, InvoiceForm, PaymentForm, PartialForm, FundForm, DepositForm, StopForm
  <2> DEFINE r == [client |-> o.client, amount |-> o.amount, used |-> 0, status |-> "ACTIVE",
                   deposit |-> FALSE]
  <2>2. r.used = 0 /\ r.amount = o.amount /\ r.status = "ACTIVE"
    OBVIOUS
  <2>3. fund' = Append(fund, r) /\ invoice' = invoice
    BY <1>3 DEF RecordIncomingFund
  <2> HIDE DEF r
  <2>4. \A f \in DOMAIN fund' : fund'[f] = r \/ (f \in DOMAIN fund /\ fund'[f] = fund[f])
    BY <1>r, <2>3
  <2> QED BY <2>1, <2>2, <2>3, <2>4 DEF Sound
<1>4. CASE o.op = "allocate" /\ AllocateFund(o)
  <2>1. AllocationAccepted(o.fund, o.invoice, o.amount)
    BY <1>4 DEF Accepted, FinanceGuard
  <2>2. o.amount \in Nat
    BY <1>4 DEF Form, InvoiceForm, PaymentForm, PartialForm, FundForm, DepositForm, StopForm
  <2>3. \A i \in DOMAIN invoice' : /\ i \in DOMAIN invoice /\ invoice'[i].total = invoice[i].total
                                  /\ invoice'[i].status = invoice[i].status
                                  /\ invoice'[i].paid = IF i = o.invoice THEN invoice[i].paid + o.amount
                                                        ELSE invoice[i].paid
    BY <1>4, <1>r DEF AllocateFund, InvoiceRow
  <2>4. \A f \in DOMAIN fund' : /\ f \in DOMAIN fund /\ fund'[f].amount = fund[f].amount
                               /\ fund'[f].status = fund[f].status
                               /\ fund'[f].used = IF f = o.fund THEN fund[f].used + o.amount
                                                  ELSE fund[f].used
    BY <1>4, <1>r DEF AllocateFund, FundRow
  <2>5. /\ invoice[o.invoice].paid \in Nat /\ invoice[o.invoice].total \in Nat
        /\ fund[o.fund].used \in Nat /\ fund[o.fund].amount \in Nat
    BY <1>r, <2>1 DEF AllocationAccepted, InvoiceRow, FundRow
  <2>6. /\ invoice[o.invoice].paid + o.amount <= invoice[o.invoice].total
        /\ fund[o.fund].used + o.amount <= fund[o.fund].amount
        /\ invoice[o.invoice].status = "OPEN" /\ fund[o.fund].status = "ACTIVE"
    BY <2>1, <2>2, <2>5 DEF AllocationAccepted, Remaining, Unallocated
  <2> QED BY <2>3, <2>4, <2>6 DEF Sound
<1>5. CASE o.op = "reschedule" /\ AcceptPartialPayment(o)
  <2>1. PartialPaymentAccepted(o.fund, o.invoice, o.amount)
    BY <1>5 DEF Accepted, FinanceGuard
  <2>2. o \in PartialForm
    BY <1>5 DEF Form, InvoiceForm, PaymentForm, PartialForm, FundForm, DepositForm, StopForm
  <2>3. /\ o.amount \in Nat /\ o.left \in Nat
        /\ o.plan.rate_bp \in Nat /\ o.plan.rate_bp <= RATE_BP_MAX
        /\ o.plan.installment_count \in 1 .. 24
    BY <2>2, RateMax DEF PartialForm, OptionRow
  <2> DEFINE n == o.plan.installment_count
             part == Installments(o.left, o.plan.rate_bp, n)
             old == Len(invoice)
             parent == invoice[o.invoice]
             Installment(no) == [parent EXCEPT !.ref_type = "INSTALLMENT", !.total = part[no],
                                   !.paid = 0, !.status = "OPEN", !.parent = o.invoice]
             kept == [parent EXCEPT !.paid = @ + o.amount,
                                    !.status = IF @ = "OPEN" THEN "RESCHEDULED" ELSE @]
  <2>4. \A no \in 1 .. n : part[no] \in Nat
    BY <2>3, InstallmentsNat
  <2>5. old \in Nat /\ parent \in InvoiceRow /\ DOMAIN invoice = 1 .. old
    BY <2>1, RowTypes DEF PartialPaymentAccepted
  <2>6. invoice' = [i \in 1 .. old + n |->
             IF i > old THEN Installment(i - old) ELSE IF i = o.invoice THEN kept ELSE invoice[i]]
    BY <1>5 DEF AcceptPartialPayment
  <2> HIDE DEF part
  <2>7. \A no \in 1 .. n : /\ Installment(no).paid = 0 /\ Installment(no).total = part[no]
                           /\ Installment(no).status = "OPEN"
    <3> HIDE DEF parent, n
    <3> QED BY <2>5 DEF InvoiceRow
  <2>8. kept.paid = parent.paid + o.amount /\ kept.total = parent.total /\ kept.status = "RESCHEDULED"
    <3>1. parent.status = "OPEN"
      BY <2>1 DEF PartialPaymentAccepted
    <3> HIDE DEF parent
    <3> QED BY <2>5, <3>1 DEF InvoiceRow
  <2>9. parent.paid + o.amount <= parent.total
    <3>1. parent.paid \in Nat /\ parent.total \in Nat
      BY <2>5 DEF InvoiceRow
    <3>2. o.amount < parent.total - parent.paid
      BY <2>1 DEF PartialPaymentAccepted, Remaining
    <3> HIDE DEF parent
    <3> QED BY <2>3, <3>1, <3>2
  <2>10. n \in 1 .. 24
    BY <2>3
  <2> HIDE DEF Installment, kept, parent, n, old
  <2>11. ASSUME NEW i \in DOMAIN invoice'
         PROVE  \/ invoice'[i].paid <= invoice'[i].total /\ invoice'[i].status # "CANCELLED"
                \/ i \in DOMAIN invoice /\ invoice'[i] = invoice[i]
    <3>1. i \in 1 .. old + n
      BY <2>6
    <3>2. CASE i > old
      <4>1. i - old \in 1 .. n
        BY <2>5, <2>10, <3>1, <3>2
      <4>2. invoice'[i] = Installment(i - old)
        BY <2>6, <3>1, <3>2
      <4>3. part[i - old] \in Nat
        BY <2>4, <4>1
      <4> QED BY <2>7, <4>1, <4>2, <4>3
    <3>3. CASE ~(i > old)
      <4>1. i \in DOMAIN invoice
        BY <2>5, <2>10, <3>1, <3>3
      <4>2. invoice'[i] = IF i = o.invoice THEN kept ELSE invoice[i]
        BY <2>6, <3>1, <3>3
      <4> QED BY <2>8, <2>9, <4>1, <4>2
    <3> QED BY <3>2, <3>3
  <2>12. \A f \in DOMAIN fund' : /\ f \in DOMAIN fund /\ fund'[f].amount = fund[f].amount
                               /\ fund'[f].status = fund[f].status
                               /\ fund'[f].used = IF f = o.fund THEN fund[f].used + o.amount
                                                  ELSE fund[f].used
    BY <1>5, <1>r DEF AcceptPartialPayment, FundRow
  <2>13. /\ fund[o.fund].used + o.amount <= fund[o.fund].amount
         /\ fund[o.fund].status = "ACTIVE"
    <3>1. fund[o.fund].used \in Nat /\ fund[o.fund].amount \in Nat
      BY <1>r, <2>1 DEF PartialPaymentAccepted, FundRow
    <3> QED BY <2>1, <2>3, <3>1 DEF PartialPaymentAccepted, Unallocated
  <2> QED BY <2>11, <2>12, <2>13 DEF Sound
<1>6. CASE o.op = "deposit" /\ ConfirmDeposit(o)
  <2>1. \A f \in DOMAIN fund' : /\ f \in DOMAIN fund /\ fund'[f].amount = fund[f].amount
                               /\ fund'[f].status = fund[f].status /\ fund'[f].used = fund[f].used
    BY <1>6, <1>r DEF ConfirmDeposit, FundRow
  <2> QED BY <1>6, <2>1 DEF Sound, ConfirmDeposit
<1> QED BY <1>1, <1>2, <1>3, <1>4, <1>5, <1>6 DEF Write

LEMMA MoneyStep == TypeInv /\ MoneyInv /\ [Next]_vars => MoneyInv'
<1> SUFFICES ASSUME TypeInv, MoneyInv, [Next]_vars, ~raced' PROVE Sound(invoice, fund)'
  BY DEF MoneyInv
<1>0. TypeOK /\ PassedRefers /\ form \in [Desk -> Form \cup {None}] /\ passed \subseteq Device
  BY DEF TypeInv, TypeOK
<1>1. CASE UNCHANGED tables /\ raced' = raced
  BY <1>1 DEF MoneyInv, Sound, tables
<1>2. ASSUME NEW w \in WebDesk, Submit(w) PROVE Sound(invoice, fund)'
  <2> DEFINE o == Recomputed(form[w])
  <2>1. raced' = raced /\ Sound(invoice, fund)
    BY <1>2 DEF Submit, MoneyInv
  <2>2. CASE Accepted(o)
    <3>1. form[w] \in Form
      BY <1>0, <1>2 DEF Submit, Desk
    <3>2. o \in Form
      BY <1>0, <2>2, <3>1, RecomputedForm
    <3>3. Write(o)
      BY <1>2, <2>2 DEF Submit
    <3> HIDE DEF o
    <3> QED BY <1>0, <2>1, <2>2, <3>2, <3>3, WriteSound
  <2>3. CASE ~Accepted(o)
    <3>1. UNCHANGED tables
      BY <1>2, <2>3 DEF Submit
    <3> QED BY <1>1, <2>1, <3>1
  <2> QED BY <2>2, <2>3
<1>3. ASSUME NEW d \in Device, Commit(d) PROVE Sound(invoice, fund)'
  <2>1. FinanceGuard(form[d]) /\ ~raced
    BY <1>3 DEF Commit
  <2>2. form[d] \in Form /\ Write(form[d])
    BY <1>0, <1>3 DEF Commit, PassedRefers, Desk
  <2> QED BY <1>0, <2>1, <2>2, WriteSound DEF MoneyInv
<1>4. (\E d \in Desk : Fill(d)) \/ (\E w \in WebDesk : Close(w)) \/ (\E d \in Device : Refuse(d) \/ Pass(d))
        \/ SaveFinanceOption \/ TicketMoves \/ UNCHANGED vars => UNCHANGED tables /\ raced' = raced
  BY DEF Fill, Close, Refuse, Pass, SaveFinanceOption, TicketMoves, vars, tables
<1> QED BY <1>1, <1>2, <1>3, <1>4 DEF Next

LEMMA MoneyAlways == Spec => []MoneyInv
<1>1. Init => MoneyInv
  BY DEF Init, MoneyInv, Sound
<1> QED BY <1>1, TypeInit, TypeStep, MoneyStep, PTL DEF Spec

\* No invoice is paid beyond its total and no fund is spent twice, for any number of
\* desks, as long as no event was written after its guard had ceased to hold.
THEOREM NobodyOverpays == Spec => []NeverOverpaid
<1>1. MoneyInv => NeverOverpaid
  BY MoneyIs
<1> QED BY <1>1, MoneyAlways, PTL

\* Neither a cancelled invoice nor a voided fund holds money, under the same
\* proviso: whoever stops a row while another desk pays into it.
THEOREM StoppedRowsAreEmpty == Spec => []StoppedRowsHoldNoMoney
<1>1. MoneyInv => StoppedRowsHoldNoMoney
  BY MoneyIs
<1> QED BY <1>1, MoneyAlways, PTL

---------------------------------------------------------------------------
(* The owner of a fund *)

OwnerStep == \A f \in DOMAIN fund : /\ fund[f].client # None => fund'[f].client = fund[f].client
                                    /\ fund[f].deposit => fund'[f].deposit

LEMMA WriteKeepsOwner ==
  ASSUME TypeOK, NEW o \in Form, Write(o)
  PROVE  OwnerStep
<1>r. fund \in Seq(FundRow) /\ \A f \in DOMAIN fund : fund[f] \in FundRow
  BY RowTypes DEF TypeOK
<1>1. CASE UNCHANGED fund
  BY <1>1 DEF OwnerStep
<1>2. CASE RecordIncomingFund(o)
  BY <1>2, <1>r DEF RecordIncomingFund, OwnerStep
<1>3. ASSUME NEW f \in DOMAIN fund, \/ fund' = [fund EXCEPT ![f].status = "VOID"]
                                    \/ fund' = [fund EXCEPT ![f].used = @ + o.amount]
      PROVE  OwnerStep
  <2>1. ASSUME NEW g \in DOMAIN fund
        PROVE  fund'[g].client = fund[g].client /\ (fund[g].deposit => fund'[g].deposit)
    <3>1. \/ fund'[g] = fund[g]
          \/ fund'[g] = [fund[g] EXCEPT !.status = "VOID"]
          \/ fund'[g] = [fund[g] EXCEPT !.used = @ + o.amount]
      BY <1>3, <1>r
    <3>2. fund[g] \in FundRow
      BY <1>r
    <3>3. ASSUME NEW r \in FundRow, NEW s
          PROVE  /\ [r EXCEPT !.status = s].client = r.client
                 /\ [r EXCEPT !.used = s].client = r.client
                 /\ [r EXCEPT !.status = s].deposit = r.deposit
                 /\ [r EXCEPT !.used = s].deposit = r.deposit
      <4>1. r = [k \in DOMAIN r |-> r[k]] /\ {"client", "deposit"} \subseteq DOMAIN r
        BY SMT DEF FundRow
      <4> QED BY <4>1, Zenon
    <3>4. fund'[g].client = fund[g].client /\ fund'[g].deposit = fund[g].deposit
      <4>1. CASE fund'[g] = fund[g]
        BY <4>1
      <4>2. CASE fund'[g] = [fund[g] EXCEPT !.status = "VOID"]
        BY <3>2, <3>3, <4>2
      <4>3. CASE fund'[g] = [fund[g] EXCEPT !.used = @ + o.amount]
        BY <3>2, <3>3, <4>3
      <4> QED BY <3>1, <4>1, <4>2, <4>3
    <3> QED BY <3>4, Zenon
  <2> QED BY <2>1, Zenon DEF OwnerStep
<1>4. ASSUME NEW f, \/ fund' = [fund EXCEPT ![f].status = "VOID"]
                    \/ fund' = [fund EXCEPT ![f].used = @ + o.amount]
      PROVE  OwnerStep
  <2>1. CASE f \in DOMAIN fund
    BY <1>3, <1>4, <2>1
  <2>2. CASE f \notin DOMAIN fund
    BY <1>1, <1>4, <1>r, <2>2 DEF OwnerStep
  <2> QED BY <2>1, <2>2
<1>5. CASE ConfirmDeposit(o)
  <2>1. CASE /\ fund[o.fund].client \in {None, o.client}
             /\ fund' = [fund EXCEPT ![o.fund].client = o.client, ![o.fund].deposit = TRUE]
    <3>1. \A g \in DOMAIN fund : g # o.fund => fund'[g] = fund[g]
      BY <2>1, <1>r
    <3>2. o.fund \in DOMAIN fund => fund'[o.fund].client = o.client /\ fund'[o.fund].deposit = TRUE
      BY <2>1, <1>r DEF FundRow
    <3> QED BY <2>1, <3>1, <3>2 DEF OwnerStep
  <2> QED BY <1>1, <1>5, <2>1 DEF ConfirmDeposit
<1> QED BY <1>1, <1>2, <1>4, <1>5 DEF Write, InsertInvoice, CancelRecord, AllocateFund,
           AcceptPartialPayment

\* Once a fund has a client it keeps it, and a confirmed deposit stays one, whoever
\* confirms, allocates or voids at the same time and however late.
THEOREM OwnerNeverChanges == Spec => OwnerKept
<1>1. TypeInv /\ [Next]_vars => [OwnerStep]_vars
  <2> SUFFICES ASSUME TypeInv, Next PROVE OwnerStep \/ UNCHANGED vars
    BY DEF OwnerStep
  <2>0. TypeOK /\ PassedRefers /\ form \in [Desk -> Form \cup {None}]
    BY DEF TypeInv, TypeOK
  <2>1. CASE UNCHANGED tables
    BY <2>1 DEF OwnerStep, tables
  <2>2. ASSUME NEW w \in WebDesk, Submit(w) PROVE OwnerStep
    <3>1. form[w] \in Form
      BY <2>0, <2>2 DEF Submit, Desk
    <3>2. CASE Accepted(Recomputed(form[w]))
      BY <2>0, <2>2, <3>1, <3>2, RecomputedForm, WriteKeepsOwner DEF Submit
    <3>3. CASE ~Accepted(Recomputed(form[w]))
      <4>1. UNCHANGED tables
        BY <2>2, <3>3 DEF Submit
      <4> QED BY <4>1, Zenon DEF OwnerStep, tables
    <3> QED BY <3>2, <3>3
  <2>3. ASSUME NEW d \in Device, Commit(d) PROVE OwnerStep
    <3>1. form[d] \in Form /\ Write(form[d])
      BY <2>0, <2>3 DEF Commit, PassedRefers, Desk
    <3> QED BY <2>0, <3>1, WriteKeepsOwner
  <2>4. (\E d \in Desk : Fill(d)) \/ (\E w \in WebDesk : Close(w))
          \/ (\E d \in Device : Refuse(d) \/ Pass(d)) \/ SaveFinanceOption \/ TicketMoves
          => UNCHANGED tables
    BY DEF Fill, Close, Refuse, Pass, SaveFinanceOption, TicketMoves
  <2> QED BY <2>1, <2>2, <2>3, <2>4 DEF Next
<1>2. TypeInv /\ [Next]_vars =>
        [\A f \in DOMAIN fund : /\ fund[f].client # None => fund'[f].client = fund[f].client
                                /\ fund[f].deposit => fund'[f].deposit]_vars
  BY <1>1 DEF OwnerStep
<1> QED BY <1>2, TypeInit, TypeStep, PTL DEF Spec, OwnerKept

---------------------------------------------------------------------------
(* What a form does to the invoices *)

\* An invoice keeps what it is for; it is paid more, and stops being open once.
SameBill(a, b) == /\ b.ref_type = a.ref_type /\ b.ticket = a.ticket /\ b.revision = a.revision
                  /\ b.total = a.total /\ b.parent = a.parent /\ b.paid >= a.paid

Continues(a, b) == \/ b.status = a.status
                   \/ a.status = "OPEN" /\ b.status \in {"RESCHEDULED", "CANCELLED"}

LEMMA SameBillIs ==
  ASSUME NEW r \in InvoiceRow
  PROVE  SameBill(r, r) /\ Continues(r, r)
<1>1. r.paid \in Nat
  BY DEF InvoiceRow
<1> QED BY <1>1 DEF SameBill, Continues

LEMMA CancelledBill ==
  ASSUME NEW r \in InvoiceRow, NEW b, b = [r EXCEPT !.status = "CANCELLED"]
  PROVE  SameBill(r, b) /\ b.status = "CANCELLED"
<1>1. r.paid \in Nat
  BY DEF InvoiceRow
<1> QED BY <1>1 DEF SameBill, InvoiceRow

LEMMA PaidBill ==
  ASSUME NEW r \in InvoiceRow, NEW a \in Nat, NEW b, b = [r EXCEPT !.paid = @ + a]
  PROVE  SameBill(r, b) /\ b.status = r.status
<1>1. r.paid \in Nat /\ r.paid + a >= r.paid
  BY DEF InvoiceRow
<1> QED BY <1>1 DEF SameBill, InvoiceRow

LEMMA SplitBill ==
  ASSUME NEW r \in InvoiceRow, NEW a \in Nat, NEW b,
         b = [r EXCEPT !.paid = @ + a, !.status = IF @ = "OPEN" THEN "RESCHEDULED" ELSE @]
  PROVE  SameBill(r, b) /\ Continues(r, b) /\ b.status \in {r.status, "RESCHEDULED"}
<1>1. r.paid \in Nat /\ r.paid + a >= r.paid
  BY DEF InvoiceRow
<1> QED BY <1>1 DEF SameBill, Continues, InvoiceRow

\* The row a form adds: the invoice it was filled in for, or an installment.
Added(o, r) ==
  \/ /\ o.op = "create" /\ r.ref_type = o.ref_type /\ r.ticket = o.ticket /\ r.revision = o.revision
     /\ r.parent = 0 /\ r.total = o.total
  \/ /\ o.op = "reschedule" /\ r.ref_type = "INSTALLMENT" /\ r.parent = o.invoice
     /\ r.ticket = invoice[o.invoice].ticket

LEMMA WriteInvoices ==
  ASSUME TypeOK, NEW o \in Form, Refers(o), Write(o)
  PROVE  /\ DOMAIN invoice \subseteq DOMAIN invoice'
         /\ \A i \in DOMAIN invoice :
              /\ SameBill(invoice[i], invoice'[i]) /\ Continues(invoice[i], invoice'[i])
              /\ invoice'[i].status = "CANCELLED" =>
                   invoice[i].status = "CANCELLED" \/ Cancellable(i)
         /\ \A i \in DOMAIN invoice' \ DOMAIN invoice : Added(o, invoice'[i])
         /\ o.op = "create" => DOMAIN invoice' = DOMAIN invoice \cup {Len(invoice) + 1}
<1>r. /\ \A i \in DOMAIN invoice : invoice[i] \in InvoiceRow
      /\ invoice \in Seq(InvoiceRow)
      /\ Len(invoice) \in Nat /\ DOMAIN invoice = 1 .. Len(invoice)
      /\ DOMAIN invoice \subseteq DOMAIN invoice'
  BY RowTypes, WriteTypes DEF TypeOK
<1>0. \A i \in DOMAIN invoice : SameBill(invoice[i], invoice[i]) /\ Continues(invoice[i], invoice[i])
  BY <1>r, SameBillIs
<1>1. CASE o.op = "create" /\ InsertInvoice(o)
  <2> DEFINE r == [ref_type |-> o.ref_type, ticket |-> o.ticket, client |-> o.client,
                   revision |-> o.revision, total |-> o.total, paid |-> 0, status |-> "OPEN",
                   parent |-> 0]
  <2>1. /\ r.ref_type = o.ref_type /\ r.ticket = o.ticket /\ r.revision = o.revision
        /\ r.parent = 0 /\ r.total = o.total
    OBVIOUS
  <2>2. invoice' = Append(invoice, r)
    BY <1>1 DEF InsertInvoice
  <2> HIDE DEF r
  <2>3. /\ DOMAIN invoice' = DOMAIN invoice \cup {Len(invoice) + 1}
        /\ \A i \in DOMAIN invoice : invoice'[i] = invoice[i]
        /\ invoice'[Len(invoice) + 1] = r
    BY <1>r, <2>2
  <2> QED BY <1>0, <1>1, <1>r, <2>1, <2>3 DEF Added
<1>2. CASE invoice' = invoice /\ o.op # "create"
  BY <1>0, <1>r, <1>2
<1>3. CASE CancelRecord(o) /\ invoice' # invoice
  <2>1. /\ o.op = "cancel" /\ Cancellable(o.row)
        /\ invoice' = [invoice EXCEPT ![o.row].status = "CANCELLED"]
    BY <1>3 DEF CancelRecord
  <2>2. o.row \in DOMAIN invoice
    BY <2>1 DEF Cancellable
  <2>3. /\ DOMAIN invoice' = DOMAIN invoice
        /\ invoice'[o.row] = [invoice[o.row] EXCEPT !.status = "CANCELLED"]
        /\ \A i \in DOMAIN invoice : i # o.row => invoice'[i] = invoice[i]
    BY <1>r, <2>1, <2>2
  <2>4. SameBill(invoice[o.row], invoice'[o.row]) /\ invoice'[o.row].status = "CANCELLED"
    BY <1>r, <2>2, <2>3, CancelledBill
  <2>5. Continues(invoice[o.row], invoice'[o.row])
    BY <2>1, <2>4 DEF Cancellable, Continues
  <2> QED BY <1>0, <2>1, <2>3, <2>4, <2>5
<1>4. CASE o.op = "allocate" /\ AllocateFund(o)
  <2>1. o.amount \in Nat
    BY <1>4 DEF Form, InvoiceForm, PaymentForm, PartialForm, FundForm, DepositForm, StopForm
  <2>2. o.invoice \in DOMAIN invoice
    BY <1>4 DEF Refers
  <2>3. /\ DOMAIN invoice' = DOMAIN invoice
        /\ invoice'[o.invoice] = [invoice[o.invoice] EXCEPT !.paid = @ + o.amount]
        /\ \A i \in DOMAIN invoice : i # o.invoice => invoice'[i] = invoice[i]
    BY <1>r, <1>4, <2>2 DEF AllocateFund
  <2>4. /\ SameBill(invoice[o.invoice], invoice'[o.invoice])
        /\ invoice'[o.invoice].status = invoice[o.invoice].status
    BY <1>r, <2>1, <2>2, <2>3, PaidBill
  <2> QED BY <1>0, <1>4, <2>3, <2>4 DEF Continues
<1>5. CASE o.op = "reschedule" /\ AcceptPartialPayment(o)
  <2>1. o \in PartialForm /\ o.invoice \in DOMAIN invoice
    BY <1>5 DEF Refers, Form, InvoiceForm, PaymentForm, PartialForm, FundForm, DepositForm, StopForm
  <2>2. o.amount \in Nat /\ o.plan.installment_count \in Nat
    BY <2>1 DEF PartialForm, OptionRow
  <2> DEFINE n == o.plan.installment_count
             part == Installments(o.left, o.plan.rate_bp, n)
             old == Len(invoice)
             parent == invoice[o.invoice]
             Installment(no) == [parent EXCEPT !.ref_type = "INSTALLMENT", !.total = part[no],
                                   !.paid = 0, !.status = "OPEN", !.parent = o.invoice]
             kept == [parent EXCEPT !.paid = @ + o.amount,
                                    !.status = IF @ = "OPEN" THEN "RESCHEDULED" ELSE @]
  <2>3. invoice' = [i \in 1 .. old + n |->
             IF i > old THEN Installment(i - old) ELSE IF i = o.invoice THEN kept ELSE invoice[i]]
    BY <1>5 DEF AcceptPartialPayment
  <2>4. parent \in InvoiceRow
    BY <1>r, <2>1
  <2> HIDE DEF part
  <2>5. \A no : /\ Installment(no).ref_type = "INSTALLMENT" /\ Installment(no).parent = o.invoice
                /\ Installment(no).ticket = parent.ticket
    <3> HIDE DEF parent
    <3> QED BY <2>4 DEF InvoiceRow
  <2>6. SameBill(parent, kept) /\ Continues(parent, kept) /\ kept.status \in {parent.status, "RESCHEDULED"}
    <3> HIDE DEF parent
    <3> QED BY <2>2, <2>4, SplitBill
  <2>7. parent = invoice[o.invoice]
    OBVIOUS
  <2> HIDE DEF Installment, kept, parent, n, old
  <2>8. \A i \in DOMAIN invoice : invoice'[i] = IF i = o.invoice THEN kept ELSE invoice[i]
    BY <1>r, <2>2, <2>3 DEF old, n
  <2>9. \A i \in DOMAIN invoice' \ DOMAIN invoice : \E no : invoice'[i] = Installment(no)
    BY <1>r, <2>2, <2>3 DEF old, n
  <2>10. \A i \in DOMAIN invoice' \ DOMAIN invoice : Added(o, invoice'[i])
    BY <1>5, <2>5, <2>7, <2>9 DEF Added
  <2> QED BY <1>0, <1>r, <1>5, <2>6, <2>7, <2>8, <2>10
<1> QED BY <1>1, <1>2, <1>3, <1>4, <1>5
        DEF Write, InsertInvoice, CancelRecord, RecordIncomingFund, ConfirmDeposit

---------------------------------------------------------------------------
(* What an invoice is made from *)

\* The types that carry no revision: a ticket has one live invoice of each.
Once == InvoiceTypes \ {"REVISION_FEE", "DUMMY_FEE"}

\* No discount takes the whole of an invoice.
NothingIsFree ==
  TRUE \in Rated => \A s \in Subtotals, o \in OptionEdits \cup {OptionAtStart["DISCOUNT"]} :
                       s - ApplyRate(s, o.rate_bp) >= 1

\* What has to have happened before an invoice of a type.
InTime(f, type, t) ==
  /\ type # "OTHER" => t \in Ticket
  /\ type = "DP_PRODUCTION_LEGAL" => f[t].mou_accepted
  /\ type \in {"SETTLEMENT", "SHIPPING"} => f[t].batch_packed
  /\ type = "STORAGE_FEE" => f[t].storage_fee >= 1

Made(f, r) == /\ r.ref_type \in Once => r.revision = 0
              /\ InTime(f, r.ref_type, r.ticket)
              /\ NothingIsFree => r.total >= 1

FormMade(f, o) == o.op = "create" => Made(f, o) /\ o.subtotal \in Subtotals /\ o.rated \in Rated

MadeInv == /\ option["DISCOUNT"] \in OptionEdits \cup {OptionAtStart["DISCOUNT"]}
           /\ \A d \in Desk : form[d] # None => FormMade(facts, form[d])

LEMMA TotalNowPositive ==
  ASSUME TypeOK, MadeInv, NothingIsFree, NEW s \in Subtotals, NEW r \in Rated
  PROVE  TotalNow(s, r) >= 1
<1>1. s \in Nat /\ s >= 1 /\ r \in BOOLEAN
  BY FinanceAssumption
<1>2. CASE ~r
  BY <1>1, <1>2 DEF TotalNow
<1>3. CASE r
  <2> DEFINE disc == option["DISCOUNT"].rate_bp
             tax == option["TAX"].rate_bp
             taxable == s - ApplyRate(s, disc)
  <2>1. disc \in Nat /\ disc <= RATE_BP_MAX /\ tax \in Nat /\ tax <= RATE_BP_MAX
    <3>1. option["DISCOUNT"] \in OptionRow /\ option["TAX"] \in OptionRow
      BY DEF TypeOK, OptionKinds
    <3> QED BY <3>1, RateMax DEF OptionRow
  <2>2. ApplyRate(s, disc) \in Nat /\ ApplyRate(s, disc) <= s
    BY <1>1, <2>1, ApplyRateBounds
  <2>3. taxable \in Nat /\ taxable >= 1
    <3>1. s - ApplyRate(s, disc) >= 1
      BY <1>3 DEF MadeInv, NothingIsFree
    <3> QED BY <1>1, <2>2, <3>1
  <2> HIDE DEF taxable
  <2>4. ApplyRate(taxable, tax) \in Nat
    BY <2>1, <2>3, ApplyRateBounds
  <2>5. TotalNow(s, r) = taxable + ApplyRate(taxable, tax)
    BY <1>3 DEF TotalNow, ComputeInvoice, taxable
  <2> QED BY <2>3, <2>4, <2>5
<1> QED BY <1>1, <1>2, <1>3

\* What a handler makes of a form, and what a desk fills in.
LEMMA RecomputedMade ==
  ASSUME TypeOK, MadeInv, NEW b \in InvoiceForm, b.subtotal \in Subtotals, b.rated \in Rated,
         NEW o, o = Recomputed(b), Accepted(o)
  PROVE  FormMade(facts, o)
<1>1. o = [b EXCEPT !.client = IF b.ticket = None THEN @ ELSE ClientOf[b.ticket],
                   !.revision = InvoiceRevisionIndex(b.ref_type, b.ticket),
                   !.total = TotalNow(b.subtotal, b.rated)]
  BY DEF Recomputed, InvoiceForm
<1>2. /\ o.op = "create" /\ o.ref_type = b.ref_type /\ o.ticket = b.ticket
      /\ o.revision = InvoiceRevisionIndex(b.ref_type, b.ticket)
      /\ o.total = TotalNow(b.subtotal, b.rated) /\ o.subtotal = b.subtotal /\ o.rated = b.rated
  BY <1>1 DEF InvoiceForm
<1>3. b.ticket \in Ticket \cup {None} /\ b.ref_type \in InvoiceTypes
  BY DEF InvoiceForm
<1>4. ~InvoiceTypeError(b.ref_type, b.ticket)
  BY <1>2 DEF Accepted, CreateAccepted
<1>5. InTime(facts, b.ref_type, b.ticket)
  <2>1. b.ref_type # "OTHER" => b.ticket \in Ticket
    BY <1>3, <1>4 DEF InvoiceTypeError
  <2>2. b.ref_type = "STORAGE_FEE" => facts[b.ticket].storage_fee \in Nat
    BY <2>1 DEF TypeOK, Facts
  <2> QED BY <1>4, <2>1, <2>2 DEF InTime, InvoiceTypeError
<1>6. b.ref_type \in Once => o.revision = 0
  BY <1>2 DEF Once, InvoiceRevisionIndex
<1>7. NothingIsFree => o.total >= 1
  BY <1>2, TotalNowPositive
<1> QED BY <1>2, <1>5, <1>6, <1>7 DEF FormMade, Made

\* The order moves on and never back.
FactsGrow ==
  \A t \in Ticket : /\ facts[t].mou_accepted => facts'[t].mou_accepted
                    /\ facts[t].batch_packed => facts'[t].batch_packed
                    /\ facts[t].storage_fee >= 1 => facts'[t].storage_fee >= 1

LEMMA FactsKept == TypeOK /\ [Next]_vars => FactsGrow
<1> SUFFICES ASSUME TypeOK, [Next]_vars PROVE FactsGrow
  OBVIOUS
<1>1. CASE UNCHANGED facts
  BY <1>1 DEF FactsGrow
<1>2. CASE TicketMoves
  <2>0. \A t \in Ticket : facts[t] \in Facts
    BY DEF TypeOK
  <2>1. PICK t \in Ticket :
          \/ facts' = [facts EXCEPT ![t].mou_accepted = TRUE]
          \/ facts' = [facts EXCEPT ![t].batch_packed = TRUE]
          \/ facts[t].storage_fee = 0 /\ facts' = [facts EXCEPT ![t].storage_fee = 1]
    BY <1>2 DEF TicketMoves
  <2>2. facts \in [Ticket -> Facts]
    BY DEF TypeOK
  <2> SUFFICES ASSUME NEW u \in Ticket
               PROVE  /\ facts[u].mou_accepted => facts'[u].mou_accepted
                      /\ facts[u].batch_packed => facts'[u].batch_packed
                      /\ facts[u].storage_fee >= 1 => facts'[u].storage_fee >= 1
    BY DEF FactsGrow
  <2>3. CASE u # t
    BY <2>1, <2>2, <2>3
  <2>4. CASE u = t
    BY <2>0, <2>1, <2>2, <2>4 DEF Facts
  <2> QED BY <2>3, <2>4
<1>3. UNCHANGED facts \/ TicketMoves
  BY DEF Next, Fill, Close, Submit, Refuse, Pass, Commit, SaveFinanceOption, vars
<1> QED BY <1>1, <1>2, <1>3

LEMMA MadeKept ==
  ASSUME FactsGrow, NEW r
  PROVE  /\ Made(facts, r) => Made(facts', r)
         /\ FormMade(facts, r) => FormMade(facts', r)
BY DEF FactsGrow, Made, InTime, FormMade

LEMMA FilledMade ==
  ASSUME TypeOK, MadeInv,
         NEW o \in InvoiceForms \cup PaymentForms \cup PartialForms \cup FundForms
                     \cup DepositForms \cup StopForms,
         Accepted(o), Recomputed(o) = o
  PROVE  FormMade(facts, o)
<1>1. CASE o.op # "create"
  BY <1>1 DEF FormMade
<1>2. CASE o.op = "create"
  <2>1. o \in InvoiceForm
    <3>1. o \in Form
      BY FilledForm
    <3> QED BY <1>2, <3>1 DEF Form, InvoiceForm, PaymentForm, PartialForm, FundForm, DepositForm, StopForm
  <2>2. o \in InvoiceForms
    BY <1>2 DEF PaymentForms, PartialForms, FundForms, DepositForms, StopForms
  <2>3. o.subtotal \in Subtotals /\ o.rated \in Rated
    BY <2>2 DEF InvoiceForms
  <2> QED BY <2>1, <2>3, RecomputedMade
<1> QED BY <1>1, <1>2

LEMMA MadeStep == TypeInv /\ MadeInv /\ [Next]_vars => MadeInv'
<1> SUFFICES ASSUME TypeInv, MadeInv, [Next]_vars PROVE MadeInv'
  OBVIOUS
<1>0. TypeOK /\ form \in [Desk -> Form \cup {None}] /\ option \in [OptionKinds -> OptionRow]
  BY DEF TypeInv, TypeOK
<1>o. option'["DISCOUNT"] \in OptionEdits \cup {OptionAtStart["DISCOUNT"]}
  <2>1. CASE UNCHANGED option
    BY <2>1 DEF MadeInv
  <2>2. CASE SaveFinanceOption
    BY <1>0, <2>2 DEF SaveFinanceOption, MadeInv, OptionKinds
  <2> QED BY <2>1, <2>2 DEF Next, Fill, Close, Submit, Refuse, Pass, Commit, TicketMoves, vars
<1>k. \A d \in Desk : form[d] # None => FormMade(facts', form[d])
  BY <1>0, FactsKept, MadeKept DEF MadeInv
<1>1. CASE UNCHANGED form
  BY <1>1, <1>k, <1>o DEF MadeInv
<1>2. ASSUME NEW d \in Desk, form' = [form EXCEPT ![d] = None] PROVE MadeInv'
  BY <1>0, <1>2, <1>k, <1>o DEF MadeInv
<1>3. ASSUME NEW d \in Desk, Fill(d) PROVE MadeInv'
  <2>1. PICK o \in InvoiceForms \cup PaymentForms \cup PartialForms \cup FundForms
                \cup DepositForms \cup StopForms :
          Accepted(o) /\ Recomputed(o) = o /\ form' = [form EXCEPT ![d] = o] /\ UNCHANGED facts
    BY <1>3 DEF Fill
  <2>2. FormMade(facts', o)
    BY <1>0, <2>1, FilledMade
  <2> QED BY <1>0, <1>k, <1>o, <2>1, <2>2 DEF MadeInv
<1>4. /\ \A w \in WebDesk : Close(w) \/ Submit(w) => UNCHANGED form \/ form' = [form EXCEPT ![w] = None]
      /\ \A d \in Device : Refuse(d) \/ Commit(d) => form' = [form EXCEPT ![d] = None]
      /\ \A d \in Device : Pass(d) => UNCHANGED form
      /\ SaveFinanceOption \/ TicketMoves \/ UNCHANGED vars => UNCHANGED form
  BY Zenon DEF Close, Submit, Refuse, Commit, Pass, SaveFinanceOption, TicketMoves, vars
<1> QED BY <1>1, <1>2, <1>3, <1>4 DEF Next, Desk

---------------------------------------------------------------------------
(* One live invoice, and orders that stay cleared *)

\* An installment belongs to an invoice that is none; the others stand alone.
Rooted == \A i \in DOMAIN invoice :
            IF invoice[i].ref_type = "INSTALLMENT"
            THEN /\ invoice[i].parent \in DOMAIN invoice
                 /\ invoice[invoice[i].parent].ref_type # "INSTALLMENT"
                 /\ invoice[invoice[i].parent].ticket = invoice[i].ticket
            ELSE invoice[i].parent = 0

RowsMade == \A i \in DOMAIN invoice : invoice[i].ref_type # "INSTALLMENT" => Made(facts, invoice[i])

SameSubject(a, b) == a.ticket = b.ticket /\ a.ref_type = b.ref_type /\ a.revision = b.revision

Single == \A i, j \in DOMAIN invoice :
            /\ i # j /\ Live(i) /\ Live(j)
            /\ invoice[i].ref_type \notin {"OTHER", "INSTALLMENT"} /\ invoice[i].ticket # None
            => ~ SameSubject(invoice[i], invoice[j])

BillInv == ~raced => Rooted /\ RowsMade /\ Single

\* What the rule of a form tested of the invoices.
Tested(o) ==
  /\ Refers(o)
  /\ o.op = "create" => ~ Duplicate(o.ref_type, o.ticket, o.revision)
  /\ FormMade(facts, o)
  /\ o.op = "reschedule" => PartialPaymentAccepted(o.fund, o.invoice, o.amount)

LEMMA RootedKept ==
  ASSUME TypeOK, NEW o \in Form, Tested(o), Write(o), Rooted
  PROVE  Rooted' /\ \A i \in DOMAIN invoice : CountsAs(i)' = CountsAs(i)
<1>1. /\ DOMAIN invoice \subseteq DOMAIN invoice'
      /\ \A i \in DOMAIN invoice : SameBill(invoice[i], invoice'[i])
      /\ \A i \in DOMAIN invoice' \ DOMAIN invoice : Added(o, invoice'[i])
  BY WriteInvoices DEF Tested
<1>2. \A i \in DOMAIN invoice : /\ invoice'[i].ref_type = invoice[i].ref_type
                                /\ invoice'[i].parent = invoice[i].parent
                                /\ invoice'[i].ticket = invoice[i].ticket
  BY <1>1 DEF SameBill
<1>3. ASSUME NEW i \in DOMAIN invoice'
      PROVE  IF invoice'[i].ref_type = "INSTALLMENT"
             THEN /\ invoice'[i].parent \in DOMAIN invoice'
                  /\ invoice'[invoice'[i].parent].ref_type # "INSTALLMENT"
                  /\ invoice'[invoice'[i].parent].ticket = invoice'[i].ticket
             ELSE invoice'[i].parent = 0
  <2>1. CASE i \in DOMAIN invoice
    BY <1>1, <1>2, <2>1 DEF Rooted
  <2>2. CASE i \notin DOMAIN invoice
    <3>1. CASE o.op = "create"
      <4>1. o.ref_type # "INSTALLMENT"
        BY <3>1 DEF Form, InvoiceForm, PaymentForm, PartialForm, FundForm, DepositForm, StopForm,
                    InvoiceTypes
      <4> QED BY <1>1, <2>2, <3>1, <4>1 DEF Added
    <3>2. CASE o.op = "reschedule"
      <4>1. o.invoice \in DOMAIN invoice /\ invoice[o.invoice].ref_type # "INSTALLMENT"
        BY <3>2 DEF Tested, PartialPaymentAccepted
      <4>2. /\ invoice'[i].ref_type = "INSTALLMENT" /\ invoice'[i].parent = o.invoice
            /\ invoice'[i].ticket = invoice[o.invoice].ticket
        BY <1>1, <2>2, <3>2 DEF Added
      <4> QED BY <1>1, <1>2, <4>1, <4>2
    <3> QED BY <1>1, <2>2, <3>1, <3>2 DEF Added
  <2> QED BY <2>1, <2>2
<1>4. ASSUME NEW i \in DOMAIN invoice PROVE CountsAs(i)' = CountsAs(i)
  <2>1. invoice[i].parent = 0 \/ invoice[i].parent \in DOMAIN invoice
    BY DEF Rooted
  <2> QED BY <1>2, <2>1 DEF CountsAs
<1> QED BY <1>3, <1>4 DEF Rooted

\* What an invoice counts as, by its own type.
LEMMA CountsAsOwn ==
  ASSUME Rooted, NEW i \in DOMAIN invoice, invoice[i].ref_type # "INSTALLMENT"
  PROVE  CountsAs(i) = invoice[i].ref_type
BY DEF Rooted, CountsAs

LEMMA SingleKept ==
  ASSUME TypeOK, NEW o \in Form, Tested(o), Write(o), Single
  PROVE  Single'
<1>1. /\ \A i \in DOMAIN invoice : SameBill(invoice[i], invoice'[i]) /\ Continues(invoice[i], invoice'[i])
      /\ \A i \in DOMAIN invoice' \ DOMAIN invoice : Added(o, invoice'[i])
      /\ o.op = "create" => DOMAIN invoice' = DOMAIN invoice \cup {Len(invoice) + 1}
  BY WriteInvoices DEF Tested
<1>2. \A i \in DOMAIN invoice : /\ SameSubject(invoice'[i], invoice[i])
                                /\ Live(i)' => Live(i)
  BY <1>1 DEF SameBill, Continues, SameSubject, Live
<1>3. \A i \in DOMAIN invoice' \ DOMAIN invoice :
         \/ invoice'[i].ref_type = "INSTALLMENT"
         \/ o.op = "create" /\ SameSubject(invoice'[i], o)
  BY <1>1 DEF Added, SameSubject
<1>4. \A i, j \in DOMAIN invoice' \ DOMAIN invoice : o.op = "create" => i = j
  BY <1>1
<1>5. ASSUME o.op = "create", o.ticket # None, o.ref_type # "OTHER",
             NEW j \in DOMAIN invoice, Live(j), SameSubject(o, invoice[j])
      PROVE  FALSE
  BY <1>5 DEF Tested, Duplicate, SameSubject
<1> SUFFICES ASSUME NEW i \in DOMAIN invoice', NEW j \in DOMAIN invoice', i # j, Live(i)', Live(j)',
                    invoice'[i].ref_type \notin {"OTHER", "INSTALLMENT"}, invoice'[i].ticket # None,
                    SameSubject(invoice'[i], invoice'[j])
             PROVE  FALSE
  BY DEF Single
<1>6. CASE i \in DOMAIN invoice /\ j \in DOMAIN invoice
  BY <1>2, <1>6 DEF Single, SameSubject
<1>7. CASE i \notin DOMAIN invoice /\ j \in DOMAIN invoice
  <2>1. o.op = "create" /\ SameSubject(invoice'[i], o)
    BY <1>3, <1>7
  <2>2. SameSubject(o, invoice[j]) /\ Live(j)
    BY <1>2, <1>7, <2>1 DEF SameSubject
  <2> QED BY <1>5, <1>7, <2>1, <2>2 DEF SameSubject
<1>8. CASE i \in DOMAIN invoice /\ j \notin DOMAIN invoice
  <2>1. invoice'[j].ref_type # "INSTALLMENT"
    BY DEF SameSubject
  <2>2. o.op = "create" /\ SameSubject(invoice'[j], o)
    BY <1>3, <1>8, <2>1
  <2>3. SameSubject(o, invoice[i]) /\ Live(i)
    BY <1>2, <1>8, <2>2 DEF SameSubject
  <2> QED BY <1>5, <1>8, <2>2, <2>3 DEF SameSubject
<1>9. CASE i \notin DOMAIN invoice /\ j \notin DOMAIN invoice
  <2>1. o.op = "create"
    BY <1>3, <1>9
  <2> QED BY <1>4, <1>9, <2>1
<1> QED BY <1>6, <1>7, <1>8, <1>9

\* What is issued of a type is paid or rescheduled, as SettlementCleared has it.
Cleared(t, type) == Issued(t, type) # {} /\ OpenUnpaid(t, {type}) = {}

CancelledForNothing(type) ==
  \E i \in DOMAIN invoice : invoice[i].ref_type = type /\ invoice[i].total = 0 /\ CancelledNow(i)

\* A type that is cleared stays cleared, but for an invoice over nothing that is cancelled.
LEMMA ClearedKept ==
  ASSUME TypeOK, NEW o \in Form, Tested(o), Write(o), Rooted, RowsMade,
         NEW t \in Ticket, NEW type \in Once \ {"OTHER"}, Cleared(t, type)
  PROVE  Cleared(t, type)' \/ CancelledForNothing(type)
<1>r. \A i \in DOMAIN invoice : invoice[i] \in InvoiceRow
  BY RowTypes
<1>t. type \notin {"OTHER", "INSTALLMENT"} /\ type \in Once
  BY DEF Once, InvoiceTypes
<1>n. \A i \in DOMAIN invoice : invoice[i].paid \in Nat /\ invoice[i].total \in Nat
  BY <1>r DEF InvoiceRow
<1>1. /\ DOMAIN invoice \subseteq DOMAIN invoice'
      /\ \A i \in DOMAIN invoice :
              /\ SameBill(invoice[i], invoice'[i]) /\ Continues(invoice[i], invoice'[i])
              /\ invoice'[i].status = "CANCELLED" =>
                   invoice[i].status = "CANCELLED" \/ Cancellable(i)
      /\ \A i \in DOMAIN invoice' \ DOMAIN invoice : Added(o, invoice'[i])
  BY WriteInvoices DEF Tested
<1>2. Rooted' /\ \A i \in DOMAIN invoice : CountsAs(i)' = CountsAs(i)
  BY RootedKept
<1>3. PICK k \in DOMAIN invoice : /\ invoice[k].ticket = t /\ invoice[k].ref_type = type
                                  /\ invoice[k].status # "CANCELLED"
  BY DEF Cleared, Issued
<1>4. \A i \in DOMAIN invoice : invoice[i].ticket = t /\ invoice[i].status = "OPEN"
                                  /\ CountsAs(i) = type => Paid(i)
  BY DEF Cleared, OpenUnpaid
<1>5. ASSUME NEW i \in DOMAIN invoice', invoice'[i].ticket = t, invoice'[i].status = "OPEN",
             CountsAs(i)' = type, ~ Paid(i)'
      PROVE  FALSE
  <2>1. CASE i \in DOMAIN invoice
    <3>1. invoice[i].ticket = t /\ invoice[i].status = "OPEN" /\ CountsAs(i) = type
      BY <1>1, <1>2, <1>5, <2>1 DEF SameBill, Continues
    <3>2. invoice[i].paid >= invoice[i].total
      BY <1>4, <2>1, <3>1 DEF Paid
    <3>3. invoice'[i].paid >= invoice[i].paid /\ invoice'[i].total = invoice[i].total
      BY <1>1, <2>1 DEF SameBill
    <3>4. invoice'[i].paid \in Nat
      <4>1. invoice' \in Seq(InvoiceRow)
        BY WriteTypes DEF Tested
      <4>2. invoice'[i] \in InvoiceRow
        BY <1>5, <4>1, ElementOfSeq
      <4> QED BY <4>2 DEF InvoiceRow
    <3> QED BY <1>5, <1>n, <2>1, <3>2, <3>3, <3>4 DEF Paid
  <2>2. CASE i \notin DOMAIN invoice /\ o.op = "create"
    <3>1. /\ invoice'[i].ref_type = o.ref_type /\ invoice'[i].ticket = o.ticket
          /\ invoice'[i].parent = 0
      BY <1>1, <2>2 DEF Added
    <3>2. o.ref_type = type /\ o.ticket = t
      BY <1>5, <3>1 DEF CountsAs
    <3>3. o.revision = 0 /\ invoice[k].revision = 0
      BY <1>3, <1>t, <2>2, <3>2 DEF Tested, FormMade, Made, RowsMade
    <3>4. Live(k)
      BY <1>3, <1>r DEF Live, InvoiceRow
    <3>5. t # None
      BY FinanceAssumption
    <3> QED BY <1>3, <1>t, <2>2, <3>2, <3>3, <3>4, <3>5 DEF Tested, Duplicate
  <2>3. CASE i \notin DOMAIN invoice /\ o.op = "reschedule"
    <3> DEFINE p == o.invoice
    <3>1. /\ p \in DOMAIN invoice /\ invoice[p].status = "OPEN"
          /\ invoice[p].ref_type # "INSTALLMENT" /\ o.amount < Remaining(p) /\ o.amount >= 1
      BY <2>3 DEF Tested, PartialPaymentAccepted
    <3>2. /\ invoice'[i].ref_type = "INSTALLMENT" /\ invoice'[i].parent = p
          /\ invoice'[i].ticket = invoice[p].ticket
      BY <1>1, <2>3 DEF Added
    <3>3. p # 0
      BY <3>1, RowTypes
    <3>4. invoice'[p].ref_type = type
      BY <1>5, <3>2, <3>3 DEF CountsAs
    <3>5. CountsAs(p) = type
      BY <1>1, <1>t, <3>1, <3>4, CountsAsOwn DEF SameBill
    <3>6. o.amount \in Nat
      BY <2>3 DEF Form, InvoiceForm, PaymentForm, PartialForm, FundForm, DepositForm, StopForm
    <3>7. ~ Paid(p)
      <4>1. o.amount < invoice[p].total - invoice[p].paid
        BY <3>1 DEF Remaining
      <4> QED BY <1>n, <3>1, <3>6, <4>1 DEF Paid
    <3> QED BY <1>4, <1>5, <3>1, <3>2, <3>5, <3>7
  <2> QED BY <1>1, <2>1, <2>2, <2>3 DEF Added
<1>6. CASE invoice'[k].status # "CANCELLED"
  <2>1. k \in DOMAIN invoice' /\ invoice'[k].ticket = t /\ invoice'[k].ref_type = type
    BY <1>1, <1>3 DEF SameBill
  <2> QED BY <1>5, <1>6, <2>1 DEF Cleared, Issued, OpenUnpaid
<1>7. CASE invoice'[k].status = "CANCELLED"
  <2>1. Cancellable(k)
    BY <1>1, <1>3, <1>7
  <2>2. Paid(k)
    BY <1>3, <1>4, <1>t, <2>1, CountsAsOwn DEF Cancellable
  <2>3. invoice[k].total = 0
    BY <1>n, <2>1, <2>2 DEF Cancellable, Paid
  <2> QED BY <1>3, <1>7, <2>1, <2>3 DEF CancelledForNothing, CancelledNow, Cancellable
<1> QED BY <1>6, <1>7

\* What is paid or rescheduled stays so, with the same exception.
PaidOff(t, type) == \E i \in Issued(t, type) : invoice[i].status = "RESCHEDULED" \/ Paid(i)

LEMMA PaidOffKept ==
  ASSUME TypeOK, NEW o \in Form, Tested(o), Write(o), NEW t, NEW type, PaidOff(t, type)
  PROVE  PaidOff(t, type)' \/ CancelledForNothing(type)
<1>1. PICK i \in DOMAIN invoice :
        /\ invoice[i].ticket = t /\ invoice[i].ref_type = type /\ invoice[i].status # "CANCELLED"
        /\ invoice[i].status = "RESCHEDULED" \/ Paid(i)
  BY DEF PaidOff, Issued
<1>2. /\ DOMAIN invoice \subseteq DOMAIN invoice'
      /\ SameBill(invoice[i], invoice'[i]) /\ Continues(invoice[i], invoice'[i])
      /\ invoice'[i].status = "CANCELLED" => invoice[i].status = "CANCELLED" \/ Cancellable(i)
  BY WriteInvoices DEF Tested
<1>3. invoice[i] \in InvoiceRow /\ invoice'[i] \in InvoiceRow
  <2>1. invoice' \in Seq(InvoiceRow)
    BY WriteTypes DEF Tested
  <2> QED BY <1>2, <2>1, RowTypes, ElementOfSeq
<1>4. /\ invoice[i].paid \in Nat /\ invoice[i].total \in Nat
      /\ invoice'[i].paid \in Nat /\ invoice'[i].total = invoice[i].total
      /\ invoice'[i].paid >= invoice[i].paid
      /\ invoice'[i].ticket = t /\ invoice'[i].ref_type = type
  BY <1>1, <1>2, <1>3 DEF InvoiceRow, SameBill
<1>5. CASE invoice'[i].status = "CANCELLED"
  BY <1>1, <1>2, <1>4, <1>5 DEF CancelledForNothing, CancelledNow, Cancellable, Paid
<1>6. CASE invoice'[i].status # "CANCELLED"
  <2>1. invoice'[i].status = "RESCHEDULED" \/ invoice'[i].paid >= invoice'[i].total
    BY <1>1, <1>2, <1>4 DEF Continues, Paid
  <2> QED BY <1>1, <1>2, <1>4, <1>6, <2>1 DEF PaidOff, Issued, Paid
<1> QED BY <1>5, <1>6

LEMMA SubmitTested ==
  ASSUME TypeOK, MadeInv, NEW b \in Form, FormMade(facts, b), NEW o, o = Recomputed(b), Accepted(o)
  PROVE  o \in Form /\ Tested(o)
<1>1. o \in Form /\ o.op = b.op
  BY RecomputedForm
<1>2. o.op = "create" => ~ Duplicate(o.ref_type, o.ticket, o.revision)
  BY DEF Accepted, CreateAccepted
<1>3. FormMade(facts, o)
  <2>1. CASE o.op = "create"
    <3>1. b \in InvoiceForm
      BY <1>1, <2>1 DEF Form, InvoiceForm, PaymentForm, PartialForm, FundForm, DepositForm, StopForm
    <3>2. b.subtotal \in Subtotals /\ b.rated \in Rated
      BY <1>1, <2>1 DEF FormMade
    <3> QED BY <3>1, <3>2, RecomputedMade
  <2> QED BY <2>1 DEF FormMade
<1>4. o.op = "reschedule" => PartialPaymentAccepted(o.fund, o.invoice, o.amount)
  BY DEF Accepted
<1> QED BY <1>1, <1>2, <1>3, <1>4, GuardRefers DEF Tested

LEMMA GuardTested ==
  ASSUME NEW o \in Form, FinanceGuard(o), FormMade(facts, o)
  PROVE  Tested(o)
<1>1. /\ o.op = "create" => ~ Duplicate(o.ref_type, o.ticket, o.revision)
      /\ o.op = "reschedule" => PartialPaymentAccepted(o.fund, o.invoice, o.amount)
  BY DEF FinanceGuard
<1> QED BY <1>1, GuardRefers DEF Tested

\* A step that keeps ~raced leaves the tables, or writes a form that was tested.
LEMMA StepsTested ==
  ASSUME TypeInv, MadeInv, [Next]_vars, ~raced'
  PROVE  ~raced /\ (UNCHANGED tables \/ \E o \in Form : Tested(o) /\ Write(o))
<1>0. TypeOK /\ PassedRefers /\ form \in [Desk -> Form \cup {None}]
  BY DEF TypeInv, TypeOK
<1>1. ASSUME NEW w \in WebDesk, Submit(w)
      PROVE  ~raced /\ (UNCHANGED tables \/ \E o \in Form : Tested(o) /\ Write(o))
  <2> DEFINE o == Recomputed(form[w])
  <2>1. form[w] \in Form /\ ~raced /\ FormMade(facts, form[w])
    BY <1>0, <1>1 DEF Submit, Desk, MadeInv
  <2>2. CASE Accepted(o)
    <3>1. Write(o)
      BY <1>1, <2>2 DEF Submit
    <3> HIDE DEF o
    <3>2. o \in Form /\ Tested(o)
      BY <1>0, <2>1, <2>2, SubmitTested DEF o
    <3> QED BY <2>1, <3>1, <3>2
  <2>3. CASE ~Accepted(o)
    BY <1>1, <2>1, <2>3 DEF Submit
  <2> QED BY <2>2, <2>3
<1>2. ASSUME NEW d \in Device, Commit(d)
      PROVE  ~raced /\ (UNCHANGED tables \/ \E o \in Form : Tested(o) /\ Write(o))
  <2>1. FinanceGuard(form[d]) /\ ~raced
    BY <1>2 DEF Commit
  <2>2. form[d] # None /\ form[d] \in Form /\ Write(form[d]) /\ FormMade(facts, form[d])
    BY <1>0, <1>2 DEF Commit, PassedRefers, Desk, MadeInv
  <2>3. Tested(form[d])
    BY <2>1, <2>2, GuardTested
  <2> QED BY <2>1, <2>2, <2>3
<1>3. (\E d \in Desk : Fill(d)) \/ (\E w \in WebDesk : Close(w)) \/ (\E d \in Device : Refuse(d) \/ Pass(d))
        \/ SaveFinanceOption \/ TicketMoves \/ UNCHANGED vars => UNCHANGED tables /\ raced' = raced
  BY DEF Fill, Close, Refuse, Pass, SaveFinanceOption, TicketMoves, vars, tables
<1> QED BY <1>1, <1>2, <1>3 DEF Next

LEMMA RowsMadeKept ==
  ASSUME TypeOK, NEW o \in Form, Tested(o), Write(o), RowsMade, FactsGrow
  PROVE  RowsMade'
<1>1. /\ \A i \in DOMAIN invoice : SameBill(invoice[i], invoice'[i])
      /\ \A i \in DOMAIN invoice' \ DOMAIN invoice : Added(o, invoice'[i])
  BY WriteInvoices DEF Tested
<1> SUFFICES ASSUME NEW i \in DOMAIN invoice', invoice'[i].ref_type # "INSTALLMENT"
             PROVE  Made(facts', invoice'[i])
  BY DEF RowsMade
<1>2. CASE i \in DOMAIN invoice
  <2>1. Made(facts', invoice[i])
    BY <1>1, <1>2, MadeKept DEF RowsMade, SameBill
  <2> QED BY <1>1, <1>2, <2>1 DEF SameBill, Made
<1>3. CASE i \notin DOMAIN invoice
  <2>1. o.op = "create" /\ Added(o, invoice'[i])
    BY <1>1, <1>3 DEF Added
  <2>2. Made(facts', o)
    BY <2>1, MadeKept DEF Tested, FormMade
  <2> QED BY <2>1, <2>2 DEF Added, Made
<1> QED BY <1>2, <1>3

LEMMA BillStep == TypeInv /\ MadeInv /\ BillInv /\ [Next]_vars => BillInv'
<1> SUFFICES ASSUME TypeInv, MadeInv, BillInv, [Next]_vars, ~raced'
             PROVE  (Rooted /\ RowsMade /\ Single)'
  BY DEF BillInv
<1>1. ~raced /\ (UNCHANGED tables \/ \E o \in Form : Tested(o) /\ Write(o))
  BY StepsTested
<1>2. Rooted /\ RowsMade /\ Single /\ TypeOK
  BY <1>1 DEF BillInv, TypeInv
<1>3. FactsGrow
  BY <1>2, FactsKept
<1>4. CASE UNCHANGED tables
  <2>1. Rooted' /\ Single'
    BY <1>2, <1>4 DEF tables, Rooted, Single, Live, SameSubject
  <2>2. RowsMade'
    BY <1>2, <1>3, <1>4, MadeKept DEF tables, RowsMade
  <2> QED BY <2>1, <2>2
<1>5. ASSUME NEW o \in Form, Tested(o), Write(o) PROVE (Rooted /\ RowsMade /\ Single)'
  BY <1>2, <1>3, <1>5, RootedKept, RowsMadeKept, SingleKept
<1> QED BY <1>1, <1>4, <1>5

LEMMA BillAlways == Spec => [](TypeInv /\ MadeInv /\ BillInv)
<1>1. Init => MadeInv /\ BillInv
  BY DEF Init, MadeInv, BillInv, Rooted, RowsMade, Single
<1> QED BY <1>1, TypeInit, TypeStep, MadeStep, BillStep, PTL DEF Spec

\* A ticket never has two live invoices of one type and revision, however many desks
\* issue it at once or send it twice, as long as no event was written after its
\* guard had ceased to hold.
THEOREM OneInvoiceIsLive == Spec => []OneLiveInvoice
<1>1. BillInv => OneLiveInvoice
  BY DEF BillInv, Single, OneLiveInvoice, SameSubject
<1> QED BY <1>1, BillAlways, PTL

\* What is cleared or paid off stays so in every step.
LEMMA ClearedStep ==
  ASSUME TypeInv, MadeInv, BillInv, [Next]_vars, ~raced', NEW t \in Ticket, NEW type \in Once \ {"OTHER"}
  PROVE  /\ Cleared(t, type) => Cleared(t, type)' \/ CancelledForNothing(type)
         /\ PaidOff(t, type) => PaidOff(t, type)' \/ CancelledForNothing(type)
<1>1. ~raced /\ (UNCHANGED tables \/ \E o \in Form : Tested(o) /\ Write(o))
  BY StepsTested
<1>2. Rooted /\ RowsMade /\ TypeOK
  BY <1>1 DEF BillInv, TypeInv
<1>3. CASE UNCHANGED tables
  BY <1>3 DEF tables, Cleared, PaidOff, Issued, OpenUnpaid, CountsAs, Paid
<1> QED BY <1>1, <1>2, <1>3, ClearedKept, PaidOffKept

\* An order that is cleared for shipping stays cleared, whatever is sent late: no
\* second settlement is issued, no installment is left open and no paid settlement is
\* cancelled; the exceptions are an event written after its guard ceased to hold and
\* an invoice over nothing that is cancelled.
THEOREM ClearedOrdersStayCleared == Spec => ClearedStaysCleared
<1>1. TypeInv /\ MadeInv /\ BillInv /\ [Next]_vars =>
        [\A t \in Ticket : SettlementCleared(t) =>
           \/ SettlementCleared(t)' \/ raced'
           \/ \E i \in DOMAIN invoice : invoice[i].total = 0 /\ CancelledNow(i)]_vars
  <2> SUFFICES ASSUME TypeInv, MadeInv, BillInv, [Next]_vars, ~raced', NEW t \in Ticket,
                      SettlementCleared(t)
               PROVE  \/ SettlementCleared(t)'
                      \/ \E i \in DOMAIN invoice : invoice[i].total = 0 /\ CancelledNow(i)
    BY DEF TypeInv
  <2>1. "SETTLEMENT" \in Once \ {"OTHER"}
    BY DEF Once, InvoiceTypes
  <2>2. Cleared(t, "SETTLEMENT") => Cleared(t, "SETTLEMENT")' \/ CancelledForNothing("SETTLEMENT")
    BY <2>1, ClearedStep
  <2> QED BY <2>2 DEF SettlementCleared, Cleared, CancelledForNothing
<1> QED BY <1>1, BillAlways, PTL DEF Spec, ClearedStaysCleared
=============================================================================
