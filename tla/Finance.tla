------------------------------ MODULE Finance ------------------------------
(***************************************************************************)
(* Invoices, incoming funds and allocations (lib/server/finance.ts and     *)
(* lib/validations/finance.ts; desktop/finance.rs states the same rules).  *)
(*                                                                         *)
(* An operator works at a desk on a form filled from what the desk saw.  A *)
(* web desk sends the form to a handler that checks and writes inside one  *)
(* write transaction.  A device writes the form down as an outbox event;   *)
(* when it is pushed, finance_guard reads the cloud again in a round trip  *)
(* of its own and a later round trip runs the statements.                  *)
(*                                                                         *)
(* An allocation row is only ever inserted, so the two sums the statements *)
(* take over fund_allocations are kept as the totals `paid` of an invoice  *)
(* and `used` of a fund.  One finance option of each kind, identifiers in  *)
(* the order of insertion.  Not modelled: due dates, numbers, proof photos,*)
(* the audit log, the notification rows.                                   *)
(***************************************************************************)
EXTENDS Integers, Sequences, FiniteSets, FiniteSetsExt

CONSTANTS
  WebDesk, Device,      \* who fills in forms: browsers, and offline devices
  Ticket, Client,       \* sample requests and clients
  ClientOf,             \* ClientOf[t]: the client of ticket t
  None,                 \* no ticket, no client ('' in the tables), no form
  Billed,               \* the invoice types that are issued in this instance
  Subtotals, Amounts,   \* what an invoice asks for, what a fund brings
  Rated,                \* whether the discount and the tax apply
  Parts,                \* what a partial payment pays
  OptionAtStart,        \* the finance options at the start,
  Editable, OptionEdits,\* the kinds Settings changes, and what it saves
  MaxInvoices, MaxFunds,
  FactsAtStart,         \* facts at the start
  MaxLost               \* answers that get lost on their way to a browser

Desk == WebDesk \cup Device
InvoiceTypes == {"SAMPLE_FEE", "REVISION_FEE", "TEST_FEE", "DUMMY_FEE",
                 "DP_PRODUCTION_LEGAL", "SETTLEMENT", "SHIPPING", "STORAGE_FEE", "OTHER"}
Facts == [is_paid_sample: BOOLEAN, is_test_requested: BOOLEAN, revision_fee: Nat,
          revision_index: Nat, dummy_round: Nat \cup {None}, mou_accepted: BOOLEAN,
          batch_packed: BOOLEAN, storage_fee: Nat]

RATE_BP_MAX == 10000
OptionKinds == {"DISCOUNT", "TAX", "INSTALLMENT_PLAN"}
\* What Settings accepts: a rate up to 100%, 1 to 24 installments.
OptionRow == [rate_bp: 0 .. RATE_BP_MAX, installment_count: 1 .. 24, is_active: BOOLEAN]

ASSUME FinanceAssumption ==
  /\ WebDesk \cap Device = {} /\ None \notin Ticket \cup Client
  /\ ClientOf \in [Ticket -> Client] /\ Billed \subseteq InvoiceTypes
  /\ Rated \subseteq BOOLEAN /\ Subtotals \subseteq Nat \ {0} /\ Amounts \subseteq Nat \ {0} /\ Parts \subseteq Nat \ {0}
  /\ FactsAtStart \in [Ticket -> Facts] /\ OptionAtStart \in [OptionKinds -> OptionRow]
  /\ Editable \subseteq OptionKinds /\ OptionEdits \subseteq OptionRow
  /\ MaxInvoices \in Nat /\ MaxFunds \in Nat /\ MaxLost \in Nat

VARIABLES
  facts,    \* facts[t]: what the rest of the order says of ticket t
  option,   \* the finance options: "DISCOUNT", "TAX" and "INSTALLMENT_PLAN"
  invoice,  \* rows of invoices
  fund,     \* rows of incoming_funds
  form,     \* form[d]: the form desk d has filled in, or None
  passed,   \* devices whose event has passed finance_guard and is not yet written
  raced,    \* history: an event was written although its guard had ceased to hold
  lost      \* answers lost so far

tables == <<invoice, fund>>
vars == <<facts, option, invoice, fund, form, passed, raced, lost>>

---------------------------------------------------------------------------
(* Rows *)

InvoiceRow == [ref_type: InvoiceTypes \cup {"INSTALLMENT"}, ticket: Ticket \cup {None},
               client: Client, revision: Nat, total: Nat, paid: Nat,
               status: {"OPEN", "RESCHEDULED", "CANCELLED"}, parent: Nat]

FundRow == [client: Client \cup {None}, amount: Nat, used: Nat,
            status: {"ACTIVE", "VOID"}, deposit: BOOLEAN]

Remaining(i) == invoice[i].total - invoice[i].paid
Unallocated(f) == fund[f].amount - fund[f].used
Paid(i) == invoice[i].paid >= invoice[i].total
Live(i) == invoice[i].status \in {"OPEN", "RESCHEDULED"}

---------------------------------------------------------------------------
(* Amounts *)

\* Rupiah times basis points, half a rupiah rounds up.
ApplyRate(amount, bp) == (amount * bp + 5000) \div RATE_BP_MAX

\* The discount comes off before the taxes; one line of each.
ComputeInvoice(subtotal, discount, tax) ==
  LET taxable == subtotal - ApplyRate(subtotal, discount)
  IN taxable + ApplyRate(taxable, tax)

\* Interest once over what is left, equal shares, the last takes the rounding.
Installments(left, bp, count) ==
  LET total == left + ApplyRate(left, bp)
      share == total \div count
  IN [no \in 1 .. count |-> IF no = count THEN total - share * (count - 1) ELSE share]

---------------------------------------------------------------------------
(* What an invoice may be for *)

\* The type under which an invoice counts: an installment counts as its parent.
CountsAs(i) == IF invoice[i].parent = 0 THEN invoice[i].ref_type
               ELSE invoice[invoice[i].parent].ref_type

OpenUnpaid(t, types) ==
  {i \in DOMAIN invoice : /\ invoice[i].ticket = t /\ invoice[i].status = "OPEN"
                          /\ CountsAs(i) \in types /\ ~Paid(i)}

Issued(t, type) == {i \in DOMAIN invoice : /\ invoice[i].ticket = t
                                           /\ invoice[i].ref_type = type
                                           /\ invoice[i].status # "CANCELLED"}

SettlementCleared(t) == Issued(t, "SETTLEMENT") # {} /\ OpenUnpaid(t, {"SETTLEMENT"}) = {}

InvoiceTypeError(type, t) ==
  \/ type \notin InvoiceTypes
  \/ /\ type # "OTHER"
     /\ \/ t = None
        \/ type = "SAMPLE_FEE" /\ ~facts[t].is_paid_sample
        \/ type = "TEST_FEE" /\ ~facts[t].is_test_requested
        \/ type = "REVISION_FEE" /\ facts[t].revision_fee < 1
        \/ type = "DUMMY_FEE" /\ facts[t].dummy_round = None
        \/ type = "DP_PRODUCTION_LEGAL" /\ ~facts[t].mou_accepted
        \/ type \in {"SETTLEMENT", "SHIPPING"} /\ ~facts[t].batch_packed
        \/ type = "STORAGE_FEE" /\ (~SettlementCleared(t) \/ facts[t].storage_fee < 1)

InvoiceRevisionIndex(type, t) ==
  IF t = None THEN 0
  ELSE IF type = "REVISION_FEE" THEN facts[t].revision_index
  ELSE IF type = "DUMMY_FEE" /\ facts[t].dummy_round # None THEN facts[t].dummy_round
  ELSE 0

\* Mutant: an invoice that is paid no longer counts.
DuplicateUnpaid(type, t, revision) ==
  /\ t # None /\ type # "OTHER"
  /\ \E i \in DOMAIN invoice : /\ invoice[i].ticket = t /\ invoice[i].ref_type = type
                               /\ invoice[i].revision = revision /\ Live(i) /\ ~Paid(i)

Duplicate(type, t, revision) ==
  /\ t # None /\ type # "OTHER"
  /\ \E i \in DOMAIN invoice : /\ invoice[i].ticket = t /\ invoice[i].ref_type = type
                               /\ invoice[i].revision = revision /\ Live(i)

---------------------------------------------------------------------------
(* The rules that the forms, the handlers and the guard share *)

\* Mutant: what the fund has left is not looked at.
AllocationUncovered(f, i, amount) ==
  /\ i \in DOMAIN invoice /\ invoice[i].status = "OPEN"
  /\ f \in DOMAIN fund /\ fund[f].status = "ACTIVE"
  /\ amount >= 1 /\ amount = Remaining(i)

AllocationAccepted(f, i, amount) ==
  /\ i \in DOMAIN invoice /\ invoice[i].status = "OPEN"
  /\ f \in DOMAIN fund /\ fund[f].status = "ACTIVE"
  /\ amount >= 1 /\ amount = Remaining(i) /\ amount <= Unallocated(f)

PartialPaymentAccepted(f, i, amount) ==
  /\ i \in DOMAIN invoice /\ invoice[i].status = "OPEN"
  /\ f \in DOMAIN fund /\ fund[f].status = "ACTIVE"
  /\ invoice[i].ref_type # "INSTALLMENT"
  /\ amount >= 1 /\ amount < Remaining(i) /\ amount <= Unallocated(f)

DepositAccepted(f, client) ==
  /\ f \in DOMAIN fund /\ fund[f].status = "ACTIVE" /\ ~fund[f].deposit
  /\ client # None /\ Unallocated(f) >= 1

\* Mutant: a paid invoice may be cancelled.
CancellablePaid(i) == i \in DOMAIN invoice /\ invoice[i].status = "OPEN"

Cancellable(i) == i \in DOMAIN invoice /\ invoice[i].status = "OPEN" /\ invoice[i].paid = 0
\* Mutant: a spent fund may be voided.
VoidableSpent(f) == f \in DOMAIN fund /\ fund[f].status = "ACTIVE"

Voidable(f) == f \in DOMAIN fund /\ fund[f].status = "ACTIVE" /\ fund[f].used = 0
ActivePlan == option["INSTALLMENT_PLAN"].is_active

---------------------------------------------------------------------------
(* Forms: what a desk can send, given what it sees now *)

InvoiceForm == [op: {"create"}, ref_type: InvoiceTypes, ticket: Ticket \cup {None},
                client: Client, revision: Nat, subtotal: Nat, rated: BOOLEAN, total: Nat]
PaymentForm == [op: {"allocate"}, fund: Nat, invoice: Nat, amount: Nat]
PartialForm == [op: {"reschedule"}, fund: Nat, invoice: Nat, amount: Nat, plan: OptionRow,
                left: Nat]
FundForm == [op: {"record"}, client: Client \cup {None}, amount: Nat]
DepositForm == [op: {"deposit"}, fund: Nat, client: Client]
StopForm == [op: {"cancel", "void"}, row: Nat]
Form == InvoiceForm \cup PaymentForm \cup PartialForm \cup FundForm \cup DepositForm \cup StopForm

\* The total an invoice form comes to with the options as they are now.
TotalNow(subtotal, rated) ==
  IF rated THEN ComputeInvoice(subtotal, option["DISCOUNT"].rate_bp, option["TAX"].rate_bp)
  ELSE subtotal

RatesActive == option["DISCOUNT"].is_active /\ option["TAX"].is_active

InvoiceForms ==
  {[op |-> "create", ref_type |-> type, ticket |-> t, client |-> c,
    revision |-> InvoiceRevisionIndex(type, t), subtotal |-> s, rated |-> r,
    total |-> TotalNow(s, r)] :
     type \in Billed, t \in Ticket \cup {None}, c \in Client, s \in Subtotals, r \in Rated}

\* The pickers offer an invoice of the client of the fund, if the fund has one.
Pickable(f, i) == fund[f].client = None \/ invoice[i].client = fund[f].client

PaymentForms ==
  {[op |-> "allocate", fund |-> f, invoice |-> i, amount |-> Remaining(i)] :
     f \in DOMAIN fund, i \in DOMAIN invoice}

PartialForms ==
  {[op |-> "reschedule", fund |-> f, invoice |-> i, amount |-> a,
    plan |-> option["INSTALLMENT_PLAN"], left |-> Remaining(i) - a] :
     f \in DOMAIN fund, i \in DOMAIN invoice, a \in Parts}

FundForms == [op: {"record"}, client: Client \cup {None}, amount: Amounts]
DepositForms == [op: {"deposit"}, fund: DOMAIN fund, client: Client]
StopForms == [op: {"cancel"}, row: DOMAIN invoice] \cup [op: {"void"}, row: DOMAIN fund]

\* Room for what the form inserts (MaxInvoices, MaxFunds).
Fits(o) == /\ o.op = "create" => Len(invoice) < MaxInvoices
           /\ o.op = "reschedule" => Len(invoice) + o.plan.installment_count <= MaxInvoices
           /\ o.op = "record" => Len(fund) < MaxFunds

---------------------------------------------------------------------------
(* Handlers: what each accepts, and the statements it runs *)

\* The web handlers work out anew what the form shows; a device sends its own.
Recomputed(o) ==
  CASE o.op = "create" ->
         [o EXCEPT !.client = IF o.ticket = None THEN @ ELSE ClientOf[o.ticket],
                   !.revision = InvoiceRevisionIndex(o.ref_type, o.ticket),
                   !.total = TotalNow(o.subtotal, o.rated)]
    [] o.op = "reschedule" ->
         [o EXCEPT !.plan = option["INSTALLMENT_PLAN"], !.left = Remaining(o.invoice) - o.amount]
    [] o.op = "deposit" ->
         [o EXCEPT !.client = IF fund[o.fund].client = None THEN @ ELSE fund[o.fund].client]
    [] OTHER -> o

CreateAccepted(o) == /\ ~InvoiceTypeError(o.ref_type, o.ticket)
                     /\ ~Duplicate(o.ref_type, o.ticket, o.revision)
                     /\ o.rated => RatesActive

InsertInvoice(o) ==
  /\ invoice' = Append(invoice,
       [ref_type |-> o.ref_type, ticket |-> o.ticket, client |-> o.client,
        revision |-> o.revision, total |-> o.total, paid |-> 0, status |-> "OPEN", parent |-> 0])
  /\ UNCHANGED fund

CancelRecord(o) ==
  \/ /\ o.op = "cancel"
     /\ invoice' = IF Cancellable(o.row) THEN [invoice EXCEPT ![o.row].status = "CANCELLED"]
                   ELSE invoice
     /\ UNCHANGED fund
  \/ /\ o.op = "void"
     /\ fund' = IF Voidable(o.row) THEN [fund EXCEPT ![o.row].status = "VOID"] ELSE fund
     /\ UNCHANGED invoice

RecordIncomingFund(o) ==
  /\ fund' = Append(fund, [client |-> o.client, amount |-> o.amount, used |-> 0,
                           status |-> "ACTIVE", deposit |-> FALSE])
  /\ UNCHANGED invoice

AllocateFund(o) ==
  /\ invoice' = [invoice EXCEPT ![o.invoice].paid = @ + o.amount]
  /\ fund' = [fund EXCEPT ![o.fund].used = @ + o.amount]

AcceptPartialPayment(o) ==
  LET part == Installments(o.left, o.plan.rate_bp, o.plan.installment_count)
      old == Len(invoice)
      parent == invoice[o.invoice]
      Installment(no) == [parent EXCEPT !.ref_type = "INSTALLMENT", !.total = part[no],
                                        !.paid = 0, !.status = "OPEN", !.parent = o.invoice]
  IN /\ invoice' =
          [i \in 1 .. old + o.plan.installment_count |->
             IF i > old THEN Installment(i - old)
             ELSE IF i = o.invoice
             THEN [parent EXCEPT !.paid = @ + o.amount,
                                 !.status = IF @ = "OPEN" THEN "RESCHEDULED" ELSE @]
             ELSE invoice[i]]
     /\ fund' = [fund EXCEPT ![o.fund].used = @ + o.amount]

ConfirmDeposit(o) ==
  /\ fund' = IF /\ fund[o.fund].status = "ACTIVE" /\ ~fund[o.fund].deposit
                /\ fund[o.fund].client \in {None, o.client}
             THEN [fund EXCEPT ![o.fund].client = o.client, ![o.fund].deposit = TRUE]
             ELSE fund
  /\ UNCHANGED invoice

Accepted(o) ==
  \/ o.op = "create" /\ CreateAccepted(o)
  \/ o.op = "cancel" /\ Cancellable(o.row)
  \/ o.op = "void" /\ Voidable(o.row)
  \/ o.op = "record"
  \/ o.op = "allocate" /\ AllocationAccepted(o.fund, o.invoice, o.amount)
  \/ o.op = "reschedule" /\ PartialPaymentAccepted(o.fund, o.invoice, o.amount) /\ ActivePlan
  \/ o.op = "deposit" /\ DepositAccepted(o.fund, o.client)

\* What the cloud is asked before a device's event is written.
FinanceGuard(o) ==
  \/ o.op = "create" /\ ~Duplicate(o.ref_type, o.ticket, o.revision)
  \/ o.op = "cancel" /\ Cancellable(o.row)
  \/ o.op = "void" /\ Voidable(o.row)
  \/ o.op = "record"
  \/ o.op = "allocate" /\ AllocationAccepted(o.fund, o.invoice, o.amount)
  \/ /\ o.op = "reschedule" /\ PartialPaymentAccepted(o.fund, o.invoice, o.amount)
     /\ o.left = Remaining(o.invoice) - o.amount
  \/ /\ o.op = "deposit" /\ DepositAccepted(o.fund, o.client)
     /\ fund[o.fund].client \in {None, o.client}

Write(o) ==
  \/ o.op = "create" /\ InsertInvoice(o)
  \/ CancelRecord(o)
  \/ o.op = "record" /\ RecordIncomingFund(o)
  \/ o.op = "allocate" /\ AllocateFund(o)
  \/ o.op = "reschedule" /\ AcceptPartialPayment(o)
  \/ o.op = "deposit" /\ ConfirmDeposit(o)

---------------------------------------------------------------------------
(* Steps *)

\* A desk opens a form and fills it in from the rows it sees.
Fill(d) ==
  /\ form[d] = None
  /\ \E o \in InvoiceForms \cup PaymentForms \cup PartialForms \cup FundForms
                \cup DepositForms \cup StopForms :
       /\ Accepted(Recomputed(o)) /\ Recomputed(o) = o /\ Fits(o)
       /\ o.op \in {"allocate", "reschedule"} => Pickable(o.fund, o.invoice)
       /\ form' = [form EXCEPT ![d] = o]
  /\ UNCHANGED <<facts, option, tables, passed, raced, lost>>

\* A browser leaves the form.
Close(w) ==
  /\ form[w] # None
  /\ form' = [form EXCEPT ![w] = None]
  /\ UNCHANGED <<facts, option, tables, passed, raced, lost>>

\* A browser sends its form: checked and written in one transaction, or refused.
\* When the answer gets lost the form stays open and can be sent again.
Submit(w) ==
  /\ form[w] # None /\ Fits(form[w])
  /\ LET o == Recomputed(form[w])
     IN IF Accepted(o) THEN Write(o) ELSE UNCHANGED tables
  /\ \/ form' = [form EXCEPT ![w] = None] /\ UNCHANGED lost
     \/ lost < MaxLost /\ lost' = lost + 1 /\ UNCHANGED form
  /\ UNCHANGED <<facts, option, passed, raced>>

\* finance_guard refuses the event of a device: a conflict, nothing is written.
Refuse(d) ==
  /\ form[d] # None /\ d \notin passed /\ ~FinanceGuard(form[d])
  /\ form' = [form EXCEPT ![d] = None]
  /\ UNCHANGED <<facts, option, tables, passed, raced, lost>>

\* ... or lets it pass.
Pass(d) ==
  /\ form[d] # None /\ d \notin passed /\ FinanceGuard(form[d])
  /\ passed' = passed \cup {d}
  /\ UNCHANGED <<facts, option, tables, form, raced, lost>>

\* The statements of an event that has passed run in one transaction.
Commit(d) ==
  /\ d \in passed /\ Fits(form[d])
  /\ Write(form[d])
  /\ raced' = (raced \/ ~FinanceGuard(form[d]))
  /\ passed' = passed \ {d}
  /\ form' = [form EXCEPT ![d] = None]
  /\ UNCHANGED <<facts, option, lost>>

\* Settings change an option; invoices keep the rates they were made with.
SaveFinanceOption ==
  /\ \E kind \in Editable, o \in OptionEdits : option' = [option EXCEPT ![kind] = o]
  /\ UNCHANGED <<facts, tables, form, passed, raced, lost>>

\* The rest of the order moves on: the MoU is accepted, the batch packed, storage
\* accrues.
TicketMoves ==
  /\ \E t \in Ticket :
       \/ ~facts[t].mou_accepted /\ facts' = [facts EXCEPT ![t].mou_accepted = TRUE]
       \/ /\ facts[t].mou_accepted /\ ~facts[t].batch_packed
          /\ facts' = [facts EXCEPT ![t].batch_packed = TRUE]
       \/ /\ facts[t].batch_packed /\ facts[t].storage_fee = 0
          /\ facts' = [facts EXCEPT ![t].storage_fee = 1]
  /\ UNCHANGED <<option, tables, form, passed, raced, lost>>

Init ==
  /\ facts = FactsAtStart
  /\ option = OptionAtStart
  /\ invoice = <<>> /\ fund = <<>>
  /\ form = [d \in Desk |-> None]
  /\ passed = {} /\ raced = FALSE /\ lost = 0

Next ==
  \/ \E d \in Desk : Fill(d)
  \/ \E w \in WebDesk : Close(w) \/ Submit(w)
  \/ \E d \in Device : Refuse(d) \/ Pass(d) \/ Commit(d)
  \/ SaveFinanceOption \/ TicketMoves

Spec == Init /\ [][Next]_vars

---------------------------------------------------------------------------
(* Invariants *)

TypeOK ==
  /\ facts \in [Ticket -> Facts]
  /\ option \in [OptionKinds -> OptionRow]
  /\ invoice \in Seq(InvoiceRow) /\ fund \in Seq(FundRow)
  /\ form \in [Desk -> Form \cup {None}]
  /\ passed \subseteq Device /\ raced \in BOOLEAN /\ lost \in 0 .. MaxLost

\* No invoice is paid beyond its total and no fund is spent twice, whatever two
\* desks do at once, until an event is written after its guard has ceased to hold.
NeverOverpaid == ~raced => /\ \A i \in DOMAIN invoice : invoice[i].paid <= invoice[i].total
                           /\ \A f \in DOMAIN fund : fund[f].used <= fund[f].amount

\* A cancelled invoice has no payment and a voided fund has paid nothing.
StoppedRowsHoldNoMoney ==
  ~raced => /\ \A i \in DOMAIN invoice : invoice[i].status = "CANCELLED" => invoice[i].paid = 0
            /\ \A f \in DOMAIN fund : fund[f].status = "VOID" => fund[f].used = 0

\* One live invoice of a type and revision for a ticket, also when two desks
\* issue it at once or a browser sends it twice.
OneLiveInvoice ==
  ~raced => \A i, j \in DOMAIN invoice :
              /\ i # j /\ Live(i) /\ Live(j)
              /\ invoice[i].ref_type \notin {"OTHER", "INSTALLMENT"}
              /\ invoice[i].ticket # None
              => <<invoice[i].ticket, invoice[i].ref_type, invoice[i].revision>> #
                 <<invoice[j].ticket, invoice[j].ref_type, invoice[j].revision>>

InstallmentsOf(p) == {i \in DOMAIN invoice : invoice[i].parent = p}

\* SettlementCleared as its comment in validations/finance.ts has it: the
\* settlement is paid in full, its installments included.
PaidInFull(i) == CASE invoice[i].status = "OPEN" -> Paid(i)
                   [] invoice[i].status = "RESCHEDULED" ->
                        \A j \in InstallmentsOf(i) : invoice[j].status = "OPEN" /\ Paid(j)
                   [] OTHER -> FALSE

\* In no run: the code does not keep this (README, Known divergences).
SettledInFull ==
  ~raced => \A t \in Ticket : SettlementCleared(t) =>
              \A i \in Issued(t, "SETTLEMENT") : PaidInFull(i)

\* In no run: the code does not keep this (README, Known divergences).
\* NeverOverpaid without the proviso: the comment in push_events says two devices
\* that pay the same invoice become a conflict.
PaidTwiceConflicts == \A i \in DOMAIN invoice : invoice[i].paid <= invoice[i].total

---------------------------------------------------------------------------
(* Action properties *)

CancelledNow(i) == invoice[i].status = "OPEN" /\ invoice'[i].status = "CANCELLED"

\* An order that is cleared for shipping stays cleared: no form sent late takes it
\* back.  The one exception is an invoice with nothing to pay that is cancelled.
ClearedStaysCleared ==
  [][\A t \in Ticket : SettlementCleared(t) =>
       \/ SettlementCleared(t)' \/ raced'
       \/ \E i \in DOMAIN invoice : invoice[i].total = 0 /\ CancelledNow(i)]_vars

\* The client of a fund, once known, never changes, and a deposit is kept once:
\* also between two desks that confirm it for two clients at the same time.
OwnerKept ==
  [][\A f \in DOMAIN fund : /\ fund[f].client # None => fund'[f].client = fund[f].client
                            /\ fund[f].deposit => fund'[f].deposit]_vars

\* In no run: the code does not keep this (README, Known divergences).
\* A deposit pays invoices of its client only ("spend a deposit on one of the
\* client's invoices", FinanceWorkspace.tsx).
DepositPaysItsClient ==
  [][\A f \in DOMAIN fund, i \in DOMAIN invoice :
       /\ fund[f].deposit /\ fund'[f].used > fund[f].used
       /\ invoice'[i].paid > invoice[i].paid
       => invoice[i].client = fund[f].client]_vars
=============================================================================
