------------------------------- MODULE Order -------------------------------
(***************************************************************************)
(* An order from the MoU to the client's answer, with its money: Finance   *)
(* and Production over one set of tables.  What one of them takes from     *)
(* outside is here what the other one's tables say (mouState and ship      *)
(* state in lib/server/production.ts, InvoiceTicket in lib/server/         *)
(* finance.ts), so neither can move without the other seeing it.           *)
(***************************************************************************)
EXTENDS Integers, Sequences, FiniteSets

CONSTANTS
  \* of Finance
  Cashier, CashDevice, Client, ClientOf, Billed, Subtotals, Amounts, Rated, Parts,
  OptionAtStart, Editable, OptionEdits, MaxInvoices, MaxFunds, FactsAtStart, MaxCashLost,
  \* of Production
  WebDesk, Device, Paths, LegalSteps, Plans, Methods,
  MaxMou, MaxBatches, MaxOrders, MaxEta, MaxShipments, MaxRevisions, MaxSchedules, MaxLost,
  Ticket, None

VARIABLES option, invoice, fund, cash, cashPassed, cashRaced, cashLost,
          dummyReady, mou, batch, po, shipment, claim, handed, form, passed, raced, lost

moneyVars == <<option, invoice, fund, cash, cashPassed, cashRaced, cashLost>>
floorVars == <<mou, batch, po, shipment, claim, handed, form, passed, raced, lost>>
vars == <<moneyVars, floorVars, dummyReady>>

Packed(t) == {b \in DOMAIN batch : mou[batch[b].mou].ticket = t /\ batch[b].stages_done = 4}

\* What an invoice asks of the production tables.
InvoiceTicket ==
  [t \in Ticket |-> [FactsAtStart[t] EXCEPT
     !.mou_accepted = \E m \in DOMAIN mou : mou[m].ticket = t /\ mou[m].status = "ACCEPTED",
     !.batch_packed = Packed(t) # {},
     !.storage_fee = IF \E b \in Packed(t) : batch[b].overdue THEN 1 ELSE 0]]

\* The instances are of the modules that extend Finance and Production by what is proved
\* about them: OrderProofs relies on their invariants.
F == INSTANCE FinanceProofs WITH facts <- InvoiceTicket, WebDesk <- Cashier, Device <- CashDevice,
       MaxLost <- MaxCashLost, form <- cash, passed <- cashPassed, raced <- cashRaced, lost <- cashLost

\* The down payment is paid, or rescheduled.
DpCleared(t) == \E i \in F!Issued(t, "DP_PRODUCTION_LEGAL") :
                  invoice[i].status = "RESCHEDULED" \/ F!Paid(i)

\* What the gates of production ask of the invoices.
ShipState ==
  [t \in Ticket |->
    [dp_cleared |-> DpCleared(t),
     settlement_issued |-> F!Issued(t, "SETTLEMENT") # {},
     settlement_cleared |-> F!SettlementCleared(t),
     ship_unpaid |-> F!OpenUnpaid(t, {"SETTLEMENT", "SHIPPING", "STORAGE_FEE"}) # {},
     storage_billed |-> F!Issued(t, "STORAGE_FEE") # {},
     dummy_ready |-> dummyReady[t]]]

M == INSTANCE ProductionProofs WITH outside <- ShipState

\* The constants of both modules, and an order that starts before its MoU.
ASSUME OrderAssumption ==
  /\ F!FinanceAssumption /\ M!ProductionAssumption
  /\ \A t \in Ticket : /\ ~FactsAtStart[t].mou_accepted /\ ~FactsAtStart[t].batch_packed
                        /\ FactsAtStart[t].storage_fee = 0

FinanceMoves ==
  /\ UNCHANGED <<floorVars, dummyReady>>
  /\ \/ \E d \in Cashier \cup CashDevice : F!Fill(d)
     \/ \E w \in Cashier : F!Close(w) \/ F!Submit(w)
     \/ \E d \in CashDevice : F!Refuse(d) \/ F!Pass(d) \/ F!Commit(d)
     \/ F!SaveFinanceOption

ProductionMoves == UNCHANGED <<moneyVars, dummyReady>> /\ M!DeskStep

\* The client approves the dummy (components of the sample request, out of scope here).
DummyApproved ==
  /\ \E t \in Ticket : ~dummyReady[t] /\ dummyReady' = [dummyReady EXCEPT ![t] = TRUE]
  /\ UNCHANGED <<moneyVars, floorVars>>

Init ==
  /\ option = OptionAtStart /\ invoice = <<>> /\ fund = <<>>
  /\ cash = [d \in Cashier \cup CashDevice |-> None]
  /\ cashPassed = {} /\ cashRaced = FALSE /\ cashLost = 0
  /\ dummyReady = [t \in Ticket |-> FALSE]
  /\ mou = <<>> /\ batch = <<>> /\ po = <<>> /\ shipment = <<>> /\ claim = <<>>
  /\ handed = {} /\ form = [d \in WebDesk \cup Device |-> None]
  /\ passed = {} /\ raced = FALSE /\ lost = 0

Next == FinanceMoves \/ ProductionMoves \/ DummyApproved

Spec == Init /\ [][Next]_vars

---------------------------------------------------------------------------
(* Properties *)

TypeOK == F!TypeOK /\ M!TypeOK /\ dummyReady \in [Ticket -> BOOLEAN]

\* Nothing is prepared for shipping, and nothing leaves, before the down payment and
\* the settlement are paid and, when the batch stood too long, the storage as well; no
\* later step on either side takes one of these payments back, as long as no event of
\* either side was written after its guard had ceased to hold.
NothingLeavesUnpaid ==
  ~raced /\ ~cashRaced => \A h \in DOMAIN shipment : shipment[h].status # "CANCELLED" =>
    LET b == shipment[h].batch
        t == mou[batch[b].mou].ticket
        due == {"DP_PRODUCTION_LEGAL", "SETTLEMENT"} \cup
               (IF batch[b].overdue THEN {"STORAGE_FEE"} ELSE {})
    IN \A type \in due : \E i \in F!Issued(t, type) :
         /\ F!Paid(i) \/ invoice[i].status = "RESCHEDULED"
         /\ type # "DP_PRODUCTION_LEGAL" => F!OpenUnpaid(t, {type}) = {}

\* Finance does for production what OutsideMoves of Production takes for granted: it
\* never takes a payment back and bills nothing before its time.
FinanceKeepsItsPromise == M!Spec

\* Production does for finance what TicketMoves of Finance takes for granted: an MoU
\* once accepted, a batch once packed, storage once due stay so.
ProductionKeepsItsPromise == F!Spec
=============================================================================
