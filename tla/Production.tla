----------------------------- MODULE Production -----------------------------
(***************************************************************************)
(* From the MoU to the client's answer (lib/server/mou.ts, legal.ts and    *)
(* production.ts with their lib/validations): MoU, legal documents, work   *)
(* order, purchase orders, schedule, stages, delivery note, QC claim, and  *)
(* the hand-over to the CRM.                                               *)
(*                                                                         *)
(* A desk fills in a form from the rows it sees and keeps in it what the   *)
(* step was taken from (`base`).  A device's form becomes an outbox event: *)
(* the guard compares the base with the cloud, a later round trip runs the *)
(* statements.  A web handler reads the base itself, inside its write      *)
(* transaction; `seen` is what its desk saw, which no handler looks at.    *)
(*                                                                         *)
(* Abstracted: dates are small numbers, `eta` counts the delays of a       *)
(* purchase order, `version` stands for updated_at with a new value at     *)
(* every write.  Not modelled: codes, notes, photos, the status log, the   *)
(* choice of supplier and carrier.                                         *)
(***************************************************************************)
EXTENDS Integers, Sequences, FiniteSets

CONSTANTS
  WebDesk, Device,   \* browsers, and offline devices
  Ticket,            \* sample requests whose sample the client has approved
  None,              \* no form
  Paths,             \* regulatory paths on offer
  LegalSteps,        \* <<kind, status>> that get recorded
  Plans,             \* schedules on offer
  Methods,           \* delivery methods on offer
  MaxMou, MaxBatches, MaxOrders, MaxEta, MaxShipments,
  MaxRevisions, MaxSchedules, MaxLost  \* bounds

Desk == WebDesk \cup Device
LegalKinds == {"SIG", "BPOM", "HALAL", "HKI"}
Final == {"ISSUED", "NOT_REQUIRED"}

ASSUME ProductionAssumption ==
  /\ WebDesk \cap Device = {}
  /\ Paths \subseteq {"WHITE_LABEL", "WITH_BPOM"} /\ Methods \subseteq {"CARRIER", "FLEET"}
  /\ LegalSteps \subseteq (LegalKinds \X {"SUBMITTED", "ISSUED", "NOT_REQUIRED"}) \ {<<"BPOM", "NOT_REQUIRED">>}
  /\ \A plan \in Plans : plan \in [1 .. 4 -> Nat] /\ \A i \in 1 .. 3 : plan[i] <= plan[i + 1]
  /\ {MaxMou, MaxBatches, MaxOrders, MaxEta, MaxShipments, MaxRevisions, MaxSchedules, MaxLost} \subseteq Nat

VARIABLES
  outside,   \* outside[t]: what Finance and the design desk say of ticket t
  mou,       \* rows of production_mou, each with its legal documents
  batch,     \* rows of production_batches
  po,        \* rows of batch_purchase_orders
  shipment,  \* rows of shipments
  claim,     \* rows of qc_claims
  handed,    \* tickets whose client is handed over to the CRM
  form,      \* form[d]: the form desk d has filled in, or None
  passed,    \* devices whose event has passed its guard and is not yet written
  raced,     \* history: an event was written although its guard had ceased to hold
  lost       \* answers lost so far

rows == <<mou, batch, po, shipment, claim, handed>>
vars == <<outside, rows, form, passed, raced, lost>>

OutsideRow == [dp_cleared: BOOLEAN, settlement_issued: BOOLEAN, settlement_cleared: BOOLEAN,
               ship_unpaid: BOOLEAN, storage_billed: BOOLEAN, dummy_ready: BOOLEAN]
MouRow == [ticket: Ticket, path: {"WHITE_LABEL", "WITH_BPOM"}, version: Nat,
           status: {"DRAFT", "SENT", "ACCEPTED", "REJECTED", "CANCELLED"},
           legal: [LegalKinds -> {"", "SUBMITTED"} \cup Final]]
BatchRow == [mou: Nat, material: {"UNCHECKED", "WAITING_PO", "READY"},
             plan: {<<>>} \cup [1 .. 4 -> Nat], version: Nat, needs_reschedule: BOOLEAN,
             stages_done: 0 .. 4, overdue: BOOLEAN]
PoRow == [batch: Nat, status: {"OPEN", "ARRIVED", "CANCELLED"}, eta: Nat]
ShipmentRow == [batch: Nat, method: {"CARRIER", "FLEET"}, tracking: BOOLEAN, version: Nat,
                status: {"PREPARED", "SHIPPED", "FORWARDED", "CANCELLED", "RECEIVED", "COMPLAINED"}]
ClaimRow == [shipment: Nat, status: {"OPEN", "DECIDED"}]

---------------------------------------------------------------------------
(* Which step leads where *)

\* Mutant: an MoU may be cancelled after it is accepted.
MouMovesCancelAccepted ==
  {<<"SEND_MOU", "DRAFT", "SENT">>, <<"MOU_ACCEPT", "SENT", "ACCEPTED">>,
   <<"MOU_REVISE", "SENT", "DRAFT">>, <<"MOU_REJECT", "SENT", "REJECTED">>} \cup
  {<<"CANCEL_MOU", s, "CANCELLED">> : s \in {"DRAFT", "SENT", "ACCEPTED"}}

MouMoves == {<<"SEND_MOU", "DRAFT", "SENT">>, <<"MOU_ACCEPT", "SENT", "ACCEPTED">>,
             <<"MOU_REVISE", "SENT", "DRAFT">>, <<"MOU_REJECT", "SENT", "REJECTED">>,
             <<"CANCEL_MOU", "DRAFT", "CANCELLED">>, <<"CANCEL_MOU", "SENT", "CANCELLED">>}

PoMoves == {<<"PO_ARRIVED", "ARRIVED">>, <<"PO_LATE", "OPEN">>, <<"PO_CANCEL", "CANCELLED">>}

ShipmentMoves == {<<"SHIP_UPDATE", "PREPARED", "PREPARED">>, <<"SHIP_CANCEL", "PREPARED", "CANCELLED">>,
                  <<"SHIP_DISPATCH", "PREPARED", "SHIPPED">>} \cup
                 {<<"SHIP_TRACKING", s, s>> : s \in {"SHIPPED", "FORWARDED"}} \cup
                 {<<"SHIP_FORWARD", "SHIPPED", "FORWARDED">>} \cup
                 ({<<"SHIP_RECEIVED", s, "RECEIVED">> : s \in {"SHIPPED", "FORWARDED"}} \cup
                  {<<"SHIP_COMPLAINT", s, "COMPLAINED">> : s \in {"SHIPPED", "FORWARDED"}})

MouSteps == {m[1] : m \in MouMoves}
PoSteps == {m[1] : m \in PoMoves}
ShipmentSteps == {m[1] : m \in ShipmentMoves}

---------------------------------------------------------------------------
(* Gates *)

TicketOf(b) == mou[batch[b].mou].ticket
Active(m) == mou[m].status \notin {"CANCELLED", "REJECTED"}
OrdersOf(b) == {p \in DOMAIN po : po[p].batch = b}
OpenOrders(b) == {p \in OrdersOf(b) : po[p].status = "OPEN"}
ActiveShipments(b) == {h \in DOMAIN shipment : shipment[h].batch = b /\ shipment[h].status # "CANCELLED"}

RequiredLegalKinds(path) == IF path = "WITH_BPOM" THEN LegalKinds ELSE {"HALAL"}
LegalComplete(m) == \A kind \in RequiredLegalKinds(mou[m].path) : mou[m].legal[kind] \in Final

LegalGate(m, kind) ==
  /\ mou[m].status = "ACCEPTED" /\ outside[mou[m].ticket].dp_cleared
  /\ kind \in RequiredLegalKinds(mou[m].path) /\ mou[m].legal[kind] \notin Final
  /\ kind = "BPOM" => mou[m].legal["SIG"] \in Final

\* Mutant: a work order may be made although there is one.
BatchRequestAgain(m) == mou[m].status = "ACCEPTED" /\ outside[mou[m].ticket].dp_cleared

BatchRequest(m) == /\ mou[m].status = "ACCEPTED" /\ outside[mou[m].ticket].dp_cleared
                   /\ \A b \in DOMAIN batch : batch[b].mou # m

StageGate(b) ==
  /\ batch[b].stages_done < 4
  /\ batch[b].stages_done = 0 =>
       batch[b].material = "READY" /\ batch[b].plan # <<>> /\ LegalComplete(batch[b].mou)

\* Mutant: the last finished stage is not locked.
ScheduleLockLoose(b, plan) == /\ batch[b].stages_done < 4
                              /\ \A i \in 1 .. batch[b].stages_done - 1 : plan[i] = batch[b].plan[i]

\* The dates of finished stages stay, and all of them once it is packed.
ScheduleLock(b, plan) == /\ batch[b].stages_done < 4
                         /\ \A i \in 1 .. batch[b].stages_done : plan[i] = batch[b].plan[i]

\* Mutant: a settlement need only be issued.
ShipGateIssued(b) == LET o == outside[TicketOf(b)]
                     IN /\ batch[b].stages_done = 4 /\ o.settlement_issued
                        /\ batch[b].overdue => o.storage_billed

ShipGate(b) == LET o == outside[TicketOf(b)]
               IN /\ batch[b].stages_done = 4 /\ o.settlement_issued /\ ~o.ship_unpaid
                  /\ batch[b].overdue => o.storage_billed

\* Received in good order, or the complaint is decided.
OrderCompleted(h, shipments, claims) ==
  \/ shipments[h].status = "RECEIVED"
  \/ /\ shipments[h].status = "COMPLAINED"
     /\ \E q \in DOMAIN claims : claims[q].shipment = h /\ claims[q].status = "DECIDED"

---------------------------------------------------------------------------
(* Forms *)

\* What a step on a row is taken from.
Base(o) ==
  CASE o.op \in MouSteps -> <<mou[o.row].status>>
    [] o.op = "mou_update" -> <<mou[o.row].version>>
    [] o.op = "legal" -> <<mou[o.row].legal[o.arg[1]]>>
    [] o.op = "schedule" -> <<batch[o.row].version>>
    [] o.op = "stage" -> <<batch[o.row].stages_done>>
    [] o.op = "PO_LATE" -> <<po[o.row].status, po[o.row].eta>>
    [] o.op \in PoSteps -> <<po[o.row].status>>
    [] o.op \in ShipmentSteps -> <<shipment[o.row].status, shipment[o.row].version>>
    [] OTHER -> <<>>

\* How late the open orders of a work order are.
Delays(b) == {po[p].eta : p \in OpenOrders(b)}

MouForms == [op: {"mou_create"}, row: Ticket, arg: Paths] \cup
            [op: {"mou_update"}, row: DOMAIN mou, arg: Paths]
MouStepForms == [op: MouSteps, row: DOMAIN mou, arg: {""}]
LegalForms == [op: {"legal"}, row: DOMAIN mou, arg: LegalSteps]
BatchForms == [op: {"batch_create"}, row: DOMAIN mou, arg: {""}]
OrderForms == [op: {"PO_ADD"}, row: DOMAIN batch, arg: {""}]
OrderStepForms == [op: PoSteps, row: DOMAIN po, arg: {""}]
ReadyForms == [op: {"ready"}, row: DOMAIN batch, arg: {""}]
ScheduleForms == [op: {"schedule"}, row: DOMAIN batch, arg: Plans]
StageForms == [op: {"stage"}, row: DOMAIN batch, arg: {""}]
ShipmentForms == [op: {"shipment_create"}, row: DOMAIN batch, arg: Methods] \cup
                 [op: {"SHIP_UPDATE"}, row: DOMAIN shipment, arg: Methods]
ShipmentStepForms == [op: ShipmentSteps \ {"SHIP_UPDATE"}, row: DOMAIN shipment, arg: BOOLEAN]
ClaimForms == [op: {"decide"}, row: DOMAIN claim, arg: {""}]
Drafts == UNION {MouForms, MouStepForms, LegalForms, BatchForms, OrderForms, OrderStepForms, ReadyForms,
                 ScheduleForms, StageForms, ShipmentForms, ShipmentStepForms, ClaimForms}

Filled(o) == [op |-> o.op, row |-> o.row, arg |-> o.arg, base |-> Base(o),
              seen |-> IF o.op = "schedule" THEN Delays(o.row) ELSE Base(o)]

\* Room for what the form inserts or counts up.
Fits(o) == /\ o.op = "mou_create" => Len(mou) < MaxMou
           /\ o.op = "batch_create" => Len(batch) < MaxBatches
           /\ o.op = "PO_ADD" => Len(po) < MaxOrders
           /\ o.op = "PO_LATE" => po[o.row].eta < MaxEta
           /\ o.op = "shipment_create" => Len(shipment) < MaxShipments
           /\ o.op \in {"mou_update", "MOU_REVISE"} => mou[o.row].version < MaxRevisions
           /\ o.op = "schedule" => batch[o.row].version < MaxSchedules
           /\ o.op = "SHIP_UPDATE" => shipment[o.row].version < MaxRevisions

---------------------------------------------------------------------------
(* What the handlers and the guards accept *)

MouAccepted(o) ==
  \/ o.op = "mou_create" /\ \A m \in DOMAIN mou : mou[m].ticket = o.row => ~Active(m)
  \/ o.op = "mou_update" /\ mou[o.row].status = "DRAFT"
  \/ /\ o.op \in MouSteps /\ \E m \in MouMoves : m[1] = o.op /\ m[2] = mou[o.row].status
     /\ o.op = "SEND_MOU" => outside[mou[o.row].ticket].dummy_ready

\* Mutant: an order may be added once production runs.
PurchaseOrderAnyTime(o) ==
  \/ o.op = "PO_ADD"
  \/ o.op \in PoSteps /\ po[o.row].status = "OPEN" /\ batch[po[o.row].batch].stages_done = 0

PurchaseOrderAccepted(o) ==
  \/ o.op = "PO_ADD" /\ batch[o.row].stages_done = 0
  \/ o.op \in PoSteps /\ po[o.row].status = "OPEN" /\ batch[po[o.row].batch].stages_done = 0

ShipmentStepAccepted(o) ==
  /\ \E m \in ShipmentMoves : m[1] = o.op /\ m[2] = shipment[o.row].status
  /\ o.op = "SHIP_TRACKING" => ~shipment[o.row].tracking /\ o.arg
  /\ o.op = "SHIP_FORWARD" => shipment[o.row].method = "FLEET" \/ shipment[o.row].tracking
  /\ o.op \in {"SHIP_CANCEL", "SHIP_FORWARD", "SHIP_RECEIVED", "SHIP_COMPLAINT"} => ~o.arg

Rule(o) ==
  CASE o.op \in MouSteps \cup {"mou_create", "mou_update"} -> MouAccepted(o)
    [] o.op = "legal" -> LegalGate(o.row, o.arg[1])
    [] o.op = "batch_create" -> BatchRequest(o.row)
    [] o.op \in PoSteps \cup {"PO_ADD"} -> PurchaseOrderAccepted(o)
    [] o.op = "ready" -> batch[o.row].material # "READY" /\ OpenOrders(o.row) = {}
    [] o.op = "schedule" -> ScheduleLock(o.row, o.arg)
    [] o.op = "stage" -> StageGate(o.row)
    [] o.op = "shipment_create" -> ShipGate(o.row) /\ ActiveShipments(o.row) = {}
    [] o.op \in ShipmentSteps -> ShipmentStepAccepted(o)
    [] o.op = "decide" -> claim[o.row].status = "OPEN"

Guard(o) == o.base = Base(o) /\ Rule(o)

---------------------------------------------------------------------------
(* The statements; an UPDATE whose condition no longer holds changes no row *)

CreateMou(o) ==
  mou' = Append(mou, [ticket |-> o.row, path |-> o.arg, version |-> 0, status |-> "DRAFT",
                      legal |-> [kind \in LegalKinds |-> ""]])

UpdateMou(o) ==
  mou' = IF mou[o.row].status = "DRAFT" /\ o.base = Base(o)
         THEN [mou EXCEPT ![o.row].path = o.arg, ![o.row].version = @ + 1] ELSE mou

RecordMouStep(o) ==
  \E to \in {m[3] : m \in {n \in MouMoves : n[1] = o.op /\ n[2] = o.base[1]}} :
    mou' = IF o.base = Base(o)
           THEN [mou EXCEPT ![o.row].status = to, ![o.row].version = @ + 1] ELSE mou

RecordLegalDocument(o) ==
  mou' = IF mou[o.row].legal[o.arg[1]] \in Final THEN mou
         ELSE [mou EXCEPT ![o.row].legal[o.arg[1]] = o.arg[2]]

CreateBatch(o) ==
  batch' = Append(batch, [mou |-> o.row, material |-> "UNCHECKED", plan |-> <<>>, version |-> 0,
                          needs_reschedule |-> FALSE, stages_done |-> 0, overdue |-> FALSE])

AddPurchaseOrder(o) ==
  /\ po' = Append(po, [batch |-> o.row, status |-> "OPEN", eta |-> 0])
  /\ batch' = [batch EXCEPT ![o.row].material = "WAITING_PO"]

StepPurchaseOrder(o) ==
  \E move \in {m \in PoMoves : m[1] = o.op} :
    LET b == po[o.row].batch
        late == o.op = "PO_LATE"
    IN /\ po' = IF o.base = Base(o)
                THEN [po EXCEPT ![o.row].status = move[2], ![o.row].eta = IF late THEN @ + 1 ELSE @]
                ELSE po
       /\ batch' = IF late THEN [batch EXCEPT ![b].needs_reschedule = @ \/ batch[b].plan # <<>>]
                   ELSE batch

MarkMaterialsReady(o) ==
  batch' = IF OpenOrders(o.row) = {} THEN [batch EXCEPT ![o.row].material = "READY"] ELSE batch

SaveBatchSchedule(o) ==
  batch' = IF o.base = Base(o)
           THEN [batch EXCEPT ![o.row].plan = o.arg, ![o.row].needs_reschedule = FALSE,
                              ![o.row].version = @ + 1]
           ELSE batch

RecordBatchStage(o) ==
  batch' = IF o.base = Base(o) THEN [batch EXCEPT ![o.row].stages_done = @ + 1] ELSE batch

CreateShipment(o) ==
  shipment' = Append(shipment, [batch |-> o.row, method |-> o.arg, tracking |-> FALSE, version |-> 0,
                                status |-> "PREPARED"])

RecordShipmentStep(o) ==
  \E to \in {m[3] : m \in {n \in ShipmentMoves : n[1] = o.op /\ n[2] = o.base[1]}} :
    /\ shipment' =
         IF o.base # Base(o) THEN shipment
         ELSE IF o.op = "SHIP_UPDATE"
         THEN [shipment EXCEPT ![o.row].version = @ + 1, ![o.row].method = o.arg]
         ELSE [shipment EXCEPT ![o.row].version = @ + 1, ![o.row].status = to,
                               ![o.row].tracking = @ \/ o.arg]
    /\ claim' = IF o.op = "SHIP_COMPLAINT"
                THEN Append(claim, [shipment |-> o.row, status |-> "OPEN"]) ELSE claim

DecideQcClaim(o) == claim' = [claim EXCEPT ![o.row].status = "DECIDED"]

\* Mutant: only goods received in good order hand the client over.
HandOverReceived(h) ==
  handed' = IF shipment'[h].status = "RECEIVED" THEN handed \cup {TicketOf(shipment[h].batch)} ELSE handed

\* A client with a completed order goes to the CRM, in the same transaction.
HandOverToCrm(h) ==
  handed' = IF OrderCompleted(h, shipment', claim') THEN handed \cup {TicketOf(shipment[h].batch)}
            ELSE handed

Write(o) ==
  \/ /\ \/ o.op = "mou_create" /\ CreateMou(o)
        \/ o.op = "mou_update" /\ UpdateMou(o)
        \/ o.op \in MouSteps /\ RecordMouStep(o)
        \/ o.op = "legal" /\ RecordLegalDocument(o)
     /\ UNCHANGED <<batch, po, shipment, claim, handed>>
  \/ /\ \/ o.op = "batch_create" /\ CreateBatch(o) /\ UNCHANGED po
        \/ o.op = "PO_ADD" /\ AddPurchaseOrder(o)
        \/ o.op \in PoSteps /\ StepPurchaseOrder(o)
        \/ o.op = "ready" /\ MarkMaterialsReady(o) /\ UNCHANGED po
        \/ o.op = "schedule" /\ SaveBatchSchedule(o) /\ UNCHANGED po
        \/ o.op = "stage" /\ RecordBatchStage(o) /\ UNCHANGED po
     /\ UNCHANGED <<mou, shipment, claim, handed>>
  \/ /\ \/ o.op = "shipment_create" /\ CreateShipment(o) /\ UNCHANGED <<claim, handed>>
        \/ /\ o.op \in ShipmentSteps /\ RecordShipmentStep(o)
           /\ IF o.op = "SHIP_RECEIVED" THEN HandOverToCrm(o.row) ELSE UNCHANGED handed
        \/ /\ o.op = "decide" /\ DecideQcClaim(o) /\ UNCHANGED shipment
           /\ HandOverToCrm(claim[o.row].shipment)
     /\ UNCHANGED <<mou, batch, po>>

---------------------------------------------------------------------------
(* Steps *)

\* A desk opens a form on what it sees.
Fill(d) ==
  /\ form[d] = None
  /\ \E o \in Drafts : /\ Fits(o) /\ Guard(Filled(o))
                       /\ form' = [form EXCEPT ![d] = Filled(o)]
  /\ UNCHANGED <<outside, rows, passed, raced, lost>>

\* A browser leaves the form.
Close(w) ==
  /\ form[w] # None /\ form' = [form EXCEPT ![w] = None]
  /\ UNCHANGED <<outside, rows, passed, raced, lost>>

\* A browser sends its form: the handler reads the base, checks and writes in one
\* transaction.  When the answer gets lost the form stays open.
Submit(w) ==
  /\ form[w] # None /\ Fits(form[w])
  /\ LET o == [form[w] EXCEPT !.base = Base(form[w])]
     IN IF Rule(o) THEN Write(o) ELSE UNCHANGED rows
  /\ \/ form' = [form EXCEPT ![w] = None] /\ UNCHANGED lost
     \/ lost < MaxLost /\ lost' = lost + 1 /\ UNCHANGED form
  /\ UNCHANGED <<outside, passed, raced>>

\* The guard of a device's event refuses it: a conflict, nothing is written.
Refuse(d) ==
  /\ form[d] # None /\ d \notin passed /\ ~Guard(form[d])
  /\ form' = [form EXCEPT ![d] = None]
  /\ UNCHANGED <<outside, rows, passed, raced, lost>>

\* ... or lets it pass.
Pass(d) ==
  /\ form[d] # None /\ d \notin passed /\ Guard(form[d])
  /\ passed' = passed \cup {d}
  /\ UNCHANGED <<outside, rows, form, raced, lost>>

\* The statements of an event that has passed run in one transaction.
Commit(d) ==
  /\ d \in passed /\ Fits(form[d])
  /\ Write(form[d])
  /\ raced' = (raced \/ ~Guard(form[d]))
  /\ passed' = passed \ {d} /\ form' = [form EXCEPT ![d] = None]
  /\ UNCHANGED <<outside, lost>>

\* A packed batch stands longer than the days of grace, unless it is paid for first.
StorageAccrues ==
  /\ \E b \in DOMAIN batch :
       /\ batch[b].stages_done = 4 /\ ~batch[b].overdue /\ ~outside[TicketOf(b)].settlement_cleared
       /\ batch' = [batch EXCEPT ![b].overdue = TRUE]
  /\ UNCHANGED <<outside, mou, po, shipment, claim, handed, form, passed, raced, lost>>

\* What Finance and the design desk may do meanwhile: a payment is never taken back.
OutsideStep(t) ==
  LET old == outside[t]
      new == outside'[t]
      packed == {b \in DOMAIN batch : TicketOf(b) = t /\ batch[b].stages_done = 4}
  IN /\ new.dp_cleared # old.dp_cleared =>
          new.dp_cleared /\ \E m \in DOMAIN mou : mou[m].ticket = t /\ mou[m].status = "ACCEPTED"
     /\ old.settlement_cleared => new.settlement_cleared
     /\ new.settlement_cleared => new.settlement_issued
     /\ new.settlement_issued => old.settlement_issued \/ packed # {}
     /\ new.settlement_issued /\ ~new.settlement_cleared => new.ship_unpaid
     /\ new.ship_unpaid => old.ship_unpaid \/ packed # {}
     /\ new.storage_billed => old.storage_billed \/ \E b \in packed : batch[b].overdue
     /\ old.dummy_ready => new.dummy_ready

OutsideMoves ==
  /\ outside' \in [Ticket -> OutsideRow] /\ \A t \in Ticket : OutsideStep(t)
  /\ UNCHANGED <<rows, form, passed, raced, lost>>

Init ==
  /\ outside = [t \in Ticket |->
       [dp_cleared |-> FALSE, settlement_issued |-> FALSE, settlement_cleared |-> FALSE,
        ship_unpaid |-> FALSE, storage_billed |-> FALSE, dummy_ready |-> FALSE]]
  /\ mou = <<>> /\ batch = <<>> /\ po = <<>> /\ shipment = <<>> /\ claim = <<>>
  /\ handed = {}
  /\ form = [d \in Desk |-> None]
  /\ passed = {} /\ raced = FALSE /\ lost = 0

DeskStep ==
  \/ \E d \in Desk : Fill(d)
  \/ \E w \in WebDesk : Close(w) \/ Submit(w)
  \/ \E d \in Device : Refuse(d) \/ Pass(d) \/ Commit(d)
  \/ StorageAccrues

Next == DeskStep \/ OutsideMoves

Spec == Init /\ [][Next]_vars

---------------------------------------------------------------------------
(* Invariants *)

TypeOK ==
  /\ outside \in [Ticket -> OutsideRow] /\ handed \subseteq Ticket
  /\ mou \in Seq(MouRow) /\ batch \in Seq(BatchRow) /\ po \in Seq(PoRow)
  /\ shipment \in Seq(ShipmentRow) /\ claim \in Seq(ClaimRow)
  /\ passed \subseteq Device /\ raced \in BOOLEAN /\ lost \in 0 .. MaxLost

\* Nothing is weighed before everything it takes is there, and nothing of that is
\* taken away afterwards: MoU accepted and its down payment still paid, materials
\* ready with no order open, a schedule, and the legal documents final.
StartedComplete ==
  ~raced => \A b \in DOMAIN batch : batch[b].stages_done > 0 =>
              LET m == batch[b].mou
              IN /\ mou[m].status = "ACCEPTED" /\ outside[mou[m].ticket].dp_cleared
                 /\ batch[b].material = "READY" /\ OpenOrders(b) = {}
                 /\ batch[b].plan # <<>> /\ LegalComplete(m)

\* One live MoU for a ticket, one work order for a MoU, one shipment under way for
\* a work order, one complaint for a shipment the client complains about: no table
\* has a UNIQUE for it, two desks may work at once and a browser may send twice.
OnePerOrder ==
  ~raced => /\ \A m, n \in DOMAIN mou :
                 mou[m].ticket = mou[n].ticket /\ Active(m) /\ Active(n) => m = n
            /\ \A b, c \in DOMAIN batch : batch[b].mou = batch[c].mou => b = c
            /\ \A b \in DOMAIN batch : Cardinality(ActiveShipments(b)) <= 1
            /\ \A h \in DOMAIN shipment :
                 Cardinality({q \in DOMAIN claim : claim[q].shipment = h}) =
                   IF shipment[h].status = "COMPLAINED" THEN 1 ELSE 0

\* Goods that have left are packed and their settlement is paid, to the end.
GoodsLeaveSettled ==
  ~raced => \A h \in DOMAIN shipment :
              shipment[h].status \in {"SHIPPED", "FORWARDED", "RECEIVED", "COMPLAINED"} =>
                LET b == shipment[h].batch
                IN batch[b].stages_done = 4 /\ outside[TicketOf(b)].settlement_cleared

\* A client is with the CRM exactly when an order of theirs is completed.
HandedOverWhenCompleted ==
  ~raced => handed = {TicketOf(shipment[h].batch) : h \in {h \in DOMAIN shipment : OrderCompleted(h, shipment, claim)}}

---------------------------------------------------------------------------
(* Action properties *)

\* The date of a finished stage never changes, and a stage that is done stays so.
FinishedStagesKept ==
  [][\A b \in DOMAIN batch :
       /\ batch'[b].stages_done \in {batch[b].stages_done, batch[b].stages_done + 1}
       /\ \A i \in 1 .. batch[b].stages_done : raced' \/ batch'[b].plan[i] = batch[b].plan[i]]_vars

\* In no run: the code does not keep this (README, Known divergences).
\* A stage is marked by a form that was filled in at the stage before: sending it
\* again marks nothing (the comment on BATCH_STAGE_SQL).
StageSafeToRepeat ==
  [][\A b \in DOMAIN batch : batch'[b].stages_done # batch[b].stages_done =>
       \E d \in Desk : /\ form[d] # None /\ form[d].op = "stage" /\ form[d].row = b
                      /\ form[d].seen = <<batch[b].stages_done>>]_vars

\* In no run: the code does not keep this (README, Known divergences).
\* The warning that a purchase order is late goes away only when someone who has
\* seen the delay saves the schedule.
DelaySeen ==
  [][\A b \in DOMAIN batch :
       batch[b].needs_reschedule /\ ~batch'[b].needs_reschedule =>
         \E d \in Desk : /\ form[d] # None /\ form[d].op = "schedule" /\ form[d].row = b
                        /\ form[d].seen = Delays(b)]_vars
=============================================================================
