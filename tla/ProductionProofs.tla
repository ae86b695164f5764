-------------------------- MODULE ProductionProofs --------------------------
(* Proofs about Production, for every number of desks, tickets and rows. *)
EXTENDS Production, SequenceTheorems, FiniteSetTheorems, TLAPS

---------------------------------------------------------------------------
(* Rows *)

LEMMA Put ==
  ASSUME NEW S, NEW s \in Seq(S), NEW i \in DOMAIN s, NEW r \in S, NEW t, t = [s EXCEPT ![i] = r]
  PROVE  /\ t \in Seq(S) /\ DOMAIN t = DOMAIN s
         /\ t[i] = r /\ \A j \in DOMAIN s : j # i => t[j] = s[j]
<1>1. DOMAIN s = 1 .. Len(s)
  BY LenProperties
<1> QED BY <1>1, ExceptSeq

LEMMA Add ==
  ASSUME NEW S, NEW s \in Seq(S), NEW r \in S
  PROVE  /\ Append(s, r) \in Seq(S)
         /\ DOMAIN Append(s, r) = DOMAIN s \cup {Len(s) + 1} /\ Len(s) + 1 \notin DOMAIN s
         /\ Append(s, r)[Len(s) + 1] = r /\ \A j \in DOMAIN s : Append(s, r)[j] = s[j]
<1> DEFINE n == Len(s) + 1
           t == Append(s, r)
<1>1. DOMAIN s = 1 .. Len(s) /\ Len(s) \in Nat
  BY LenProperties
<1>2. t \in Seq(S) /\ Len(t) = n /\ t[n] = r /\ \A j \in 1 .. Len(s) : t[j] = s[j]
  BY AppendProperties
<1>3. DOMAIN t = 1 .. n
  BY <1>2, LenProperties
<1>4. 1 .. n = 1 .. Len(s) \cup {n} /\ n \notin 1 .. Len(s)
  BY <1>1
<1> QED BY <1>1, <1>2, <1>3, <1>4

\* What the tables of steps say.
LEMMA MouStepsAre ==
  /\ MouSteps = {"SEND_MOU", "MOU_ACCEPT", "MOU_REVISE", "MOU_REJECT", "CANCEL_MOU"}
  /\ \A m \in MouMoves : /\ m[2] \in {"DRAFT", "SENT"}
                         /\ m[3] \in {"DRAFT", "SENT", "ACCEPTED", "REJECTED", "CANCELLED"}
BY DEF MouSteps, MouMoves

LEMMA PoStepsAre ==
  /\ PoSteps = {"PO_ARRIVED", "PO_LATE", "PO_CANCEL"}
  /\ \A m \in PoMoves : m[2] \in {"OPEN", "ARRIVED", "CANCELLED"}
BY DEF PoSteps, PoMoves

LEMMA ShipmentStepsAre ==
  /\ ShipmentSteps = {"SHIP_UPDATE", "SHIP_CANCEL", "SHIP_DISPATCH", "SHIP_TRACKING", "SHIP_FORWARD",
                      "SHIP_RECEIVED", "SHIP_COMPLAINT"}
  /\ \A m \in ShipmentMoves :
       /\ m[2] \in {"PREPARED", "SHIPPED", "FORWARDED"}
       /\ m[3] \in {"PREPARED", "SHIPPED", "FORWARDED", "CANCELLED", "RECEIVED", "COMPLAINED"}
       /\ (m[1] = "SHIP_COMPLAINT") = (m[3] = "COMPLAINED")
       /\ (m[1] = "SHIP_RECEIVED") = (m[3] = "RECEIVED")
       /\ m[1] = "SHIP_UPDATE" => m[3] = m[2]
<1>1. ShipmentMoves = {<<"SHIP_UPDATE", "PREPARED", "PREPARED">>, <<"SHIP_CANCEL", "PREPARED", "CANCELLED">>,
         <<"SHIP_DISPATCH", "PREPARED", "SHIPPED">>, <<"SHIP_TRACKING", "SHIPPED", "SHIPPED">>,
         <<"SHIP_TRACKING", "FORWARDED", "FORWARDED">>, <<"SHIP_FORWARD", "SHIPPED", "FORWARDED">>,
         <<"SHIP_RECEIVED", "SHIPPED", "RECEIVED">>, <<"SHIP_RECEIVED", "FORWARDED", "RECEIVED">>,
         <<"SHIP_COMPLAINT", "SHIPPED", "COMPLAINED">>, <<"SHIP_COMPLAINT", "FORWARDED", "COMPLAINED">>}
  BY DEF ShipmentMoves
<1> QED BY <1>1 DEF ShipmentSteps

LEMMA OpsApart ==
  /\ MouSteps \cap (PoSteps \cup ShipmentSteps) = {} /\ PoSteps \cap ShipmentSteps = {}
  /\ {"mou_create", "mou_update", "legal", "batch_create", "PO_ADD", "ready", "schedule", "stage",
      "shipment_create", "decide"} \cap (MouSteps \cup PoSteps \cup ShipmentSteps) = {}
BY MouStepsAre, PoStepsAre, ShipmentStepsAre

LEMMA BaseIs ==
  ASSUME NEW o
  PROVE  /\ o.op \in MouSteps => Base(o) = <<mou[o.row].status>>
         /\ o.op = "stage" => Base(o) = <<batch[o.row].stages_done>>
         /\ o.op \in ShipmentSteps => Base(o) = <<shipment[o.row].status, shipment[o.row].version>>
<1>1. ASSUME o.op \in MouSteps PROVE Base(o) = <<mou[o.row].status>>
  <2>1. /\ o.op \notin {"mou_update", "legal", "schedule", "stage"}
        /\ o.op \notin PoSteps /\ o.op \notin ShipmentSteps
    BY <1>1, OpsApart
  <2>2. o.op # "PO_LATE"
    BY <1>1, MouStepsAre
  <2> QED BY <1>1, <2>1, <2>2 DEF Base
<1>2. ASSUME o.op = "stage" PROVE Base(o) = <<batch[o.row].stages_done>>
  BY <1>2, OpsApart DEF Base
<1>3. ASSUME o.op \in ShipmentSteps
      PROVE  Base(o) = <<shipment[o.row].status, shipment[o.row].version>>
  BY <1>3, OpsApart DEF Base
<1> QED BY <1>1, <1>2, <1>3

---------------------------------------------------------------------------
(* Types *)

Rows ==
  /\ outside \in [Ticket -> OutsideRow] /\ handed \subseteq Ticket
  /\ mou \in Seq(MouRow) /\ batch \in Seq(BatchRow) /\ po \in Seq(PoRow)
  /\ shipment \in Seq(ShipmentRow) /\ claim \in Seq(ClaimRow)

\* Every row names one that exists; rows are only ever added.
Referring == /\ \A b \in DOMAIN batch : batch[b].mou \in DOMAIN mou
             /\ \A p \in DOMAIN po : po[p].batch \in DOMAIN batch
             /\ \A h \in DOMAIN shipment : shipment[h].batch \in DOMAIN batch
             /\ \A q \in DOMAIN claim : claim[q].shipment \in DOMAIN shipment

MouFormOps == MouSteps \cup {"mou_update", "legal", "batch_create"}
BatchFormOps == {"PO_ADD", "ready", "schedule", "stage", "shipment_create"}

\* A form was filled in for a row that exists, and a stage before the last.
FormOK(o, m, b, p, h, q) ==
  /\ o = [op |-> o.op, row |-> o.row, arg |-> o.arg, base |-> o.base, seen |-> o.seen]
  /\ \/ o.op = "mou_create" /\ o.row \in Ticket
     \/ o.op \in MouFormOps /\ o.row \in DOMAIN m
     \/ o.op \in BatchFormOps /\ o.row \in DOMAIN b
     \/ o.op \in PoSteps /\ o.row \in DOMAIN p
     \/ o.op \in ShipmentSteps /\ o.row \in DOMAIN h
     \/ o.op = "decide" /\ o.row \in DOMAIN q
  /\ o.op \in {"mou_create", "mou_update"} => o.arg \in Paths
  /\ o.op = "legal" => o.arg \in LegalSteps
  /\ o.op = "schedule" => o.arg \in Plans
  /\ o.op \in {"shipment_create", "SHIP_UPDATE"} => o.arg \in Methods
  /\ o.op \in ShipmentSteps \ {"SHIP_UPDATE"} => o.arg \in BOOLEAN
  /\ o.op = "stage" => o.base[1] # 4

FormsOK == /\ form = [d \in Desk |-> form[d]]
           /\ \A d \in Desk : form[d] # None => FormOK(form[d], mou, batch, po, shipment, claim)

DesksOK == /\ passed \subseteq Device /\ raced \in BOOLEAN /\ lost \in 0 .. MaxLost
           /\ \A d \in passed : form[d] # None

TypeInv == Rows /\ Referring /\ FormsOK /\ DesksOK

LEMMA TypeIs == TypeInv => TypeOK
BY DEF TypeInv, Rows, DesksOK, TypeOK

LEMMA RowTypes ==
  ASSUME Rows
  PROVE  /\ \A m \in DOMAIN mou : mou[m] \in MouRow
         /\ \A b \in DOMAIN batch : batch[b] \in BatchRow
         /\ \A p \in DOMAIN po : po[p] \in PoRow
         /\ \A h \in DOMAIN shipment : shipment[h] \in ShipmentRow
         /\ \A q \in DOMAIN claim : claim[q] \in ClaimRow
BY LenProperties, ElementOfSeq DEF Rows

LEMMA RowNumbers ==
  ASSUME Rows
  PROVE  /\ DOMAIN mou \subseteq Nat /\ DOMAIN batch \subseteq Nat /\ DOMAIN po \subseteq Nat
         /\ DOMAIN shipment \subseteq Nat /\ DOMAIN claim \subseteq Nat
BY LenProperties DEF Rows

LEMMA Constants ==
  /\ Paths \subseteq {"WHITE_LABEL", "WITH_BPOM"} /\ Methods \subseteq {"CARRIER", "FLEET"}
  /\ Plans \subseteq [1 .. 4 -> Nat] /\ MaxLost \in Nat
  /\ \A s \in LegalSteps : s[1] \in LegalKinds /\ s[2] \in {"SUBMITTED", "ISSUED", "NOT_REQUIRED"}
<1>1. \A plan \in Plans : plan \in [1 .. 4 -> Nat]
  BY ProductionAssumption, Zenon
<1>2. \A s \in LegalSteps : s[1] \in LegalKinds /\ s[2] \in {"SUBMITTED", "ISSUED", "NOT_REQUIRED"}
  BY ProductionAssumption
<1>3. Paths \subseteq {"WHITE_LABEL", "WITH_BPOM"} /\ Methods \subseteq {"CARRIER", "FLEET"} /\ MaxLost \in Nat
  BY ProductionAssumption, Zenon
<1> QED BY <1>1, <1>2, <1>3

LEMMA PlanIsNone == \A plan \in Plans : plan # <<>>
BY Constants

---------------------------------------------------------------------------
(* How a row may change, whatever is written *)

MouTo(a, b) == /\ b.ticket = a.ticket
               /\ b.status = a.status \/ a.status \in {"DRAFT", "SENT"}
               /\ a.status # "DRAFT" => b.path = a.path
               /\ \A kind \in LegalKinds : a.legal[kind] \in Final => b.legal[kind] \in Final

MousGrow == DOMAIN mou \subseteq DOMAIN mou' /\ \A m \in DOMAIN mou : MouTo(mou[m], mou'[m])

LEMMA GrowIdle == UNCHANGED mou => MousGrow
BY DEF MousGrow, MouTo

LEMMA FormGrows ==
  ASSUME NEW o, NEW m, NEW b, NEW p, NEW h, NEW q, NEW mm, NEW bb, NEW pp, NEW hh, NEW qq,
         FormOK(o, m, b, p, h, q),
         DOMAIN m \subseteq DOMAIN mm, DOMAIN b \subseteq DOMAIN bb, DOMAIN p \subseteq DOMAIN pp,
         DOMAIN h \subseteq DOMAIN hh, DOMAIN q \subseteq DOMAIN qq
  PROVE  FormOK(o, mm, bb, pp, hh, qq)
BY DEF FormOK

---------------------------------------------------------------------------
(* What is written to the MoU *)

LEMMA MouStepRow ==
  ASSUME NEW r \in MouRow, r.status \in {"DRAFT", "SENT"},
         NEW s \in {"DRAFT", "SENT", "ACCEPTED", "REJECTED", "CANCELLED"},
         NEW b, b = [r EXCEPT !.status = s, !.version = @ + 1]
  PROVE  b \in MouRow /\ MouTo(r, b) /\ b.status = s /\ b.path = r.path /\ b.legal = r.legal
<1>1. r.version + 1 \in Nat
  <2>1. r.version \in Nat
    BY DEF MouRow
  <2> QED BY <2>1
<1>2. /\ b \in MouRow /\ b.status = s /\ b.path = r.path /\ b.legal = r.legal /\ b.ticket = r.ticket
  BY <1>1 DEF MouRow
<1> QED BY <1>2 DEF MouTo

LEMMA MouPathRow ==
  ASSUME NEW r \in MouRow, r.status = "DRAFT", NEW p \in Paths,
         NEW b, b = [r EXCEPT !.path = p, !.version = @ + 1]
  PROVE  b \in MouRow /\ MouTo(r, b) /\ b.status = r.status
<1>1. r.version + 1 \in Nat
  <2>1. r.version \in Nat
    BY DEF MouRow
  <2> QED BY <2>1
<1>2. b \in MouRow /\ b.status = r.status /\ b.legal = r.legal /\ b.ticket = r.ticket
  BY <1>1, Constants DEF MouRow
<1> QED BY <1>2 DEF MouTo

LEMMA MouLegalRow ==
  ASSUME NEW r \in MouRow, NEW k \in LegalKinds, r.legal[k] \notin Final,
         NEW v \in {"SUBMITTED", "ISSUED", "NOT_REQUIRED"},
         NEW b, b = [r EXCEPT !.legal = [r.legal EXCEPT ![k] = v]]
  PROVE  b \in MouRow /\ MouTo(r, b) /\ b.status = r.status /\ b.path = r.path
<1>1. r.legal \in [LegalKinds -> {"", "SUBMITTED"} \cup Final]
  BY DEF MouRow
<1> DEFINE l == [r.legal EXCEPT ![k] = v]
<1>2. l \in [LegalKinds -> {"", "SUBMITTED"} \cup Final]
  BY <1>1 DEF Final
<1>3. \A j \in LegalKinds : r.legal[j] \in Final => l[j] \in Final
  BY <1>1
<1> HIDE DEF l
<1>4. /\ b \in MouRow /\ b.status = r.status /\ b.path = r.path /\ b.ticket = r.ticket /\ b.legal = l
  BY <1>2 DEF MouRow, l
<1> QED BY <1>3, <1>4 DEF MouTo

LEMMA MouAdded ==
  ASSUME Rows, NEW r \in MouRow, mou' = Append(mou, r)
  PROVE  /\ mou' \in Seq(MouRow) /\ MousGrow
         /\ DOMAIN mou' = DOMAIN mou \cup {Len(mou) + 1} /\ Len(mou) + 1 \notin DOMAIN mou
         /\ mou'[Len(mou) + 1] = r
         /\ \A m \in DOMAIN mou : mou'[m] = mou[m]
<1>1. mou \in Seq(MouRow)
  BY DEF Rows
<1>2. /\ mou' \in Seq(MouRow) /\ DOMAIN mou' = DOMAIN mou \cup {Len(mou) + 1}
      /\ Len(mou) + 1 \notin DOMAIN mou /\ mou'[Len(mou) + 1] = r
      /\ \A m \in DOMAIN mou : mou'[m] = mou[m]
  BY <1>1, Add
<1> QED BY <1>2 DEF MousGrow, MouTo

\* One row of the MoU is changed by a step that such a row may take.
LEMMA MouPut ==
  ASSUME Rows, NEW m \in DOMAIN mou, NEW b \in MouRow, MouTo(mou[m], b),
         mou' = [mou EXCEPT ![m] = b]
  PROVE  /\ mou' \in Seq(MouRow) /\ MousGrow /\ DOMAIN mou' = DOMAIN mou
         /\ mou'[m] = b /\ \A n \in DOMAIN mou : n # m => mou'[n] = mou[n]
<1>1. mou \in Seq(MouRow)
  BY DEF Rows
<1>2. /\ mou' \in Seq(MouRow) /\ DOMAIN mou' = DOMAIN mou
      /\ mou'[m] = b /\ \A n \in DOMAIN mou : n # m => mou'[n] = mou[n]
  BY <1>1, Put
<1> QED BY <1>2 DEF MousGrow, MouTo

\* What the four statements do to the table: an MoU is added, or those that are there
\* take a step, and one that is neither a draft nor sent keeps its status and path.
LEMMA MouWrites ==
  ASSUME TypeInv, NEW o, FormOK(o, mou, batch, po, shipment, claim),
         \/ o.op = "mou_create" /\ CreateMou(o)
         \/ o.op = "mou_update" /\ UpdateMou(o)
         \/ o.op \in MouSteps /\ RecordMouStep(o)
         \/ o.op = "legal" /\ RecordLegalDocument(o)
  PROVE  /\ mou' \in Seq(MouRow) /\ MousGrow
         /\ o.op # "mou_create" =>
              /\ DOMAIN mou' = DOMAIN mou
              /\ \A m \in DOMAIN mou : m # o.row => mou'[m] = mou[m]
         /\ o.op = "mou_create" =>
              /\ DOMAIN mou' = DOMAIN mou \cup {Len(mou) + 1} /\ Len(mou) + 1 \notin DOMAIN mou
              /\ mou'[Len(mou) + 1].ticket = o.row /\ mou'[Len(mou) + 1].status = "DRAFT"
              /\ \A m \in DOMAIN mou : mou'[m] = mou[m]
<1>0. Rows /\ mou \in Seq(MouRow) /\ \A m \in DOMAIN mou : mou[m] \in MouRow
  BY RowTypes DEF TypeInv, Rows
<1>1. CASE o.op = "mou_create" /\ CreateMou(o)
  <2>1. o.row \in Ticket /\ o.arg \in Paths
    BY <1>1, MouStepsAre, PoStepsAre, ShipmentStepsAre DEF FormOK, MouFormOps, BatchFormOps
  <2> DEFINE r == [ticket |-> o.row, path |-> o.arg, version |-> 0, status |-> "DRAFT",
                   legal |-> [kind \in LegalKinds |-> ""]]
  <2>2. r \in MouRow /\ r.ticket = o.row /\ r.status = "DRAFT"
    BY <2>1, Constants DEF MouRow
  <2>3. mou' = Append(mou, r)
    BY <1>1 DEF CreateMou
  <2> HIDE DEF r
  <2> QED BY <1>0, <1>1, <2>2, <2>3, MouAdded
<1>2. CASE o.op = "mou_update" /\ UpdateMou(o)
  <2>1. o.row \in DOMAIN mou /\ o.arg \in Paths
    BY <1>2, MouStepsAre, PoStepsAre, ShipmentStepsAre DEF FormOK, MouFormOps, BatchFormOps
  <2>2. CASE mou' = mou
    BY <1>0, <1>2, <2>2, GrowIdle
  <2>3. CASE /\ mou[o.row].status = "DRAFT"
             /\ mou' = [mou EXCEPT ![o.row].path = o.arg, ![o.row].version = @ + 1]
    <3> DEFINE b == [mou[o.row] EXCEPT !.path = o.arg, !.version = @ + 1]
    <3>1. mou' = [mou EXCEPT ![o.row] = b]
      BY <1>0, <2>1, <2>3
    <3>2. b \in MouRow /\ MouTo(mou[o.row], b)
      BY <1>0, <2>1, <2>3, MouPathRow
    <3> HIDE DEF b
    <3> QED BY <1>0, <1>2, <2>1, <3>1, <3>2, MouPut
  <2> QED BY <1>2, <2>2, <2>3 DEF UpdateMou
<1>3. CASE o.op \in MouSteps /\ RecordMouStep(o)
  <2>1. o.row \in DOMAIN mou /\ o.op # "mou_create"
    BY <1>3, MouStepsAre, PoStepsAre, ShipmentStepsAre DEF FormOK, MouFormOps, BatchFormOps
  <2>2. CASE mou' = mou
    BY <1>0, <2>1, <2>2, GrowIdle
  <2>3. ASSUME NEW n \in MouMoves, n[2] = o.base[1], o.base = Base(o),
               mou' = [mou EXCEPT ![o.row].status = n[3], ![o.row].version = @ + 1]
        PROVE  /\ mou' \in Seq(MouRow) /\ MousGrow /\ DOMAIN mou' = DOMAIN mou
               /\ \A m \in DOMAIN mou : m # o.row => mou'[m] = mou[m]
    <3> DEFINE b == [mou[o.row] EXCEPT !.status = n[3], !.version = @ + 1]
    <3>1. mou' = [mou EXCEPT ![o.row] = b]
      BY <1>0, <2>1, <2>3
    <3>2. Base(o) = <<mou[o.row].status>>
      BY <1>3, BaseIs
    <3>3. mou[o.row].status \in {"DRAFT", "SENT"}
      BY <2>3, <3>2, MouStepsAre
    <3>4. b \in MouRow /\ MouTo(mou[o.row], b)
      BY <1>0, <2>1, <3>3, MouStepRow, MouStepsAre
    <3> HIDE DEF b
    <3> QED BY <1>0, <2>1, <3>1, <3>4, MouPut
  <2>4. \/ mou' = mou
        \/ \E n \in MouMoves : /\ n[2] = o.base[1] /\ o.base = Base(o)
             /\ mou' = [mou EXCEPT ![o.row].status = n[3], ![o.row].version = @ + 1]
    BY <1>3, Zenon DEF RecordMouStep
  <2> QED BY <2>1, <2>2, <2>3, <2>4
<1>4. CASE o.op = "legal" /\ RecordLegalDocument(o)
  <2>1. o.row \in DOMAIN mou /\ o.arg \in LegalSteps
    BY <1>4, MouStepsAre, PoStepsAre, ShipmentStepsAre DEF FormOK, MouFormOps, BatchFormOps
  <2>2. CASE mou' = mou
    BY <1>0, <1>4, <2>2, GrowIdle
  <2>3. CASE /\ mou[o.row].legal[o.arg[1]] \notin Final
             /\ mou' = [mou EXCEPT ![o.row].legal[o.arg[1]] = o.arg[2]]
    <3> DEFINE b == [mou[o.row] EXCEPT !.legal = [mou[o.row].legal EXCEPT ![o.arg[1]] = o.arg[2]]]
    <3>1. mou' = [mou EXCEPT ![o.row] = b]
      BY <1>0, <2>1, <2>3
    <3>2. b \in MouRow /\ MouTo(mou[o.row], b)
      BY <1>0, <2>1, <2>3, MouLegalRow, Constants
    <3> HIDE DEF b
    <3> QED BY <1>0, <1>4, <2>1, <3>1, <3>2, MouPut
  <2> QED BY <1>4, <2>2, <2>3 DEF RecordLegalDocument
<1> QED BY <1>1, <1>2, <1>3, <1>4

---------------------------------------------------------------------------
(* What is written to the work orders and purchase orders *)

\* What a form o may do to row b of the work orders, which becomes `new`.
BatchBy(o, b, new) ==
  /\ new.mou = batch[b].mou /\ new.overdue = batch[b].overdue
  /\ o.op = "PO_ADD" /\ b = o.row => new.material = "WAITING_PO"
  /\ ~ (o.op = "PO_ADD" /\ b = o.row) =>
       new.material = batch[b].material \/ (o.op = "ready" /\ new.material = "READY" /\ b = o.row /\ OpenOrders(b) = {})
  /\ \/ new.stages_done = batch[b].stages_done
     \/ o.op = "stage" /\ b = o.row /\ new.stages_done = batch[b].stages_done + 1
  /\ new.plan = batch[b].plan \/ (o.op = "schedule" /\ b = o.row /\ new.plan = o.arg)

BatchRows(o) ==
  /\ \A b \in DOMAIN batch : BatchBy(o, b, batch'[b])
  /\ o.op # "batch_create" => DOMAIN batch' = DOMAIN batch
  /\ o.op = "batch_create" =>
       /\ DOMAIN batch' = DOMAIN batch \cup {Len(batch) + 1} /\ Len(batch) + 1 \notin DOMAIN batch
       /\ batch'[Len(batch) + 1].mou = o.row /\ batch'[Len(batch) + 1].stages_done = 0
       /\ batch'[Len(batch) + 1].material = "UNCHECKED" /\ ~ batch'[Len(batch) + 1].overdue

OrderRows(o) ==
  /\ DOMAIN po \subseteq DOMAIN po'
  /\ \A p \in DOMAIN po : /\ po'[p].batch = po[p].batch
                          /\ po'[p].status = po[p].status \/ (o.op \in PoSteps /\ p = o.row)
  /\ \A p \in DOMAIN po' \ DOMAIN po : o.op = "PO_ADD" /\ po'[p].batch = o.row

LEMMA MaterialRow ==
  ASSUME NEW r \in BatchRow, NEW s \in {"WAITING_PO", "READY"}, NEW b, b = [r EXCEPT !.material = s]
  PROVE  /\ b \in BatchRow /\ b.mou = r.mou /\ b.material = s /\ b.stages_done = r.stages_done
         /\ b.plan = r.plan /\ b.overdue = r.overdue
BY DEF BatchRow

LEMMA DelayedRow ==
  ASSUME NEW r \in BatchRow, NEW s \in BOOLEAN,
         NEW b, b = [r EXCEPT !.needs_reschedule = r.needs_reschedule \/ s]
  PROVE  /\ b \in BatchRow /\ b.mou = r.mou /\ b.material = r.material
         /\ b.stages_done = r.stages_done /\ b.plan = r.plan /\ b.overdue = r.overdue
<1> DEFINE n == r.needs_reschedule \/ s
<1>1. n \in BOOLEAN
  OBVIOUS
<1> HIDE DEF n
<1>2. b = [r EXCEPT !.needs_reschedule = n]
  BY DEF n
<1> QED BY <1>1, <1>2 DEF BatchRow

LEMMA StagedRow ==
  ASSUME NEW r \in BatchRow, r.stages_done # 4, NEW b, b = [r EXCEPT !.stages_done = @ + 1]
  PROVE  /\ b \in BatchRow /\ b.mou = r.mou /\ b.material = r.material
         /\ b.stages_done = r.stages_done + 1 /\ b.plan = r.plan /\ b.overdue = r.overdue
<1>1. r.stages_done + 1 \in 0 .. 4
  <2>1. r.stages_done \in 0 .. 4
    BY DEF BatchRow
  <2> QED BY <2>1
<1> QED BY <1>1 DEF BatchRow

LEMMA BatchPut ==
  ASSUME Rows, NEW o, o.op # "batch_create",
         NEW b \in DOMAIN batch, NEW r \in BatchRow, BatchBy(o, b, r),
         \A c \in DOMAIN batch : c # b => BatchBy(o, c, batch[c]),
         batch' = [batch EXCEPT ![b] = r]
  PROVE  batch' \in Seq(BatchRow) /\ BatchRows(o)
<1>1. batch \in Seq(BatchRow)
  BY DEF Rows
<1>2. /\ batch' \in Seq(BatchRow) /\ DOMAIN batch' = DOMAIN batch
      /\ batch'[b] = r /\ \A c \in DOMAIN batch : c # b => batch'[c] = batch[c]
  BY <1>1, Put
<1>3. \A c \in DOMAIN batch : BatchBy(o, c, batch'[c])
  <2> SUFFICES ASSUME NEW c \in DOMAIN batch PROVE BatchBy(o, c, batch'[c])
    OBVIOUS
  <2>1. CASE c = b
    BY <1>2, <2>1
  <2>2. CASE c # b
    BY <1>2, <2>2
  <2> QED BY <2>1, <2>2
<1> QED BY <1>2, <1>3 DEF BatchRows

LEMMA BatchStill ==
  ASSUME NEW o, NEW b, o.op # "PO_ADD" \/ b # o.row
  PROVE  BatchBy(o, b, batch[b])
BY DEF BatchBy

LEMMA BatchesStill ==
  ASSUME Rows, NEW o, o.op \notin {"batch_create", "PO_ADD"}, batch' = batch
  PROVE  batch' \in Seq(BatchRow) /\ BatchRows(o)
BY DEF Rows, BatchRows, BatchBy

LEMMA OrdersStill ==
  ASSUME Rows, NEW o, po' = po
  PROVE  po' \in Seq(PoRow) /\ OrderRows(o)
BY DEF Rows, OrderRows

LEMMA BatchAdded ==
  ASSUME Rows, NEW o, o.op = "batch_create", NEW r \in BatchRow, batch' = Append(batch, r),
         r.mou = o.row, r.stages_done = 0, r.material = "UNCHECKED", ~ r.overdue
  PROVE  batch' \in Seq(BatchRow) /\ BatchRows(o)
<1>1. batch \in Seq(BatchRow)
  BY DEF Rows
<1>2. /\ batch' \in Seq(BatchRow) /\ DOMAIN batch' = DOMAIN batch \cup {Len(batch) + 1}
      /\ Len(batch) + 1 \notin DOMAIN batch /\ batch'[Len(batch) + 1] = r
      /\ \A b \in DOMAIN batch : batch'[b] = batch[b]
  BY <1>1, Add
<1>3. \A b \in DOMAIN batch : BatchBy(o, b, batch'[b])
  BY <1>2 DEF BatchBy
<1> QED BY <1>2, <1>3 DEF BatchRows

LEMMA OrderAdded ==
  ASSUME Rows, NEW o, o.op = "PO_ADD", NEW r \in PoRow, r.batch = o.row, po' = Append(po, r)
  PROVE  po' \in Seq(PoRow) /\ OrderRows(o)
<1>1. po \in Seq(PoRow)
  BY DEF Rows
<1>2. /\ po' \in Seq(PoRow) /\ DOMAIN po' = DOMAIN po \cup {Len(po) + 1}
      /\ po'[Len(po) + 1] = r /\ \A p \in DOMAIN po : po'[p] = po[p]
  BY <1>1, Add
<1> QED BY <1>2 DEF OrderRows

LEMMA OrderPut ==
  ASSUME Rows, NEW o, o.op \in PoSteps, o.row \in DOMAIN po, NEW r \in PoRow,
         r.batch = po[o.row].batch, po' = [po EXCEPT ![o.row] = r]
  PROVE  po' \in Seq(PoRow) /\ OrderRows(o)
<1>1. po \in Seq(PoRow)
  BY DEF Rows
<1>2. /\ po' \in Seq(PoRow) /\ DOMAIN po' = DOMAIN po
      /\ po'[o.row] = r /\ \A p \in DOMAIN po : p # o.row => po'[p] = po[p]
  BY <1>1, Put
<1> QED BY <1>2 DEF OrderRows

LEMMA FormRow ==
  ASSUME NEW o, NEW m, NEW b, NEW p, NEW h, NEW q, FormOK(o, m, b, p, h, q)
  PROVE  /\ o.op \in MouFormOps => o.row \in DOMAIN m
         /\ o.op \in BatchFormOps => o.row \in DOMAIN b
         /\ o.op \in PoSteps => o.row \in DOMAIN p
         /\ o.op \in ShipmentSteps => o.row \in DOMAIN h
         /\ o.op = "decide" => o.row \in DOMAIN q
BY MouStepsAre, PoStepsAre, ShipmentStepsAre DEF FormOK, MouFormOps, BatchFormOps

LEMMA BatchWrites ==
  ASSUME TypeInv, NEW o, FormOK(o, mou, batch, po, shipment, claim),
         \/ o.op = "batch_create" /\ CreateBatch(o) /\ UNCHANGED po
         \/ o.op = "PO_ADD" /\ AddPurchaseOrder(o)
         \/ o.op \in PoSteps /\ StepPurchaseOrder(o)
         \/ o.op = "ready" /\ MarkMaterialsReady(o) /\ UNCHANGED po
         \/ o.op = "schedule" /\ SaveBatchSchedule(o) /\ UNCHANGED po
         \/ o.op = "stage" /\ RecordBatchStage(o) /\ UNCHANGED po
  PROVE  batch' \in Seq(BatchRow) /\ po' \in Seq(PoRow) /\ BatchRows(o) /\ OrderRows(o)
<1>0. /\ Rows /\ Referring /\ batch \in Seq(BatchRow)
      /\ \A b \in DOMAIN batch : batch[b] \in BatchRow
      /\ \A p \in DOMAIN po : po[p] \in PoRow
  BY RowTypes DEF TypeInv, Rows
<1>1. CASE o.op = "batch_create" /\ CreateBatch(o) /\ UNCHANGED po
  <2>1. o.row \in DOMAIN mou /\ o.row \in Nat
    BY <1>0, <1>1, FormRow, RowNumbers DEF MouFormOps
  <2> DEFINE r == [mou |-> o.row, material |-> "UNCHECKED", plan |-> <<>>, version |-> 0,
                   needs_reschedule |-> FALSE, stages_done |-> 0, overdue |-> FALSE]
  <2>2. /\ r \in BatchRow /\ r.mou = o.row /\ r.stages_done = 0 /\ r.material = "UNCHECKED"
        /\ ~ r.overdue
    BY <2>1 DEF BatchRow
  <2>3. batch' = Append(batch, r)
    BY <1>1 DEF CreateBatch
  <2> HIDE DEF r
  <2> QED BY <1>0, <1>1, <2>2, <2>3, BatchAdded, OrdersStill
<1>2. CASE o.op = "PO_ADD" /\ AddPurchaseOrder(o)
  <2>1. o.row \in DOMAIN batch /\ o.row \in Nat
    BY <1>0, <1>2, FormRow, RowNumbers DEF BatchFormOps
  <2> DEFINE r == [batch |-> o.row, status |-> "OPEN", eta |-> 0]
             n == [batch[o.row] EXCEPT !.material = "WAITING_PO"]
  <2>2. r \in PoRow /\ r.batch = o.row
    BY <2>1 DEF PoRow
  <2>3. /\ n \in BatchRow /\ n.mou = batch[o.row].mou /\ n.material = "WAITING_PO"
        /\ n.stages_done = batch[o.row].stages_done /\ n.plan = batch[o.row].plan
        /\ n.overdue = batch[o.row].overdue
    BY <1>0, <2>1, MaterialRow
  <2>4. po' = Append(po, r) /\ batch' = [batch EXCEPT ![o.row] = n]
    BY <1>0, <1>2, <2>1 DEF AddPurchaseOrder
  <2> HIDE DEF r, n
  <2>5. BatchBy(o, o.row, n)
    BY <1>2, <2>3 DEF BatchBy
  <2>6. batch' \in Seq(BatchRow) /\ BatchRows(o)
    BY <1>0, <1>2, <2>1, <2>3, <2>4, <2>5, BatchStill, BatchPut
  <2> QED BY <1>0, <1>2, <2>2, <2>4, <2>6, OrderAdded
<1>3. CASE o.op \in PoSteps /\ StepPurchaseOrder(o)
  <2>1. /\ o.row \in DOMAIN po /\ po[o.row].batch \in DOMAIN batch
        /\ o.op \notin {"batch_create", "PO_ADD", "ready", "schedule", "stage"}
    BY <1>0, <1>3, FormRow, OpsApart DEF Referring
  <2> DEFINE b == po[o.row].batch
             late == o.op = "PO_LATE"
  <2>2. PICK s \in PoMoves :
          /\ po' = IF o.base = Base(o)
                   THEN [po EXCEPT ![o.row].status = s[2],
                                   ![o.row].eta = IF late THEN @ + 1 ELSE @]
                   ELSE po
          /\ batch' = IF late THEN [batch EXCEPT ![b].needs_reschedule = @ \/ batch[b].plan # <<>>]
                      ELSE batch
    BY <1>3, Zenon DEF StepPurchaseOrder
  <2>3. po' \in Seq(PoRow) /\ OrderRows(o)
    <3>1. CASE po' = po
      BY <1>0, <3>1, OrdersStill
    <3>2. CASE po' = [po EXCEPT ![o.row].status = s[2], ![o.row].eta = IF late THEN @ + 1 ELSE @]
      <4> DEFINE e == IF late THEN po[o.row].eta + 1 ELSE po[o.row].eta
                 r == [po[o.row] EXCEPT !.status = s[2], !.eta = e]
      <4>1. e \in Nat
        <5>1. po[o.row].eta \in Nat
          BY <1>0, <2>1 DEF PoRow
        <5> QED BY <5>1
      <4>2. po' = [po EXCEPT ![o.row] = r]
        BY <1>0, <2>1, <3>2
      <4> HIDE DEF e
      <4>3. r \in PoRow /\ r.batch = po[o.row].batch
        <5>1. po[o.row] \in PoRow /\ s[2] \in {"OPEN", "ARRIVED", "CANCELLED"}
          BY <1>0, <2>1, PoStepsAre
        <5> QED BY <4>1, <5>1 DEF PoRow
      <4> HIDE DEF r
      <4> QED BY <1>0, <1>3, <2>1, <4>2, <4>3, OrderPut
    <3> QED BY <2>2, <3>1, <3>2
  <2>4. batch' \in Seq(BatchRow) /\ BatchRows(o)
    <3>1. CASE batch' = batch
      BY <1>0, <2>1, <3>1, BatchesStill
    <3>2. CASE batch' = [batch EXCEPT ![b].needs_reschedule = @ \/ batch[b].plan # <<>>]
      <4> DEFINE k == batch[b].plan # <<>>
                 r == [batch[b] EXCEPT !.needs_reschedule = batch[b].needs_reschedule \/ k]
      <4>1. k \in BOOLEAN
        OBVIOUS
      <4>2. batch' = [batch EXCEPT ![b] = r]
        BY <1>0, <2>1, <3>2
      <4>3. b \in DOMAIN batch /\ batch[b] \in BatchRow
        BY <1>0, <2>1
      <4> HIDE DEF k
      <4>4. /\ r \in BatchRow /\ r.mou = batch[b].mou /\ r.material = batch[b].material
            /\ r.stages_done = batch[b].stages_done /\ r.plan = batch[b].plan
            /\ r.overdue = batch[b].overdue
        BY <4>1, <4>3, DelayedRow
      <4> HIDE DEF r, b
      <4>5. BatchBy(o, b, r)
        BY <2>1, <4>4 DEF BatchBy
      <4> QED BY <1>0, <2>1, <4>2, <4>3, <4>4, <4>5, BatchStill, BatchPut
    <3> QED BY <2>2, <3>1, <3>2
  <2> QED BY <2>3, <2>4
<1>4. CASE o.op = "ready" /\ MarkMaterialsReady(o) /\ UNCHANGED po
  <2>1. o.row \in DOMAIN batch
    BY <1>4, FormRow DEF BatchFormOps
  <2>2. CASE batch' = batch
    BY <1>0, <1>4, <2>2, BatchesStill, OrdersStill
  <2>3. CASE OpenOrders(o.row) = {} /\ batch' = [batch EXCEPT ![o.row].material = "READY"]
    <3> DEFINE n == [batch[o.row] EXCEPT !.material = "READY"]
    <3>1. /\ n \in BatchRow /\ n.mou = batch[o.row].mou /\ n.material = "READY"
          /\ n.stages_done = batch[o.row].stages_done /\ n.plan = batch[o.row].plan
          /\ n.overdue = batch[o.row].overdue
      BY <1>0, <2>1, MaterialRow
    <3>2. batch' = [batch EXCEPT ![o.row] = n]
      BY <1>0, <2>1, <2>3
    <3> HIDE DEF n
    <3>3. BatchBy(o, o.row, n)
      BY <1>4, <2>3, <3>1 DEF BatchBy
    <3> QED BY <1>0, <1>4, <2>1, <3>1, <3>2, <3>3, BatchStill, BatchPut, OrdersStill
  <2> QED BY <1>4, <2>2, <2>3 DEF MarkMaterialsReady
<1>5. CASE o.op = "schedule" /\ SaveBatchSchedule(o) /\ UNCHANGED po
  <2>1. o.row \in DOMAIN batch /\ o.arg \in Plans
    BY <1>5, FormRow DEF BatchFormOps, FormOK
  <2>2. CASE batch' = batch
    BY <1>0, <1>5, <2>2, BatchesStill, OrdersStill
  <2>3. CASE batch' = [batch EXCEPT ![o.row].plan = o.arg, ![o.row].needs_reschedule = FALSE,
                                    ![o.row].version = @ + 1]
    <3> DEFINE n == [batch[o.row] EXCEPT !.plan = o.arg, !.needs_reschedule = FALSE, !.version = @ + 1]
    <3>1. /\ n \in BatchRow /\ n.mou = batch[o.row].mou /\ n.material = batch[o.row].material
          /\ n.stages_done = batch[o.row].stages_done /\ n.plan = o.arg
          /\ n.overdue = batch[o.row].overdue
      <4>1. batch[o.row] \in BatchRow
        BY <1>0, <2>1
      <4>2. batch[o.row].version + 1 \in Nat
        <5>1. batch[o.row].version \in Nat
          BY <4>1 DEF BatchRow
        <5> QED BY <5>1
      <4>3. o.arg \in {<<>>} \cup [1 .. 4 -> Nat]
        BY <2>1, Constants
      <4> QED BY <4>1, <4>2, <4>3 DEF BatchRow
    <3>2. batch' = [batch EXCEPT ![o.row] = n]
      BY <1>0, <2>1, <2>3
    <3> HIDE DEF n
    <3>3. BatchBy(o, o.row, n)
      BY <1>5, <3>1 DEF BatchBy
    <3> QED BY <1>0, <1>5, <2>1, <3>1, <3>2, <3>3, BatchStill, BatchPut, OrdersStill
  <2> QED BY <1>5, <2>2, <2>3 DEF SaveBatchSchedule
<1>6. CASE o.op = "stage" /\ RecordBatchStage(o) /\ UNCHANGED po
  <2>1. o.row \in DOMAIN batch /\ o.base[1] # 4
    BY <1>6, FormRow DEF BatchFormOps, FormOK
  <2>2. CASE batch' = batch
    BY <1>0, <1>6, <2>2, BatchesStill, OrdersStill
  <2>3. CASE o.base = Base(o) /\ batch' = [batch EXCEPT ![o.row].stages_done = @ + 1]
    <3> DEFINE n == [batch[o.row] EXCEPT !.stages_done = @ + 1]
    <3>1. batch[o.row].stages_done # 4
      BY <1>6, <2>1, <2>3, BaseIs
    <3>2. /\ n \in BatchRow /\ n.mou = batch[o.row].mou /\ n.material = batch[o.row].material
          /\ n.stages_done = batch[o.row].stages_done + 1 /\ n.plan = batch[o.row].plan
          /\ n.overdue = batch[o.row].overdue
      BY <1>0, <2>1, <3>1, StagedRow
    <3>3. batch' = [batch EXCEPT ![o.row] = n]
      BY <1>0, <2>1, <2>3
    <3> HIDE DEF n
    <3>4. BatchBy(o, o.row, n)
      BY <1>6, <3>2 DEF BatchBy
    <3> QED BY <1>0, <1>6, <2>1, <3>2, <3>3, <3>4, BatchStill, BatchPut, OrdersStill
  <2> QED BY <1>6, <2>2, <2>3 DEF RecordBatchStage
<1> QED BY <1>1, <1>2, <1>3, <1>4, <1>5, <1>6

---------------------------------------------------------------------------
(* What is written to the shipments and claims *)

Moved(o, from, to) == \E n \in ShipmentMoves : n[1] = o.op /\ n[2] = from /\ n[3] = to

\* What a form o may do to row h of the shipments, which becomes `new`.
ShipmentBy(o, h, new) ==
  /\ new.batch = shipment[h].batch
  /\ \/ new.status = shipment[h].status
     \/ o.op \in ShipmentSteps /\ h = o.row /\ Moved(o, shipment[h].status, new.status)
  /\ o.op \in ShipmentSteps /\ h = o.row /\ o.base = Base(o) => Moved(o, shipment[h].status, new.status)

ShipmentRows(o) ==
  /\ \A h \in DOMAIN shipment : ShipmentBy(o, h, shipment'[h])
  /\ o.op # "shipment_create" => DOMAIN shipment' = DOMAIN shipment
  /\ o.op = "shipment_create" =>
       /\ DOMAIN shipment' = DOMAIN shipment \cup {Len(shipment) + 1}
       /\ Len(shipment) + 1 \notin DOMAIN shipment
       /\ shipment'[Len(shipment) + 1].batch = o.row
       /\ shipment'[Len(shipment) + 1].status = "PREPARED"

ClaimRows(o) ==
  /\ \A q \in DOMAIN claim : /\ claim'[q].shipment = claim[q].shipment
                             /\ ~ (o.op = "decide" /\ q = o.row) => claim'[q].status = claim[q].status
                             /\ o.op = "decide" /\ q = o.row => claim'[q].status = "DECIDED"
  /\ o.op # "SHIP_COMPLAINT" => DOMAIN claim' = DOMAIN claim
  /\ o.op = "SHIP_COMPLAINT" =>
       /\ DOMAIN claim' = DOMAIN claim \cup {Len(claim) + 1} /\ Len(claim) + 1 \notin DOMAIN claim
       /\ claim'[Len(claim) + 1].shipment = o.row /\ claim'[Len(claim) + 1].status = "OPEN"

LEMMA ShipmentMethodRow ==
  ASSUME NEW r \in ShipmentRow, NEW a \in Methods
  PROVE  LET b == [r EXCEPT !.version = @ + 1, !.method = a]
         IN b \in ShipmentRow /\ b.batch = r.batch /\ b.status = r.status
<1>1. r.version + 1 \in Nat
  <2>1. r.version \in Nat
    BY DEF ShipmentRow
  <2> QED BY <2>1
<1> QED BY <1>1, Constants DEF ShipmentRow

LEMMA ShipmentPut ==
  ASSUME Rows, NEW o, o.op \in ShipmentSteps, o.row \in DOMAIN shipment, NEW r \in ShipmentRow,
         r.batch = shipment[o.row].batch, Moved(o, shipment[o.row].status, r.status),
         shipment' = [shipment EXCEPT ![o.row] = r]
  PROVE  shipment' \in Seq(ShipmentRow) /\ ShipmentRows(o)
<1>1. shipment \in Seq(ShipmentRow) /\ o.op # "shipment_create"
  BY OpsApart DEF Rows
<1>2. /\ shipment' \in Seq(ShipmentRow) /\ DOMAIN shipment' = DOMAIN shipment
      /\ shipment'[o.row] = r /\ \A h \in DOMAIN shipment : h # o.row => shipment'[h] = shipment[h]
  BY <1>1, Put
<1>3. \A h \in DOMAIN shipment : ShipmentBy(o, h, shipment'[h])
  BY <1>2 DEF ShipmentBy
<1> QED BY <1>1, <1>2, <1>3 DEF ShipmentRows

LEMMA ShipmentsStill ==
  ASSUME Rows, NEW o, shipment' = shipment, o.op # "shipment_create",
         o.op \notin ShipmentSteps \/ o.base # Base(o)
  PROVE  shipment' \in Seq(ShipmentRow) /\ ShipmentRows(o)
BY DEF Rows, ShipmentRows, ShipmentBy

LEMMA ShipmentAdded ==
  ASSUME Rows, NEW o, o.op = "shipment_create", NEW r \in ShipmentRow, r.batch = o.row,
         r.status = "PREPARED", shipment' = Append(shipment, r)
  PROVE  shipment' \in Seq(ShipmentRow) /\ ShipmentRows(o)
<1>1. shipment \in Seq(ShipmentRow) /\ o.op \notin ShipmentSteps
  BY OpsApart DEF Rows
<1>2. /\ shipment' \in Seq(ShipmentRow) /\ DOMAIN shipment' = DOMAIN shipment \cup {Len(shipment) + 1}
      /\ Len(shipment) + 1 \notin DOMAIN shipment /\ shipment'[Len(shipment) + 1] = r
      /\ \A h \in DOMAIN shipment : shipment'[h] = shipment[h]
  BY <1>1, Add
<1>3. \A h \in DOMAIN shipment : ShipmentBy(o, h, shipment'[h])
  BY <1>1, <1>2 DEF ShipmentBy
<1> QED BY <1>2, <1>3 DEF ShipmentRows

LEMMA ClaimsStill ==
  ASSUME Rows, NEW o, o.op \notin {"SHIP_COMPLAINT", "decide"}, claim' = claim
  PROVE  claim' \in Seq(ClaimRow) /\ ClaimRows(o)
BY DEF Rows, ClaimRows

LEMMA ClaimAdded ==
  ASSUME Rows, NEW o, o.op = "SHIP_COMPLAINT", NEW r \in ClaimRow, r.shipment = o.row, r.status = "OPEN",
         claim' = Append(claim, r)
  PROVE  claim' \in Seq(ClaimRow) /\ ClaimRows(o)
<1>1. claim \in Seq(ClaimRow)
  BY DEF Rows
<1>2. /\ claim' \in Seq(ClaimRow) /\ DOMAIN claim' = DOMAIN claim \cup {Len(claim) + 1}
      /\ Len(claim) + 1 \notin DOMAIN claim /\ claim'[Len(claim) + 1] = r
      /\ \A q \in DOMAIN claim : claim'[q] = claim[q]
  BY <1>1, Add
<1> QED BY <1>2 DEF ClaimRows

LEMMA ClaimDecided ==
  ASSUME Rows, NEW o, o.op = "decide", o.row \in DOMAIN claim, DecideQcClaim(o)
  PROVE  claim' \in Seq(ClaimRow) /\ ClaimRows(o)
<1> DEFINE r == [claim[o.row] EXCEPT !.status = "DECIDED"]
<1>1. r \in ClaimRow /\ r.shipment = claim[o.row].shipment /\ r.status = "DECIDED"
  <2>1. claim[o.row] \in ClaimRow
    BY RowTypes
  <2> QED BY <2>1 DEF ClaimRow
<1>2. claim' = [claim EXCEPT ![o.row] = r] /\ claim \in Seq(ClaimRow)
  BY DEF DecideQcClaim, Rows
<1> HIDE DEF r
<1>3. /\ claim' \in Seq(ClaimRow) /\ DOMAIN claim' = DOMAIN claim
      /\ claim'[o.row] = r /\ \A q \in DOMAIN claim : q # o.row => claim'[q] = claim[q]
  BY <1>1, <1>2, Put
<1> QED BY <1>1, <1>3 DEF ClaimRows

\* Who is with the CRM afterwards.
HandedRows(o) ==
  /\ o.op = "SHIP_RECEIVED" => HandOverToCrm(o.row)
  /\ o.op = "decide" => HandOverToCrm(claim[o.row].shipment)
  /\ o.op \notin {"SHIP_RECEIVED", "decide"} => handed' = handed

LEMMA TicketOfType ==
  ASSUME Rows, Referring, NEW b \in DOMAIN batch
  PROVE  TicketOf(b) \in Ticket
<1>1. mou[batch[b].mou] \in MouRow
  BY RowTypes DEF Referring
<1> QED BY <1>1 DEF TicketOf, MouRow

LEMMA HandedType ==
  ASSUME TypeInv, NEW o, FormOK(o, mou, batch, po, shipment, claim), HandedRows(o)
  PROVE  handed' \subseteq Ticket
<1>1. Rows /\ Referring /\ handed \subseteq Ticket
  BY DEF TypeInv, Rows
<1>2. ASSUME NEW h \in DOMAIN shipment, HandOverToCrm(h) PROVE handed' \subseteq Ticket
  <2>1. TicketOf(shipment[h].batch) \in Ticket
    BY <1>1, TicketOfType DEF Referring
  <2> QED BY <1>1, <1>2, <2>1 DEF HandOverToCrm
<1>3. /\ o.op = "SHIP_RECEIVED" => o.row \in DOMAIN shipment
      /\ o.op = "decide" => claim[o.row].shipment \in DOMAIN shipment
  BY <1>1, FormRow, ShipmentStepsAre DEF Referring
<1> QED BY <1>1, <1>2, <1>3 DEF HandedRows

LEMMA ShipmentStepped ==
  ASSUME TypeInv, NEW o, FormOK(o, mou, batch, po, shipment, claim),
         o.op \in ShipmentSteps, RecordShipmentStep(o)
  PROVE  /\ shipment' \in Seq(ShipmentRow) /\ claim' \in Seq(ClaimRow)
         /\ ShipmentRows(o) /\ ClaimRows(o)
<1>0. Rows /\ o.row \in DOMAIN shipment /\ shipment[o.row] \in ShipmentRow /\ o.row \in Nat
  BY FormRow, RowTypes, RowNumbers DEF TypeInv
<1>b. Base(o) = <<shipment[o.row].status, shipment[o.row].version>>
  BY BaseIs
<1>a. /\ o.op = "SHIP_UPDATE" => o.arg \in Methods
      /\ o.op # "SHIP_UPDATE" => o.arg \in BOOLEAN
      /\ o.op # "decide" /\ o.op # "shipment_create"
  BY OpsApart DEF FormOK
<1>1. PICK n \in ShipmentMoves :
        /\ n[1] = o.op /\ n[2] = o.base[1]
        /\ shipment' =
             IF o.base # Base(o) THEN shipment
             ELSE IF o.op = "SHIP_UPDATE"
             THEN [shipment EXCEPT ![o.row].version = @ + 1, ![o.row].method = o.arg]
             ELSE [shipment EXCEPT ![o.row].version = @ + 1, ![o.row].status = n[3],
                                   ![o.row].tracking = @ \/ o.arg]
        /\ claim' = IF o.op = "SHIP_COMPLAINT"
                    THEN Append(claim, [shipment |-> o.row, status |-> "OPEN"]) ELSE claim
  BY Zenon DEF RecordShipmentStep
<1>2. claim' \in Seq(ClaimRow) /\ ClaimRows(o)
  <2>1. CASE o.op = "SHIP_COMPLAINT"
    <3> DEFINE r == [shipment |-> o.row, status |-> "OPEN"]
    <3>1. r \in ClaimRow /\ r.shipment = o.row /\ r.status = "OPEN"
      BY <1>0 DEF ClaimRow
    <3>2. claim' = Append(claim, r)
      BY <1>1, <2>1
    <3> HIDE DEF r
    <3> QED BY <1>0, <2>1, <3>1, <3>2, ClaimAdded
  <2>2. CASE o.op # "SHIP_COMPLAINT"
    BY <1>0, <1>1, <1>a, <2>2, ClaimsStill
  <2> QED BY <2>1, <2>2
<1>3. CASE o.base # Base(o)
  BY <1>0, <1>1, <1>2, <1>a, <1>3, ShipmentsStill
<1>4. CASE o.base = Base(o) /\ o.op = "SHIP_UPDATE"
  <2> DEFINE r == [shipment[o.row] EXCEPT !.version = @ + 1, !.method = o.arg]
  <2>1. r \in ShipmentRow /\ r.batch = shipment[o.row].batch /\ r.status = shipment[o.row].status
    BY <1>0, <1>4, <1>a, ShipmentMethodRow
  <2>2. shipment' = [shipment EXCEPT ![o.row] = r]
    <3>1. shipment' = [shipment EXCEPT ![o.row].version = @ + 1, ![o.row].method = o.arg]
      BY <1>1, <1>4, Zenon
    <3> QED BY <1>0, <3>1
  <2>3. Moved(o, shipment[o.row].status, shipment[o.row].status)
    BY <1>1, <1>4, <1>b, ShipmentStepsAre DEF Moved
  <2> HIDE DEF r
  <2> QED BY <1>0, <1>2, <2>1, <2>2, <2>3, ShipmentPut
<1>5. CASE o.base = Base(o) /\ o.op # "SHIP_UPDATE"
  <2> DEFINE r == [shipment[o.row] EXCEPT !.version = @ + 1, !.status = n[3], !.tracking = @ \/ o.arg]
  <2>1. r \in ShipmentRow /\ r.batch = shipment[o.row].batch /\ r.status = n[3]
    <3>1. n[3] \in {"PREPARED", "SHIPPED", "FORWARDED", "CANCELLED", "RECEIVED", "COMPLAINED"}
      BY <1>1, ShipmentStepsAre
    <3> DEFINE old == shipment[o.row]
               to == n[3]
               k == o.arg
               new == [old EXCEPT !.version = @ + 1, !.status = to, !.tracking = @ \/ k]
    <3>2. /\ old \in ShipmentRow /\ k \in BOOLEAN
          /\ to \in {"PREPARED", "SHIPPED", "FORWARDED", "CANCELLED", "RECEIVED", "COMPLAINED"}
      BY <1>0, <1>5, <1>a, <3>1
    <3> HIDE DEF old, to, k
    <3>3. new \in ShipmentRow /\ new.batch = old.batch /\ new.status = to
      <4>1. old.version + 1 \in Nat
        <5>1. old.version \in Nat
          BY <3>2 DEF ShipmentRow
        <5> QED BY <5>1
      <4> DEFINE t == old.tracking \/ k
      <4>2. t \in BOOLEAN
        OBVIOUS
      <4>3. new = [old EXCEPT !.version = @ + 1, !.status = to, !.tracking = t]
        OBVIOUS
      <4> HIDE DEF t
      <4> DEFINE made == [old EXCEPT !.version = @ + 1, !.status = to, !.tracking = t]
      <4>4. made \in ShipmentRow /\ made.batch = old.batch /\ made.status = to
        BY <3>2, <4>1, <4>2 DEF ShipmentRow
      <4> QED BY <4>3, <4>4
    <3> QED BY <3>3 DEF old, to, k
  <2>2. shipment' = [shipment EXCEPT ![o.row] = r]
    <3>1. shipment' = [shipment EXCEPT ![o.row].version = @ + 1, ![o.row].status = n[3],
                                       ![o.row].tracking = @ \/ o.arg]
      BY <1>1, <1>5, Zenon
    <3> QED BY <1>0, <3>1
  <2>3. Moved(o, shipment[o.row].status, n[3])
    BY <1>1, <1>5, <1>b DEF Moved
  <2> HIDE DEF r
  <2> QED BY <1>0, <1>2, <2>1, <2>2, <2>3, ShipmentPut
<1> QED BY <1>3, <1>4, <1>5

LEMMA ShipmentWrites ==
  ASSUME TypeInv, NEW o, FormOK(o, mou, batch, po, shipment, claim),
         \/ o.op = "shipment_create" /\ CreateShipment(o) /\ UNCHANGED <<claim, handed>>
         \/ /\ o.op \in ShipmentSteps /\ RecordShipmentStep(o)
            /\ IF o.op = "SHIP_RECEIVED" THEN HandOverToCrm(o.row) ELSE UNCHANGED handed
         \/ /\ o.op = "decide" /\ DecideQcClaim(o) /\ UNCHANGED shipment
            /\ HandOverToCrm(claim[o.row].shipment)
  PROVE  /\ shipment' \in Seq(ShipmentRow) /\ claim' \in Seq(ClaimRow) /\ handed' \subseteq Ticket
         /\ ShipmentRows(o) /\ ClaimRows(o) /\ HandedRows(o)
<1>0. Rows
  BY DEF TypeInv
<1>1. CASE o.op = "shipment_create" /\ CreateShipment(o) /\ UNCHANGED <<claim, handed>>
  <2>1. o.row \in DOMAIN batch /\ o.row \in Nat /\ o.arg \in Methods
    BY <1>0, <1>1, FormRow, RowNumbers DEF BatchFormOps, FormOK
  <2> DEFINE r == [batch |-> o.row, method |-> o.arg, tracking |-> FALSE, version |-> 0,
                   status |-> "PREPARED"]
  <2>2. r \in ShipmentRow /\ r.batch = o.row /\ r.status = "PREPARED"
    BY <2>1, Constants DEF ShipmentRow
  <2>3. shipment' = Append(shipment, r)
    BY <1>1 DEF CreateShipment
  <2> HIDE DEF r
  <2>4. HandedRows(o)
    BY <1>1 DEF HandedRows
  <2> QED BY <1>0, <1>1, <2>2, <2>3, <2>4, ShipmentAdded, ClaimsStill, HandedType
<1>2. CASE /\ o.op \in ShipmentSteps /\ RecordShipmentStep(o)
           /\ IF o.op = "SHIP_RECEIVED" THEN HandOverToCrm(o.row) ELSE UNCHANGED handed
  <2>1. HandedRows(o)
    BY <1>2, OpsApart DEF HandedRows
  <2> QED BY <1>2, <2>1, ShipmentStepped, HandedType
<1>3. CASE /\ o.op = "decide" /\ DecideQcClaim(o) /\ UNCHANGED shipment
           /\ HandOverToCrm(claim[o.row].shipment)
  <2>1. o.row \in DOMAIN claim /\ o.op \notin ShipmentSteps
    BY <1>3, FormRow, OpsApart
  <2>2. HandedRows(o)
    BY <1>3 DEF HandedRows
  <2> QED BY <1>0, <1>3, <2>1, <2>2, ClaimDecided, ShipmentsStill, HandedType
<1> QED BY <1>1, <1>2, <1>3

---------------------------------------------------------------------------
(* Types: every step *)

LEMMA WriteGrows ==
  ASSUME TypeInv, NEW o, FormOK(o, mou, batch, po, shipment, claim), Write(o), UNCHANGED outside
  PROVE  /\ Rows' /\ Referring'
         /\ DOMAIN mou \subseteq DOMAIN mou' /\ DOMAIN batch \subseteq DOMAIN batch'
         /\ DOMAIN po \subseteq DOMAIN po' /\ DOMAIN shipment \subseteq DOMAIN shipment'
         /\ DOMAIN claim \subseteq DOMAIN claim'
<1>0. Rows /\ Referring
  BY DEF TypeInv
<1>1. CASE /\ \/ o.op = "mou_create" /\ CreateMou(o)
              \/ o.op = "mou_update" /\ UpdateMou(o)
              \/ o.op \in MouSteps /\ RecordMouStep(o)
              \/ o.op = "legal" /\ RecordLegalDocument(o)
           /\ UNCHANGED <<batch, po, shipment, claim, handed>>
  <2>1. mou' \in Seq(MouRow) /\ DOMAIN mou \subseteq DOMAIN mou'
    BY <1>1, MouWrites DEF MousGrow
  <2> QED BY <1>0, <1>1, <2>1 DEF Rows, Referring
<1>2. CASE /\ \/ o.op = "batch_create" /\ CreateBatch(o) /\ UNCHANGED po
              \/ o.op = "PO_ADD" /\ AddPurchaseOrder(o)
              \/ o.op \in PoSteps /\ StepPurchaseOrder(o)
              \/ o.op = "ready" /\ MarkMaterialsReady(o) /\ UNCHANGED po
              \/ o.op = "schedule" /\ SaveBatchSchedule(o) /\ UNCHANGED po
              \/ o.op = "stage" /\ RecordBatchStage(o) /\ UNCHANGED po
           /\ UNCHANGED <<mou, shipment, claim, handed>>
  <2>1. batch' \in Seq(BatchRow) /\ po' \in Seq(PoRow) /\ BatchRows(o) /\ OrderRows(o)
    BY <1>2, BatchWrites
  <2>2. DOMAIN batch \subseteq DOMAIN batch' /\ DOMAIN po \subseteq DOMAIN po'
    BY <2>1 DEF BatchRows, OrderRows
  <2>3. Rows'
    BY <1>0, <1>2, <2>1 DEF Rows
  <2>4. \A b \in DOMAIN batch' : batch'[b].mou \in DOMAIN mou'
    <3>1. o.op = "batch_create" => o.row \in DOMAIN mou
      BY FormRow DEF MouFormOps
    <3> QED BY <1>0, <1>2, <2>1, <3>1 DEF BatchRows, BatchBy, Referring
  <2>5. \A p \in DOMAIN po' : po'[p].batch \in DOMAIN batch'
    <3>1. o.op = "PO_ADD" => o.row \in DOMAIN batch
      BY FormRow DEF BatchFormOps
    <3> QED BY <1>0, <2>1, <2>2, <3>1 DEF OrderRows, Referring
  <2> QED BY <1>0, <1>2, <2>2, <2>3, <2>4, <2>5 DEF Referring
<1>3. CASE /\ \/ o.op = "shipment_create" /\ CreateShipment(o) /\ UNCHANGED <<claim, handed>>
              \/ /\ o.op \in ShipmentSteps /\ RecordShipmentStep(o)
                 /\ IF o.op = "SHIP_RECEIVED" THEN HandOverToCrm(o.row) ELSE UNCHANGED handed
              \/ /\ o.op = "decide" /\ DecideQcClaim(o) /\ UNCHANGED shipment
                 /\ HandOverToCrm(claim[o.row].shipment)
           /\ UNCHANGED <<mou, batch, po>>
  <2>1. /\ shipment' \in Seq(ShipmentRow) /\ claim' \in Seq(ClaimRow) /\ handed' \subseteq Ticket
        /\ ShipmentRows(o) /\ ClaimRows(o)
    BY <1>3, ShipmentWrites
  <2>2. DOMAIN shipment \subseteq DOMAIN shipment' /\ DOMAIN claim \subseteq DOMAIN claim'
    BY <2>1 DEF ShipmentRows, ClaimRows
  <2>3. Rows'
    BY <1>0, <1>3, <2>1 DEF Rows
  <2>4. \A h \in DOMAIN shipment' : shipment'[h].batch \in DOMAIN batch'
    <3>1. o.op = "shipment_create" => o.row \in DOMAIN batch
      BY FormRow DEF BatchFormOps
    <3> QED BY <1>0, <1>3, <2>1, <3>1 DEF ShipmentRows, ShipmentBy, Referring
  <2>5. \A q \in DOMAIN claim' : claim'[q].shipment \in DOMAIN shipment'
    <3>1. o.op = "SHIP_COMPLAINT" => o.row \in DOMAIN shipment
      BY FormRow, ShipmentStepsAre
    <3> QED BY <1>0, <2>1, <2>2, <3>1 DEF ClaimRows, Referring
  <2> QED BY <1>0, <1>3, <2>2, <2>3, <2>4, <2>5 DEF Referring
<1> QED BY <1>1, <1>2, <1>3 DEF Write

LEMMA RuleIs ==
  ASSUME NEW o, Rule(o)
  PROVE  /\ o.op \in MouSteps \cup {"mou_create", "mou_update"} => MouAccepted(o)
         /\ o.op = "legal" => LegalGate(o.row, o.arg[1])
         /\ o.op = "batch_create" => BatchRequest(o.row)
         /\ o.op \in PoSteps \cup {"PO_ADD"} => PurchaseOrderAccepted(o)
         /\ o.op = "ready" => batch[o.row].material # "READY" /\ OpenOrders(o.row) = {}
         /\ o.op = "schedule" => ScheduleLock(o.row, o.arg)
         /\ o.op = "stage" => StageGate(o.row)
         /\ o.op = "shipment_create" => ShipGate(o.row) /\ ActiveShipments(o.row) = {}
         /\ o.op \in ShipmentSteps => ShipmentStepAccepted(o)
         /\ o.op = "decide" => claim[o.row].status = "OPEN"
<1>1. ASSUME o.op \in MouSteps \cup {"mou_create", "mou_update"} PROVE MouAccepted(o)
  BY <1>1, OpsApart DEF Rule
<1>2. ASSUME o.op \in PoSteps \cup {"PO_ADD"} PROVE PurchaseOrderAccepted(o)
  BY <1>2, OpsApart DEF Rule
<1>3. ASSUME o.op \in ShipmentSteps PROVE ShipmentStepAccepted(o)
  BY <1>3, OpsApart DEF Rule
<1>4. ASSUME o.op \in {"legal", "batch_create", "ready", "schedule", "stage", "shipment_create", "decide"}
      PROVE  /\ o.op = "legal" => LegalGate(o.row, o.arg[1])
             /\ o.op = "batch_create" => BatchRequest(o.row)
             /\ o.op = "ready" => batch[o.row].material # "READY" /\ OpenOrders(o.row) = {}
             /\ o.op = "schedule" => ScheduleLock(o.row, o.arg)
             /\ o.op = "stage" => StageGate(o.row)
             /\ o.op = "shipment_create" => ShipGate(o.row) /\ ActiveShipments(o.row) = {}
             /\ o.op = "decide" => claim[o.row].status = "OPEN"
  BY <1>4, OpsApart DEF Rule
<1> QED BY <1>1, <1>2, <1>3, <1>4

\* What a desk fills in, seen again as a form.
LEMMA FilledOK ==
  ASSUME Rows, NEW b \in Drafts, NEW o, o = Filled(b), Guard(o)
  PROVE  FormOK(o, mou, batch, po, shipment, claim)
<1>1. /\ o = [op |-> b.op, row |-> b.row, arg |-> b.arg, base |-> Base(b),
              seen |-> IF b.op = "schedule" THEN Delays(b.row) ELSE Base(b)]
  BY DEF Filled
<1>2. /\ o = [op |-> o.op, row |-> o.row, arg |-> o.arg, base |-> o.base, seen |-> o.seen]
      /\ o.op = b.op /\ o.row = b.row /\ o.arg = b.arg
  BY <1>1
<1>3. o.op = "stage" => o.base[1] # 4
  <2>1. o.op = "stage" => o.base = <<batch[o.row].stages_done>> /\ StageGate(o.row)
    BY BaseIs, RuleIs DEF Guard
  <2>2. StageGate(o.row) => batch[o.row].stages_done # 4
    BY DEF StageGate
  <2> QED BY <2>1, <2>2
<1>4. /\ \/ b.op = "mou_create" /\ b.row \in Ticket
         \/ b.op \in MouFormOps /\ b.row \in DOMAIN mou
         \/ b.op \in BatchFormOps /\ b.row \in DOMAIN batch
         \/ b.op \in PoSteps /\ b.row \in DOMAIN po
         \/ b.op \in ShipmentSteps /\ b.row \in DOMAIN shipment
         \/ b.op = "decide" /\ b.row \in DOMAIN claim
      /\ b.op \in {"mou_create", "mou_update"} => b.arg \in Paths
      /\ b.op = "legal" => b.arg \in LegalSteps
      /\ b.op = "schedule" => b.arg \in Plans
      /\ b.op \in {"shipment_create", "SHIP_UPDATE"} => b.arg \in Methods
      /\ b.op \in ShipmentSteps \ {"SHIP_UPDATE"} => b.arg \in BOOLEAN
  <2>1. CASE b \in MouForms \cup MouStepForms \cup LegalForms \cup BatchForms
    BY <2>1, MouStepsAre, ShipmentStepsAre DEF MouForms, MouStepForms, LegalForms, BatchForms, MouFormOps
  <2>2. CASE b \in OrderForms \cup ReadyForms \cup ScheduleForms \cup StageForms
    BY <2>2, ShipmentStepsAre DEF OrderForms, ReadyForms, ScheduleForms, StageForms, BatchFormOps
  <2>3. CASE b \in OrderStepForms \cup ClaimForms
    BY <2>3, PoStepsAre, ShipmentStepsAre DEF OrderStepForms, ClaimForms
  <2>4. CASE b \in ShipmentForms \cup ShipmentStepForms
    BY <2>4, ShipmentStepsAre DEF ShipmentForms, ShipmentStepForms, BatchFormOps
  <2> QED BY <2>1, <2>2, <2>3, <2>4 DEF Drafts
<1> QED BY <1>2, <1>3, <1>4 DEF FormOK

\* The form a handler checks: the base read anew, what it was filled in for.
LEMMA SentOK ==
  ASSUME NEW b, FormOK(b, mou, batch, po, shipment, claim),
         NEW o, o = [b EXCEPT !.base = Base(b)], Rule(o)
  PROVE  FormOK(o, mou, batch, po, shipment, claim) /\ Guard(o)
<1>1. b = [op |-> b.op, row |-> b.row, arg |-> b.arg, base |-> b.base, seen |-> b.seen]
  BY DEF FormOK
<1>2. /\ o = [op |-> o.op, row |-> o.row, arg |-> o.arg, base |-> o.base, seen |-> o.seen]
      /\ o.op = b.op /\ o.row = b.row /\ o.arg = b.arg /\ o.base = Base(b)
  BY <1>1
<1>3. Base(o) = Base(b)
  BY <1>2 DEF Base
<1>4. o.op = "stage" => o.base[1] # 4
  <2>1. o.op = "stage" => o.base = <<batch[o.row].stages_done>> /\ StageGate(o.row)
    BY <1>2, <1>3, BaseIs, RuleIs
  <2>2. StageGate(o.row) => batch[o.row].stages_done # 4
    BY DEF StageGate
  <2> QED BY <2>1, <2>2
<1> QED BY <1>2, <1>3, <1>4 DEF FormOK, Guard

LEMMA TypeInit == Init => TypeInv
<1> SUFFICES ASSUME Init PROVE TypeInv
  OBVIOUS
<1>1. Rows
  BY DEF Init, Rows, OutsideRow
<1>2. Referring
  BY DEF Init, Referring
<1>3. FormsOK
  BY DEF Init, FormsOK
<1>4. DesksOK
  <2>1. MaxLost \in Nat
    BY Constants
  <2>2. passed = {} /\ raced = FALSE /\ lost = 0
    BY DEF Init
  <2>3. raced \in BOOLEAN
    BY <2>2, Zenon
  <2>4. lost \in 0 .. MaxLost
    BY <2>1, <2>2
  <2> QED BY <2>2, <2>3, <2>4 DEF DesksOK
<1> QED BY <1>1, <1>2, <1>3, <1>4 DEF TypeInv

\* The desks keep their forms while rows are added, but for the one that moves.
LEMMA FormsGrow ==
  ASSUME FormsOK,
         DOMAIN mou \subseteq DOMAIN mou', DOMAIN batch \subseteq DOMAIN batch',
         DOMAIN po \subseteq DOMAIN po', DOMAIN shipment \subseteq DOMAIN shipment',
         DOMAIN claim \subseteq DOMAIN claim',
         form' = [d \in Desk |-> form'[d]],
         \A d \in Desk : form'[d] \in {form[d], None}
  PROVE  FormsOK'
<1> SUFFICES ASSUME NEW d \in Desk, form'[d] # None
             PROVE  FormOK(form'[d], mou', batch', po', shipment', claim')
  BY DEF FormsOK
<1>1. form'[d] = form[d] /\ FormOK(form[d], mou, batch, po, shipment, claim)
  BY DEF FormsOK
<1> QED BY <1>1, FormGrows

LEMMA DomainsStay ==
  ASSUME UNCHANGED rows
  PROVE  /\ DOMAIN mou \subseteq DOMAIN mou' /\ DOMAIN batch \subseteq DOMAIN batch'
         /\ DOMAIN po \subseteq DOMAIN po' /\ DOMAIN shipment \subseteq DOMAIN shipment'
         /\ DOMAIN claim \subseteq DOMAIN claim'
BY DEF rows

LEMMA RowsStay ==
  ASSUME Rows, Referring, UNCHANGED rows, UNCHANGED outside
  PROVE  Rows' /\ Referring'
BY DEF rows, Rows, Referring

LEMMA TypeStep == TypeInv /\ [Next]_vars => TypeInv'
<1> SUFFICES ASSUME TypeInv, [Next]_vars PROVE TypeInv'
  OBVIOUS
<1>0. Rows /\ Referring /\ FormsOK /\ DesksOK
  BY DEF TypeInv
<1>f. form = [d \in Desk |-> form[d]] /\ Device \subseteq Desk /\ WebDesk \subseteq Desk
  BY <1>0 DEF FormsOK, Desk
<1>p. /\ passed \subseteq Device /\ raced \in BOOLEAN /\ lost \in 0 .. MaxLost /\ MaxLost \in Nat
      /\ \A d \in passed : form[d] # None
      /\ \A w \in WebDesk : w \notin passed
  <2>1. passed \subseteq Device /\ raced \in BOOLEAN /\ lost \in 0 .. MaxLost /\ MaxLost \in Nat
    BY <1>0, Constants DEF DesksOK
  <2>2. \A d \in passed : form[d] # None
    BY <1>0 DEF DesksOK
  <2>3. \A w \in WebDesk : w \notin passed
    BY <2>1, ProductionAssumption
  <2> QED BY <2>1, <2>2, <2>3
<1>1. ASSUME NEW d \in Desk, Fill(d) PROVE TypeInv'
  <2>1. PICK o \in Drafts : Guard(Filled(o)) /\ form' = [form EXCEPT ![d] = Filled(o)]
    BY <1>1 DEF Fill
  <2>2. FormOK(Filled(o), mou, batch, po, shipment, claim)
    BY <1>0, <2>1, FilledOK
  <2>3. Rows' /\ Referring' /\ mou' = mou /\ batch' = batch /\ po' = po /\ shipment' = shipment /\ claim' = claim
    BY <1>0, <1>1, RowsStay DEF Fill, rows
  <2>4. FormsOK'
    <3>1. \A e \in Desk : form'[e] = IF e = d THEN Filled(o) ELSE form[e]
      BY <1>f, <2>1
    <3>2. form' = [e \in Desk |-> form'[e]]
      BY <1>f, <2>1
    <3> HIDE DEF Filled
    <3>3. \A e \in Desk : form'[e] # None => FormOK(form'[e], mou, batch, po, shipment, claim)
      BY <1>0, <2>2, <3>1 DEF FormsOK
    <3> QED BY <2>3, <3>2, <3>3 DEF FormsOK
  <2>5. DesksOK'
    <3>1. d \notin passed
      BY <1>1, <1>p DEF Fill
    <3> QED BY <1>1, <1>f, <1>p, <3>1 DEF DesksOK, Fill
  <2> QED BY <2>3, <2>4, <2>5 DEF TypeInv
<1>2. ASSUME NEW w \in WebDesk, Close(w) PROVE TypeInv'
  <2>1. /\ form' = [d \in Desk |-> form'[d]] /\ \A d \in Desk : form'[d] \in {form[d], None}
        /\ \A d \in Desk : d # w => form'[d] = form[d]
    BY <1>2, <1>f DEF Close
  <2>2. Rows' /\ Referring' /\ FormsOK'
    BY <1>0, <1>2, <2>1, RowsStay, DomainsStay, FormsGrow DEF Close
  <2>3. DesksOK'
    BY <1>2, <1>p, <1>f, <2>1 DEF DesksOK, Close
  <2> QED BY <2>2, <2>3 DEF TypeInv
<1>3. ASSUME NEW w \in WebDesk, Submit(w) PROVE TypeInv'
  <2>1. /\ form' = [d \in Desk |-> form'[d]] /\ \A d \in Desk : form'[d] \in {form[d], None}
        /\ \A d \in Desk : d # w => form'[d] = form[d]
    BY <1>3, <1>f DEF Submit
  <2>2. /\ Rows' /\ Referring'
        /\ DOMAIN mou \subseteq DOMAIN mou' /\ DOMAIN batch \subseteq DOMAIN batch'
        /\ DOMAIN po \subseteq DOMAIN po' /\ DOMAIN shipment \subseteq DOMAIN shipment'
        /\ DOMAIN claim \subseteq DOMAIN claim'
    <3> DEFINE o == [form[w] EXCEPT !.base = Base(form[w])]
    <3>1. FormOK(form[w], mou, batch, po, shipment, claim) /\ UNCHANGED outside
      BY <1>0, <1>3, <1>f DEF Submit, FormsOK
    <3>2. IF Rule(o) THEN Write(o) ELSE UNCHANGED rows
      BY <1>3 DEF Submit
    <3>3. Rule(o) => FormOK(o, mou, batch, po, shipment, claim)
      BY <3>1, SentOK
    <3> HIDE DEF o
    <3>4. CASE Rule(o)
      BY <3>1, <3>2, <3>3, <3>4, WriteGrows
    <3>5. CASE ~ Rule(o)
      BY <1>0, <3>1, <3>2, <3>5, RowsStay, DomainsStay
    <3> QED BY <3>4, <3>5
  <2>3. DesksOK'
    <3>1. passed' = passed /\ raced' = raced
      BY <1>3 DEF Submit
    <3>2. lost' \in 0 .. MaxLost
      BY <1>3, <1>p DEF Submit
    <3> QED BY <1>p, <1>f, <2>1, <3>1, <3>2 DEF DesksOK
  <2> QED BY <1>0, <2>1, <2>2, <2>3, FormsGrow DEF TypeInv
<1>4. ASSUME NEW d \in Device, Refuse(d) PROVE TypeInv'
  <2>1. /\ form' = [e \in Desk |-> form'[e]] /\ \A e \in Desk : form'[e] \in {form[e], None}
        /\ \A e \in Desk : e # d => form'[e] = form[e]
    BY <1>4, <1>f DEF Refuse
  <2>2. Rows' /\ Referring' /\ FormsOK'
    BY <1>0, <1>4, <2>1, RowsStay, DomainsStay, FormsGrow DEF Refuse
  <2>3. DesksOK'
    BY <1>4, <1>p, <1>f, <2>1 DEF DesksOK, Refuse
  <2> QED BY <2>2, <2>3 DEF TypeInv
<1>5. ASSUME NEW d \in Device, Pass(d) PROVE TypeInv'
  <2>1. form' = form
    BY <1>5 DEF Pass
  <2>2. Rows' /\ Referring' /\ FormsOK'
    BY <1>0, <1>5, <1>f, <2>1, RowsStay, DomainsStay, FormsGrow DEF Pass
  <2>3. DesksOK'
    BY <1>5, <1>p DEF DesksOK, Pass
  <2> QED BY <2>2, <2>3 DEF TypeInv
<1>6. ASSUME NEW d \in Device, Commit(d) PROVE TypeInv'
  <2>1. /\ form' = [e \in Desk |-> form'[e]] /\ \A e \in Desk : form'[e] \in {form[e], None}
        /\ \A e \in Desk : e # d => form'[e] = form[e]
    BY <1>6, <1>f DEF Commit
  <2>2. FormOK(form[d], mou, batch, po, shipment, claim) /\ Write(form[d]) /\ UNCHANGED outside
    BY <1>0, <1>6, <1>f, <1>p DEF Commit, FormsOK
  <2>3. /\ Rows' /\ Referring'
        /\ DOMAIN mou \subseteq DOMAIN mou' /\ DOMAIN batch \subseteq DOMAIN batch'
        /\ DOMAIN po \subseteq DOMAIN po' /\ DOMAIN shipment \subseteq DOMAIN shipment'
        /\ DOMAIN claim \subseteq DOMAIN claim'
    BY <2>2, WriteGrows
  <2>4. DesksOK'
    BY <1>6, <1>p, <1>f, <2>1 DEF DesksOK, Commit
  <2> QED BY <1>0, <2>1, <2>3, <2>4, FormsGrow DEF TypeInv
<1>7. CASE StorageAccrues
  <2>1. PICK b \in DOMAIN batch : batch' = [batch EXCEPT ![b].overdue = TRUE]
    BY <1>7 DEF StorageAccrues
  <2>2. /\ UNCHANGED <<outside, mou, po, shipment, claim, handed, form, passed, raced, lost>>
    BY <1>7 DEF StorageAccrues
  <2> DEFINE r == [batch[b] EXCEPT !.overdue = TRUE]
  <2>3. r \in BatchRow /\ r.mou = batch[b].mou /\ batch \in Seq(BatchRow)
    <3>1. batch[b] \in BatchRow
      BY <1>0, RowTypes
    <3> QED BY <1>0, <3>1 DEF BatchRow, Rows
  <2>4. batch' = [batch EXCEPT ![b] = r]
    BY <2>1
  <2> HIDE DEF r
  <2>5. /\ batch' \in Seq(BatchRow) /\ DOMAIN batch' = DOMAIN batch
        /\ batch'[b] = r /\ \A c \in DOMAIN batch : c # b => batch'[c] = batch[c]
    BY <2>3, <2>4, Put
  <2>6. Rows' /\ Referring'
    BY <1>0, <2>2, <2>3, <2>5 DEF Rows, Referring
  <2>7. FormsOK' /\ DesksOK'
    BY <1>0, <1>f, <2>2, <2>5, FormsGrow DEF DesksOK
  <2> QED BY <2>6, <2>7 DEF TypeInv
<1>8. CASE OutsideMoves
  <2>1. outside' \in [Ticket -> OutsideRow] /\ UNCHANGED <<rows, form, passed, raced, lost>>
    BY <1>8 DEF OutsideMoves
  <2>2. Rows' /\ Referring'
    BY <1>0, <2>1 DEF Rows, Referring, rows
  <2>3. FormsOK' /\ DesksOK'
    BY <1>0, <1>f, <2>1, DomainsStay, FormsGrow DEF DesksOK
  <2> QED BY <2>2, <2>3 DEF TypeInv
<1>9. CASE UNCHANGED vars
  BY <1>0, <1>f, <1>9, RowsStay, DomainsStay, FormsGrow DEF vars, DesksOK, TypeInv
<1> QED BY <1>1, <1>2, <1>3, <1>4, <1>5, <1>6, <1>7, <1>8, <1>9 DEF Next, DeskStep

\* Every state is well typed: rows are of their tables and the forms of the desks
\* point at rows that exist, whatever is written late.
THEOREM TypeCorrect == Spec => []TypeOK
BY TypeInit, TypeStep, TypeIs, PTL DEF Spec

---------------------------------------------------------------------------
(* What holds of an order *)

\* A settlement that is issued and not paid leaves something unpaid before shipping.
OutsideInv == \A t \in Ticket : outside[t].settlement_issued /\ ~ outside[t].settlement_cleared
                                  => outside[t].ship_unpaid

\* A work order is for an accepted MoU whose down payment is paid; what is ready
\* waits for no order, and what has started had everything.
WorkInv ==
  \A b \in DOMAIN batch :
    /\ mou[batch[b].mou].status = "ACCEPTED" /\ outside[TicketOf(b)].dp_cleared
    /\ batch[b].material = "READY" => OpenOrders(b) = {}
    /\ batch[b].stages_done # 0 =>
         batch[b].material = "READY" /\ batch[b].plan # <<>> /\ LegalComplete(batch[b].mou)

\* Whatever is prepared for shipping is packed and paid.
PackedInv == \A h \in DOMAIN shipment : /\ batch[shipment[h].batch].stages_done = 4
                                        /\ outside[TicketOf(shipment[h].batch)].settlement_cleared

SingleMou == \A m, n \in DOMAIN mou :
               mou[m].ticket = mou[n].ticket /\ Active(m) /\ Active(n) => m = n

SingleBatch == \A b, c \in DOMAIN batch : batch[b].mou = batch[c].mou => b = c

SingleShipment == \A h, k \in DOMAIN shipment :
                    shipment[h].batch = shipment[k].batch /\ shipment[h].status # "CANCELLED"
                      /\ shipment[k].status # "CANCELLED" => h = k

SingleClaim == /\ \A q, r \in DOMAIN claim : claim[q].shipment = claim[r].shipment => q = r
               /\ \A h \in DOMAIN shipment : (shipment[h].status = "COMPLAINED") <=>
                    \E q \in DOMAIN claim : claim[q].shipment = h

HandedInv == \A t \in Ticket : t \in handed <=>
               \E h \in DOMAIN shipment : /\ OrderCompleted(h, shipment, claim)
                                          /\ TicketOf(shipment[h].batch) = t

OrderInv == WorkInv /\ PackedInv /\ SingleMou /\ SingleBatch /\ SingleShipment /\ SingleClaim /\ HandedInv

\* The order a work order belongs to never changes.
LEMMA TicketKept ==
  ASSUME Referring, MousGrow, NEW b \in DOMAIN batch, batch'[b].mou = batch[b].mou
  PROVE  TicketOf(b)' = TicketOf(b)
BY DEF Referring, MousGrow, MouTo, TicketOf

LEMMA LegalKept ==
  ASSUME MousGrow, NEW m \in DOMAIN mou, mou[m].status = "ACCEPTED", LegalComplete(m)
  PROVE  mou'[m].status = "ACCEPTED" /\ LegalComplete(m)'
<1>1. MouTo(mou[m], mou'[m])
  BY DEF MousGrow
<1>2. mou'[m].status = "ACCEPTED" /\ mou'[m].path = mou[m].path
  BY <1>1 DEF MouTo
<1>3. RequiredLegalKinds(mou[m].path) \subseteq LegalKinds
  BY DEF RequiredLegalKinds, LegalKinds
<1> QED BY <1>1, <1>2, <1>3 DEF MouTo, LegalComplete

LEMMA AcceptedKept ==
  ASSUME MousGrow, NEW m \in DOMAIN mou, mou[m].status = "ACCEPTED"
  PROVE  mou'[m].status = "ACCEPTED"
BY DEF MousGrow, MouTo

LEMMA MouKeepsOrders ==
  ASSUME TypeInv, OrderInv, NEW o, FormOK(o, mou, batch, po, shipment, claim), Guard(o),
         \/ o.op = "mou_create" /\ CreateMou(o)
         \/ o.op = "mou_update" /\ UpdateMou(o)
         \/ o.op \in MouSteps /\ RecordMouStep(o)
         \/ o.op = "legal" /\ RecordLegalDocument(o),
         UNCHANGED <<outside, batch, po, shipment, claim, handed>>
  PROVE  OrderInv'
<1>0. Rows /\ Referring
  BY DEF TypeInv
<1>i. WorkInv /\ PackedInv /\ SingleMou /\ SingleBatch /\ SingleShipment /\ SingleClaim /\ HandedInv
  BY DEF OrderInv
<1>1. /\ MousGrow
      /\ o.op # "mou_create" => DOMAIN mou' = DOMAIN mou
      /\ o.op = "mou_create" =>
              /\ DOMAIN mou' = DOMAIN mou \cup {Len(mou) + 1} /\ Len(mou) + 1 \notin DOMAIN mou
              /\ mou'[Len(mou) + 1].ticket = o.row
  BY MouWrites
<1>2. \A b \in DOMAIN batch : TicketOf(b)' = TicketOf(b)
  BY <1>0, <1>1, TicketKept
<1>3. WorkInv'
  <2> SUFFICES ASSUME NEW b \in DOMAIN batch
               PROVE  /\ mou'[batch[b].mou].status = "ACCEPTED" /\ outside[TicketOf(b)].dp_cleared
                      /\ batch[b].material = "READY" => OpenOrders(b)' = {}
                      /\ batch[b].stages_done # 0 =>
                           /\ batch[b].material = "READY" /\ batch[b].plan # <<>>
                           /\ LegalComplete(batch[b].mou)'
    BY <1>2 DEF WorkInv
  <2>1. batch[b].mou \in DOMAIN mou /\ mou[batch[b].mou].status = "ACCEPTED"
    BY <1>0, <1>i DEF Referring, WorkInv
  <2>2. OpenOrders(b)' = OpenOrders(b)
    BY DEF OpenOrders, OrdersOf
  <2>3. ASSUME NEW m \in DOMAIN mou, m = batch[b].mou
        PROVE  mou'[m].status = "ACCEPTED" /\ (LegalComplete(m) => LegalComplete(m)')
    BY <1>1, <2>1, <2>3, LegalKept, AcceptedKept
  <2>4. LegalComplete(batch[b].mou) => LegalComplete(batch[b].mou)'
    BY <2>1, <2>3 DEF LegalComplete
  <2> QED BY <1>i, <2>1, <2>2, <2>3, <2>4 DEF WorkInv
<1>4. PackedInv'
  BY <1>0, <1>i, <1>2 DEF PackedInv, Referring
<1>5. SingleMou'
  <2>1. \A m \in DOMAIN mou : mou'[m].ticket = mou[m].ticket /\ (Active(m)' => Active(m))
    BY <1>1 DEF MousGrow, MouTo, Active
  <2>2. o.op = "mou_create" => \A m \in DOMAIN mou : mou[m].ticket = o.row => ~ Active(m)
    BY RuleIs, OpsApart DEF Guard, MouAccepted
  <2> SUFFICES ASSUME NEW m \in DOMAIN mou', NEW n \in DOMAIN mou',
                      mou'[m].ticket = mou'[n].ticket, Active(m)', Active(n)', m # n
               PROVE  FALSE
    BY DEF SingleMou
  <2>3. CASE m \in DOMAIN mou /\ n \in DOMAIN mou
    BY <1>i, <2>1, <2>3 DEF SingleMou
  <2>4. CASE m \in DOMAIN mou /\ n \notin DOMAIN mou
    BY <1>1, <2>1, <2>2, <2>4
  <2>5. CASE m \notin DOMAIN mou /\ n \in DOMAIN mou
    BY <1>1, <2>1, <2>2, <2>5
  <2>6. CASE m \notin DOMAIN mou /\ n \notin DOMAIN mou
    BY <1>1, <2>6
  <2> QED BY <2>3, <2>4, <2>5, <2>6
<1>6. SingleBatch' /\ SingleShipment' /\ SingleClaim'
  BY <1>i DEF SingleBatch, SingleShipment, SingleClaim
<1>7. HandedInv'
  BY <1>0, <1>i, <1>2 DEF HandedInv, OrderCompleted, Referring
<1> QED BY <1>3, <1>4, <1>5, <1>6, <1>7 DEF OrderInv

LEMMA BatchKeepsOrders ==
  ASSUME TypeInv, OrderInv, NEW o, FormOK(o, mou, batch, po, shipment, claim), Guard(o),
         \/ o.op = "batch_create" /\ CreateBatch(o) /\ UNCHANGED po
         \/ o.op = "PO_ADD" /\ AddPurchaseOrder(o)
         \/ o.op \in PoSteps /\ StepPurchaseOrder(o)
         \/ o.op = "ready" /\ MarkMaterialsReady(o) /\ UNCHANGED po
         \/ o.op = "schedule" /\ SaveBatchSchedule(o) /\ UNCHANGED po
         \/ o.op = "stage" /\ RecordBatchStage(o) /\ UNCHANGED po,
         UNCHANGED <<outside, mou, shipment, claim, handed>>
  PROVE  OrderInv'
<1>0. Rows /\ Referring /\ MousGrow
  BY GrowIdle DEF TypeInv
<1>i. WorkInv /\ PackedInv /\ SingleMou /\ SingleBatch /\ SingleShipment /\ SingleClaim /\ HandedInv
  BY DEF OrderInv
<1>1. BatchRows(o) /\ OrderRows(o)
  BY BatchWrites
<1>2. \A b \in DOMAIN batch : BatchBy(o, b, batch'[b])
  BY <1>1 DEF BatchRows
<1>3. \A b \in DOMAIN batch : TicketOf(b)' = TicketOf(b)
  BY <1>0, <1>2, TicketKept DEF BatchBy
<1>4. \A b \in DOMAIN batch' \ DOMAIN batch :
         /\ o.op = "batch_create" /\ batch'[b].mou = o.row /\ batch'[b].stages_done = 0
         /\ batch'[b].material = "UNCHECKED"
  BY <1>1 DEF BatchRows
<1>g. /\ o.op = "batch_create" => BatchRequest(o.row)
      /\ o.op = "PO_ADD" => batch[o.row].stages_done = 0
      /\ o.op \in PoSteps => po[o.row].status = "OPEN"
      /\ o.op = "stage" => StageGate(o.row)
      /\ o.op = "schedule" => o.arg # <<>>
  <2>1. /\ o.op = "batch_create" => BatchRequest(o.row)
        /\ o.op \in PoSteps \cup {"PO_ADD"} => PurchaseOrderAccepted(o)
        /\ o.op = "stage" => StageGate(o.row)
    BY RuleIs DEF Guard
  <2>2. o.op = "schedule" => o.arg # <<>>
    BY PlanIsNone DEF FormOK
  <2> QED BY <2>1, <2>2, OpsApart DEF PurchaseOrderAccepted
<1>5. \A b \in DOMAIN batch : batch'[b].material = "READY" => OpenOrders(b)' = {}
  <2> SUFFICES ASSUME NEW b \in DOMAIN batch, batch'[b].material = "READY",
                      NEW p \in DOMAIN po', po'[p].batch = b, po'[p].status = "OPEN"
               PROVE  FALSE
    BY DEF OpenOrders, OrdersOf
  <2>1. ~ (o.op = "PO_ADD" /\ b = o.row)
    BY <1>2 DEF BatchBy
  <2>2. OpenOrders(b) = {}
    BY <1>2, <1>i, <2>1 DEF BatchBy, WorkInv
  <2>3. CASE p \in DOMAIN po
    <3>1. po[p].batch = b /\ po[p].status = "OPEN"
      BY <1>1, <1>g, <2>3 DEF OrderRows
    <3> QED BY <2>2, <2>3, <3>1 DEF OpenOrders, OrdersOf
  <2>4. CASE p \notin DOMAIN po
    BY <1>1, <2>1, <2>4 DEF OrderRows
  <2> QED BY <2>3, <2>4
<1>6. ASSUME NEW b \in DOMAIN batch, batch'[b].stages_done # 0
      PROVE  batch'[b].material = "READY" /\ batch'[b].plan # <<>> /\ LegalComplete(batch[b].mou)
  <2>1. batch[b].material = "READY" /\ batch[b].plan # <<>> /\ LegalComplete(batch[b].mou)
    <3>1. CASE batch[b].stages_done # 0
      BY <1>i, <3>1 DEF WorkInv
    <3>2. CASE batch[b].stages_done = 0
      BY <1>2, <1>6, <1>g, <3>2 DEF BatchBy, StageGate
    <3> QED BY <3>1, <3>2
  <2>2. ~ (o.op = "PO_ADD" /\ b = o.row)
    BY <1>2, <1>6, <1>g DEF BatchBy
  <2> QED BY <1>2, <1>g, <2>1, <2>2 DEF BatchBy
<1>7. WorkInv'
  <2> SUFFICES ASSUME NEW b \in DOMAIN batch'
               PROVE  /\ mou[batch'[b].mou].status = "ACCEPTED" /\ outside[TicketOf(b)'].dp_cleared
                      /\ batch'[b].material = "READY" => OpenOrders(b)' = {}
                      /\ batch'[b].stages_done # 0 =>
                           /\ batch'[b].material = "READY" /\ batch'[b].plan # <<>>
                           /\ LegalComplete(batch'[b].mou)
    BY DEF WorkInv, LegalComplete
  <2>1. CASE b \in DOMAIN batch
    <3>1. batch'[b].mou = batch[b].mou
      BY <1>2, <2>1 DEF BatchBy
    <3> QED BY <1>i, <1>3, <1>5, <1>6, <2>1, <3>1 DEF WorkInv
  <2>2. CASE b \notin DOMAIN batch
    <3>1. batch'[b].mou = o.row /\ BatchRequest(o.row)
      BY <1>4, <1>g, <2>2
    <3> QED BY <1>4, <2>2, <3>1 DEF BatchRequest, TicketOf
  <2> QED BY <2>1, <2>2
<1>8. PackedInv'
  <2> SUFFICES ASSUME NEW h \in DOMAIN shipment
               PROVE  /\ batch'[shipment[h].batch].stages_done = 4
                      /\ outside[TicketOf(shipment[h].batch)'].settlement_cleared
    BY DEF PackedInv
  <2>1. /\ shipment[h].batch \in DOMAIN batch /\ batch[shipment[h].batch].stages_done = 4
        /\ outside[TicketOf(shipment[h].batch)].settlement_cleared
    BY <1>0, <1>i DEF PackedInv, Referring
  <2>2. ~ (o.op = "stage" /\ o.row = shipment[h].batch)
    BY <1>g, <2>1 DEF StageGate
  <2> QED BY <1>2, <1>3, <2>1, <2>2 DEF BatchBy
<1>9. SingleBatch'
  <2> SUFFICES ASSUME NEW b \in DOMAIN batch', NEW c \in DOMAIN batch', batch'[b].mou = batch'[c].mou,
                      b # c
               PROVE  FALSE
    BY DEF SingleBatch
  <2>1. \A k \in DOMAIN batch : batch'[k].mou = batch[k].mou
    BY <1>2 DEF BatchBy
  <2>2. o.op = "batch_create" => \A k \in DOMAIN batch : batch[k].mou # o.row
    BY <1>g DEF BatchRequest
  <2>3. CASE b \in DOMAIN batch /\ c \in DOMAIN batch
    BY <1>i, <2>1, <2>3 DEF SingleBatch
  <2>4. CASE b \in DOMAIN batch /\ c \notin DOMAIN batch
    BY <1>4, <2>1, <2>2, <2>4
  <2>5. CASE b \notin DOMAIN batch /\ c \in DOMAIN batch
    BY <1>4, <2>1, <2>2, <2>5
  <2>6. CASE b \notin DOMAIN batch /\ c \notin DOMAIN batch
    BY <1>1, <2>6 DEF BatchRows
  <2> QED BY <2>3, <2>4, <2>5, <2>6
<1>10. SingleMou' /\ SingleShipment' /\ SingleClaim'
  BY <1>i DEF SingleMou, Active, SingleShipment, SingleClaim
<1>11. HandedInv'
  BY <1>0, <1>i, <1>3 DEF HandedInv, OrderCompleted, Referring
<1> QED BY <1>7, <1>8, <1>9, <1>10, <1>11 DEF OrderInv

LEMMA ShipmentSteppedTo ==
  ASSUME TypeInv, NEW o, FormOK(o, mou, batch, po, shipment, claim), Guard(o), ShipmentRows(o),
         NEW h \in DOMAIN shipment
  PROVE  /\ shipment'[h].batch = shipment[h].batch
         /\ o.op \in ShipmentSteps /\ h = o.row =>
              /\ shipment[h].status \in {"PREPARED", "SHIPPED", "FORWARDED"}
              /\ o.op = "SHIP_COMPLAINT" <=> shipment'[h].status = "COMPLAINED"
              /\ o.op = "SHIP_RECEIVED" <=> shipment'[h].status = "RECEIVED"
         /\ ~ (o.op \in ShipmentSteps /\ h = o.row) => shipment'[h].status = shipment[h].status
<1>1. ShipmentBy(o, h, shipment'[h]) /\ o.base = Base(o)
  BY DEF ShipmentRows, Guard
<1>2. ASSUME o.op \in ShipmentSteps, h = o.row
      PROVE  /\ shipment[h].status \in {"PREPARED", "SHIPPED", "FORWARDED"}
             /\ o.op = "SHIP_COMPLAINT" <=> shipment'[h].status = "COMPLAINED"
             /\ o.op = "SHIP_RECEIVED" <=> shipment'[h].status = "RECEIVED"
  <2>1. PICK n \in ShipmentMoves : /\ n[1] = o.op /\ n[2] = shipment[h].status
                                   /\ n[3] = shipment'[h].status
    BY <1>1, <1>2 DEF ShipmentBy, Moved
  <2>2. /\ n[2] \in {"PREPARED", "SHIPPED", "FORWARDED"}
        /\ (n[1] = "SHIP_COMPLAINT") = (n[3] = "COMPLAINED")
        /\ (n[1] = "SHIP_RECEIVED") = (n[3] = "RECEIVED")
    BY ShipmentStepsAre
  <2> QED BY <2>1, <2>2
<1> QED BY <1>1, <1>2 DEF ShipmentBy

\* Which orders are completed after a step of shipping.
LEMMA CompletedStep ==
  ASSUME TypeInv, SingleClaim, NEW o, FormOK(o, mou, batch, po, shipment, claim), Guard(o),
         ShipmentRows(o), ClaimRows(o),
         o.op \in ShipmentSteps \/ o.op \in {"shipment_create", "decide"}, NEW h \in DOMAIN shipment'
  PROVE  OrderCompleted(h, shipment', claim') <=>
           /\ h \in DOMAIN shipment
           /\ \/ OrderCompleted(h, shipment, claim)
              \/ o.op = "SHIP_RECEIVED" /\ h = o.row
              \/ o.op = "decide" /\ h = claim[o.row].shipment
<1>0. Rows /\ Referring
  BY DEF TypeInv
<1>o. /\ o.op \in ShipmentSteps => o.row \in DOMAIN shipment /\ o.op \notin {"shipment_create", "decide"}
      /\ o.op = "decide" => o.row \in DOMAIN claim /\ o.op \notin ShipmentSteps
      /\ o.op = "SHIP_RECEIVED" => o.op \in ShipmentSteps /\ o.op \notin {"decide", "SHIP_COMPLAINT"}
      /\ o.op = "SHIP_COMPLAINT" => o.op \in ShipmentSteps /\ o.op \notin {"decide", "SHIP_RECEIVED"}
  BY FormRow, OpsApart, ShipmentStepsAre
<1>1. CASE h \notin DOMAIN shipment
  <2>1. o.op = "shipment_create" /\ shipment'[h].status = "PREPARED"
    BY <1>1 DEF ShipmentRows
  <2> QED BY <1>1, <2>1 DEF OrderCompleted
<1>2. CASE h \in DOMAIN shipment
  <2>0. /\ o.op \in ShipmentSteps /\ h = o.row =>
              /\ shipment[h].status \in {"PREPARED", "SHIPPED", "FORWARDED"}
              /\ o.op = "SHIP_COMPLAINT" <=> shipment'[h].status = "COMPLAINED"
              /\ o.op = "SHIP_RECEIVED" <=> shipment'[h].status = "RECEIVED"
        /\ ~ (o.op \in ShipmentSteps /\ h = o.row) => shipment'[h].status = shipment[h].status
    BY <1>2, ShipmentSteppedTo
  <2>1. CASE o.op \in ShipmentSteps /\ h = o.row
    <3>1. ~ OrderCompleted(h, shipment, claim)
      BY <2>0, <2>1 DEF OrderCompleted
    <3>2. CASE o.op = "SHIP_RECEIVED"
      BY <1>2, <2>0, <2>1, <3>2 DEF OrderCompleted
    <3>3. CASE o.op = "SHIP_COMPLAINT"
      <4>1. \A q \in DOMAIN claim : claim[q].shipment # h
        BY <1>2, <2>0, <2>1 DEF SingleClaim
      <4>2. \A q \in DOMAIN claim' : claim'[q].shipment = h => claim'[q].status = "OPEN"
        BY <3>3, <4>1 DEF ClaimRows
      <4>3. shipment'[h].status = "COMPLAINED"
        BY <2>0, <2>1, <3>3
      <4>4. ~ OrderCompleted(h, shipment', claim')
        BY <4>2, <4>3 DEF OrderCompleted
      <4> QED BY <1>o, <3>1, <3>3, <4>4
    <3>4. CASE o.op \notin {"SHIP_RECEIVED", "SHIP_COMPLAINT"}
      <4>1. ~ OrderCompleted(h, shipment', claim')
        BY <2>0, <2>1, <3>4 DEF OrderCompleted
      <4> QED BY <1>o, <2>1, <3>1, <3>4, <4>1
    <3> QED BY <3>2, <3>3, <3>4
  <2>2. CASE ~ (o.op \in ShipmentSteps /\ h = o.row)
    <3>1. shipment'[h].status = shipment[h].status
      BY <2>0, <2>2
    <3>2. CASE o.op = "decide" /\ h = claim[o.row].shipment
      <4>1. shipment[h].status = "COMPLAINED"
        BY <1>2, <1>o, <3>2 DEF SingleClaim
      <4>2. o.row \in DOMAIN claim' /\ claim'[o.row].shipment = h /\ claim'[o.row].status = "DECIDED"
        BY <1>o, <3>2 DEF ClaimRows
      <4>3. OrderCompleted(h, shipment', claim')
        BY <3>1, <4>1, <4>2 DEF OrderCompleted
      <4> QED BY <1>2, <3>2, <4>3
    <3>3. CASE ~ (o.op = "decide" /\ h = claim[o.row].shipment)
      <4>1. ASSUME NEW q \in DOMAIN claim, claim[q].shipment = h
            PROVE  q \in DOMAIN claim' /\ claim'[q].shipment = h /\ claim'[q].status = claim[q].status
        BY <3>3, <4>1 DEF ClaimRows
      <4>2. ASSUME NEW q \in DOMAIN claim', claim'[q].shipment = h
            PROVE  q \in DOMAIN claim /\ claim[q].shipment = h /\ claim'[q].status = claim[q].status
        <5>1. q \in DOMAIN claim
          BY <1>o, <2>2, <4>2 DEF ClaimRows
        <5>2. claim[q].shipment = h
          BY <4>2, <5>1 DEF ClaimRows
        <5> QED BY <4>1, <5>1, <5>2
      <4>3. OrderCompleted(h, shipment', claim') <=> OrderCompleted(h, shipment, claim)
        BY <3>1, <4>1, <4>2 DEF OrderCompleted
      <4> QED BY <1>2, <1>o, <2>2, <3>3, <4>3
    <3> QED BY <3>2, <3>3
  <2> QED BY <2>1, <2>2
<1> QED BY <1>1, <1>2

LEMMA ShippingKeepsOrders ==
  ASSUME TypeInv, OutsideInv, OrderInv, NEW o, FormOK(o, mou, batch, po, shipment, claim), Guard(o),
         \/ o.op = "shipment_create" /\ CreateShipment(o) /\ UNCHANGED <<claim, handed>>
         \/ /\ o.op \in ShipmentSteps /\ RecordShipmentStep(o)
            /\ IF o.op = "SHIP_RECEIVED" THEN HandOverToCrm(o.row) ELSE UNCHANGED handed
         \/ /\ o.op = "decide" /\ DecideQcClaim(o) /\ UNCHANGED shipment
            /\ HandOverToCrm(claim[o.row].shipment),
         UNCHANGED <<outside, mou, batch, po>>
  PROVE  OrderInv'
<1>0. Rows /\ Referring
  BY DEF TypeInv
<1>i. WorkInv /\ PackedInv /\ SingleMou /\ SingleBatch /\ SingleShipment /\ SingleClaim /\ HandedInv
  BY DEF OrderInv
<1>1. ShipmentRows(o) /\ ClaimRows(o) /\ HandedRows(o)
  BY ShipmentWrites
<1>2. \A h \in DOMAIN shipment :
         /\ shipment'[h].batch = shipment[h].batch
         /\ o.op \in ShipmentSteps /\ h = o.row =>
              /\ shipment[h].status \in {"PREPARED", "SHIPPED", "FORWARDED"}
              /\ o.op = "SHIP_COMPLAINT" <=> shipment'[h].status = "COMPLAINED"
              /\ o.op = "SHIP_RECEIVED" <=> shipment'[h].status = "RECEIVED"
         /\ ~ (o.op \in ShipmentSteps /\ h = o.row) => shipment'[h].status = shipment[h].status
  BY <1>1, ShipmentSteppedTo
<1>3. \A h \in DOMAIN shipment' \ DOMAIN shipment :
         /\ o.op = "shipment_create" /\ shipment'[h].batch = o.row /\ shipment'[h].status = "PREPARED"
  BY <1>1 DEF ShipmentRows
<1>t. \A b \in DOMAIN batch : TicketOf(b)' = TicketOf(b)
  BY DEF TicketOf
<1>d. DOMAIN shipment \subseteq DOMAIN shipment'
  BY <1>1 DEF ShipmentRows
<1>g. o.op = "shipment_create" =>
        o.row \in DOMAIN batch /\ ShipGate(o.row) /\ ActiveShipments(o.row) = {}
  BY RuleIs, FormRow DEF Guard, BatchFormOps
<1>4. WorkInv' /\ SingleMou' /\ SingleBatch'
  BY <1>i DEF WorkInv, SingleMou, SingleBatch, Active, TicketOf, OpenOrders, OrdersOf, LegalComplete
<1>5. PackedInv'
  <2> SUFFICES ASSUME NEW h \in DOMAIN shipment'
               PROVE  /\ batch[shipment'[h].batch].stages_done = 4
                      /\ outside[TicketOf(shipment'[h].batch)].settlement_cleared
    BY DEF PackedInv, TicketOf
  <2>1. CASE h \in DOMAIN shipment
    BY <1>i, <1>2, <2>1 DEF PackedInv
  <2>2. CASE h \notin DOMAIN shipment
    <3>1. shipment'[h].batch = o.row /\ o.row \in DOMAIN batch /\ ShipGate(o.row)
      BY <1>3, <1>g, <2>2
    <3>2. TicketOf(o.row) \in Ticket
      BY <1>0, <3>1, TicketOfType
    <3>3. /\ batch[o.row].stages_done = 4 /\ outside[TicketOf(o.row)].settlement_issued
          /\ ~ outside[TicketOf(o.row)].ship_unpaid
      BY <3>1 DEF ShipGate
    <3>4. outside[TicketOf(o.row)].settlement_cleared
      BY <3>2, <3>3 DEF OutsideInv
    <3> QED BY <3>1, <3>3, <3>4
  <2> QED BY <2>1, <2>2
<1>6. SingleShipment'
  <2>1. \A i \in DOMAIN shipment : /\ shipment'[i].batch = shipment[i].batch
                                   /\ shipment'[i].status # "CANCELLED" => shipment[i].status # "CANCELLED"
    BY <1>2
  <2>2. o.op = "shipment_create" =>
          \A i \in DOMAIN shipment : shipment[i].batch = o.row => shipment[i].status = "CANCELLED"
    BY <1>g DEF ActiveShipments
  <2>3. ASSUME NEW h \in DOMAIN shipment', NEW k \in DOMAIN shipment',
               shipment'[h].batch = shipment'[k].batch,
               shipment'[h].status # "CANCELLED", shipment'[k].status # "CANCELLED"
        PROVE  h = k
    <3>1. CASE h \in DOMAIN shipment /\ k \in DOMAIN shipment
      BY <1>i, <2>1, <2>3, <3>1 DEF SingleShipment
    <3>2. CASE h \in DOMAIN shipment /\ k \notin DOMAIN shipment
      BY <1>3, <2>1, <2>2, <2>3, <3>2
    <3>3. CASE h \notin DOMAIN shipment /\ k \in DOMAIN shipment
      BY <1>3, <2>1, <2>2, <2>3, <3>3
    <3>4. CASE h \notin DOMAIN shipment /\ k \notin DOMAIN shipment
      BY <1>1, <2>3, <3>4 DEF ShipmentRows
    <3> QED BY <3>1, <3>2, <3>3, <3>4
  <2> QED BY <2>3 DEF SingleShipment
<1>7. SingleClaim'
  <2>1. o.op = "SHIP_COMPLAINT" =>
          /\ o.row \in DOMAIN shipment /\ o.op \in ShipmentSteps
          /\ \A q \in DOMAIN claim : claim[q].shipment # o.row
    <3>1. o.op = "SHIP_COMPLAINT" => o.row \in DOMAIN shipment /\ o.op \in ShipmentSteps
      BY FormRow, ShipmentStepsAre
    <3> QED BY <1>i, <1>2, <3>1 DEF SingleClaim
  <2>2. ASSUME NEW q \in DOMAIN claim', NEW r \in DOMAIN claim', claim'[q].shipment = claim'[r].shipment
        PROVE  q = r
    BY <1>i, <1>1, <2>1, <2>2 DEF SingleClaim, ClaimRows
  <2>3. ASSUME NEW h \in DOMAIN shipment'
        PROVE  (shipment'[h].status = "COMPLAINED") <=> \E q \in DOMAIN claim' : claim'[q].shipment = h
    <3>1. CASE h \notin DOMAIN shipment
      <4>1. shipment'[h].status = "PREPARED" /\ o.op # "SHIP_COMPLAINT"
        BY <1>3, <2>3, <3>1
      <4>2. \A q \in DOMAIN claim' : q \in DOMAIN claim /\ claim'[q].shipment = claim[q].shipment
        BY <1>1, <4>1 DEF ClaimRows
      <4>3. \A q \in DOMAIN claim : claim[q].shipment \in DOMAIN shipment
        BY <1>0 DEF Referring
      <4> QED BY <3>1, <4>1, <4>2, <4>3
    <3>2. CASE h \in DOMAIN shipment /\ o.op = "SHIP_COMPLAINT" /\ h = o.row
      <4>1. shipment'[h].status = "COMPLAINED"
        BY <1>2, <2>1, <3>2
      <4>2. \E q \in DOMAIN claim' : claim'[q].shipment = h
        BY <1>1, <3>2 DEF ClaimRows
      <4> QED BY <4>1, <4>2
    <3>3. CASE h \in DOMAIN shipment /\ ~ (o.op = "SHIP_COMPLAINT" /\ h = o.row)
      <4>1. shipment'[h].status = "COMPLAINED" <=> shipment[h].status = "COMPLAINED"
        BY <1>2, <3>3
      <4>2. (\E q \in DOMAIN claim' : claim'[q].shipment = h) <=> \E q \in DOMAIN claim : claim[q].shipment = h
        BY <1>1, <3>3 DEF ClaimRows
      <4> QED BY <1>i, <3>3, <4>1, <4>2 DEF SingleClaim
    <3> QED BY <3>1, <3>2, <3>3
  <2> QED BY <2>2, <2>3 DEF SingleClaim
<1>8. HandedInv'
  <2>o. o.op \in ShipmentSteps \/ o.op \in {"shipment_create", "decide"}
    OBVIOUS
  <2>1. \A h \in DOMAIN shipment' : OrderCompleted(h, shipment', claim') <=>
           /\ h \in DOMAIN shipment
           /\ \/ OrderCompleted(h, shipment, claim)
              \/ o.op = "SHIP_RECEIVED" /\ h = o.row
              \/ o.op = "decide" /\ h = claim[o.row].shipment
    BY <1>1, <1>i, <2>o, CompletedStep
  <2>2. ASSUME NEW h \in DOMAIN shipment, OrderCompleted(h, shipment', claim'), HandOverToCrm(h)
        PROVE  handed' = handed \cup {TicketOf(shipment[h].batch)}
    BY <2>2 DEF HandOverToCrm
  <2>3. /\ o.op = "SHIP_RECEIVED" => o.row \in DOMAIN shipment
        /\ o.op = "decide" => claim[o.row].shipment \in DOMAIN shipment
    BY <1>0, FormRow, ShipmentStepsAre DEF Referring
  <2> SUFFICES ASSUME NEW t \in Ticket
               PROVE  t \in handed' <=> \E h \in DOMAIN shipment' :
                                          /\ OrderCompleted(h, shipment', claim')
                                          /\ TicketOf(shipment'[h].batch) = t
    BY DEF HandedInv, TicketOf
  <2>4. t \in handed <=> \E h \in DOMAIN shipment : /\ OrderCompleted(h, shipment, claim)
                                                    /\ TicketOf(shipment[h].batch) = t
    BY <1>i DEF HandedInv
  <2>5. \A h \in DOMAIN shipment : TicketOf(shipment'[h].batch) = TicketOf(shipment[h].batch)
    BY <1>2
  <2>6. CASE o.op = "SHIP_RECEIVED"
    <3>1. handed' = handed \cup {TicketOf(shipment[o.row].batch)}
      BY <1>1, <1>d, <2>1, <2>2, <2>3, <2>6 DEF HandedRows
    <3> QED BY <1>d, <2>1, <2>3, <2>4, <2>5, <2>6, <3>1
  <2>7. CASE o.op = "decide"
    <3>1. handed' = handed \cup {TicketOf(shipment[claim[o.row].shipment].batch)}
      BY <1>1, <1>d, <2>1, <2>2, <2>3, <2>7 DEF HandedRows
    <3> QED BY <1>d, <2>1, <2>3, <2>4, <2>5, <2>7, <3>1
  <2>8. CASE o.op \notin {"SHIP_RECEIVED", "decide"}
    <3>1. handed' = handed
      BY <1>1, <2>8 DEF HandedRows
    <3> QED BY <1>d, <2>1, <2>4, <2>5, <2>8, <3>1
  <2> QED BY <2>6, <2>7, <2>8
<1> QED BY <1>4, <1>5, <1>6, <1>7, <1>8 DEF OrderInv

\* A form that is written without a race keeps what holds of the orders.
LEMMA WriteKeepsOrders ==
  ASSUME TypeInv, OutsideInv, OrderInv, NEW o, FormOK(o, mou, batch, po, shipment, claim), Guard(o),
         Write(o), UNCHANGED outside
  PROVE  OrderInv'
<1>1. CASE /\ \/ o.op = "mou_create" /\ CreateMou(o)
              \/ o.op = "mou_update" /\ UpdateMou(o)
              \/ o.op \in MouSteps /\ RecordMouStep(o)
              \/ o.op = "legal" /\ RecordLegalDocument(o)
           /\ UNCHANGED <<batch, po, shipment, claim, handed>>
  BY <1>1, MouKeepsOrders
<1>2. CASE /\ \/ o.op = "batch_create" /\ CreateBatch(o) /\ UNCHANGED po
              \/ o.op = "PO_ADD" /\ AddPurchaseOrder(o)
              \/ o.op \in PoSteps /\ StepPurchaseOrder(o)
              \/ o.op = "ready" /\ MarkMaterialsReady(o) /\ UNCHANGED po
              \/ o.op = "schedule" /\ SaveBatchSchedule(o) /\ UNCHANGED po
              \/ o.op = "stage" /\ RecordBatchStage(o) /\ UNCHANGED po
           /\ UNCHANGED <<mou, shipment, claim, handed>>
  BY <1>2, BatchKeepsOrders
<1>3. CASE /\ \/ o.op = "shipment_create" /\ CreateShipment(o) /\ UNCHANGED <<claim, handed>>
              \/ /\ o.op \in ShipmentSteps /\ RecordShipmentStep(o)
                 /\ IF o.op = "SHIP_RECEIVED" THEN HandOverToCrm(o.row) ELSE UNCHANGED handed
              \/ /\ o.op = "decide" /\ DecideQcClaim(o) /\ UNCHANGED shipment
                 /\ HandOverToCrm(claim[o.row].shipment)
           /\ UNCHANGED <<mou, batch, po>>
  BY <1>3, ShippingKeepsOrders
<1> QED BY <1>1, <1>2, <1>3 DEF Write

---------------------------------------------------------------------------
(* What a step is *)

\* The batch that stands too long is marked, and nothing else about any batch changes.
LEMMA StorageMarks ==
  ASSUME TypeInv, StorageAccrues
  PROVE  /\ DOMAIN batch' = DOMAIN batch
         /\ \E b \in DOMAIN batch :
              /\ batch[b].stages_done = 4 /\ ~ outside[TicketOf(b)].settlement_cleared
              /\ batch'[b].overdue /\ \A c \in DOMAIN batch : c # b => batch'[c] = batch[c]
         /\ \A c \in DOMAIN batch :
              /\ batch'[c].mou = batch[c].mou /\ batch'[c].material = batch[c].material
              /\ batch'[c].plan = batch[c].plan /\ batch'[c].stages_done = batch[c].stages_done
         /\ UNCHANGED <<outside, mou, po, shipment, claim, handed, raced>>
<1>1. PICK b \in DOMAIN batch :
        /\ batch[b].stages_done = 4 /\ ~ outside[TicketOf(b)].settlement_cleared
        /\ batch' = [batch EXCEPT ![b].overdue = TRUE]
  BY DEF StorageAccrues
<1>2. batch[b] \in BatchRow /\ batch \in Seq(BatchRow)
  BY RowTypes DEF TypeInv, Rows
<1> DEFINE r == [batch[b] EXCEPT !.overdue = TRUE]
<1>3. /\ r \in BatchRow /\ r.mou = batch[b].mou /\ r.material = batch[b].material
      /\ r.plan = batch[b].plan /\ r.stages_done = batch[b].stages_done /\ r.overdue
  BY <1>2 DEF BatchRow
<1>4. batch' = [batch EXCEPT ![b] = r]
  BY <1>1
<1> HIDE DEF r
<1>5. /\ DOMAIN batch' = DOMAIN batch
      /\ batch'[b] = r /\ \A c \in DOMAIN batch : c # b => batch'[c] = batch[c]
  BY <1>2, <1>3, <1>4, Put
<1>6. UNCHANGED <<outside, mou, po, shipment, claim, handed, raced>>
  BY DEF StorageAccrues
<1>7. \A c \in DOMAIN batch :
        /\ batch'[c].mou = batch[c].mou /\ batch'[c].material = batch[c].material
        /\ batch'[c].plan = batch[c].plan /\ batch'[c].stages_done = batch[c].stages_done
  BY <1>3, <1>5
<1> QED BY <1>1, <1>3, <1>5, <1>6, <1>7

\* What is paid stays paid.
LEMMA OutsideGrows ==
  ASSUME TypeInv, OutsideMoves
  PROVE  /\ OutsideInv'
         /\ \A t \in Ticket : /\ outside[t].dp_cleared => outside'[t].dp_cleared
                              /\ outside[t].settlement_cleared => outside'[t].settlement_cleared
<1>1. \A t \in Ticket : OutsideStep(t)
  BY DEF OutsideMoves
<1>2. ASSUME NEW t \in Ticket
      PROVE  /\ outside[t].dp_cleared => outside'[t].dp_cleared
             /\ outside[t].settlement_cleared => outside'[t].settlement_cleared
             /\ outside'[t].settlement_issued /\ ~ outside'[t].settlement_cleared => outside'[t].ship_unpaid
  <2>1. /\ outside'[t].dp_cleared # outside[t].dp_cleared => outside'[t].dp_cleared
        /\ outside[t].settlement_cleared => outside'[t].settlement_cleared
        /\ outside'[t].settlement_issued /\ ~ outside'[t].settlement_cleared => outside'[t].ship_unpaid
    BY <1>1, Zenon DEF OutsideStep
  <2> QED BY <2>1
<1> QED BY <1>2 DEF OutsideInv

\* A work order is for an accepted MoU, also when an event is written late: an MoU
\* once accepted stays so.  Storage is due for packed batches only.
StartInv == /\ \A b \in DOMAIN batch : /\ mou[batch[b].mou].status = "ACCEPTED"
                                       /\ batch[b].overdue => batch[b].stages_done = 4
            /\ \A d \in passed : form[d].op = "batch_create" => mou[form[d].row].status = "ACCEPTED"

\* A step writes one form, checked when nothing raced, or a batch stands too long,
\* or money and designs move, or no row changes.
LEMMA StepIs ==
  ASSUME TypeInv, [Next]_vars
  PROVE  /\ raced => raced'
         /\ \/ UNCHANGED <<rows, outside>>
            \/ \E o : /\ FormOK(o, mou, batch, po, shipment, claim) /\ Write(o)
                      /\ (~ raced' => Guard(o)) /\ UNCHANGED outside
                      /\ StartInv /\ o.op = "batch_create" => mou[o.row].status = "ACCEPTED"
            \/ StorageAccrues
            \/ OutsideMoves
<1>0. FormsOK /\ DesksOK
  BY DEF TypeInv
<1>f. /\ \A d \in Desk : form[d] # None => FormOK(form[d], mou, batch, po, shipment, claim)
      /\ Device \subseteq Desk /\ WebDesk \subseteq Desk /\ \A d \in passed : form[d] # None
  BY <1>0 DEF FormsOK, DesksOK, Desk
<1>1. ASSUME NEW d \in Desk, Fill(d) PROVE UNCHANGED <<rows, outside, raced>>
  BY <1>1 DEF Fill
<1>2. ASSUME NEW w \in WebDesk, Close(w) PROVE UNCHANGED <<rows, outside, raced>>
  BY <1>2 DEF Close
<1>3. ASSUME NEW w \in WebDesk, Submit(w)
      PROVE  /\ raced' = raced
             /\ \/ UNCHANGED <<rows, outside>>
                \/ \E o : /\ FormOK(o, mou, batch, po, shipment, claim) /\ Write(o)
                          /\ Guard(o) /\ UNCHANGED outside
                          /\ o.op = "batch_create" => mou[o.row].status = "ACCEPTED"
  <2> DEFINE o == [form[w] EXCEPT !.base = Base(form[w])]
  <2>1. FormOK(form[w], mou, batch, po, shipment, claim) /\ UNCHANGED <<outside, raced>>
    BY <1>3, <1>f DEF Submit
  <2>2. IF Rule(o) THEN Write(o) ELSE UNCHANGED rows
    BY <1>3 DEF Submit
  <2>3. Rule(o) => FormOK(o, mou, batch, po, shipment, claim) /\ Guard(o)
    BY <2>1, SentOK
  <2>4. Rule(o) /\ o.op = "batch_create" => mou[o.row].status = "ACCEPTED"
    BY RuleIs DEF BatchRequest
  <2> HIDE DEF o
  <2> QED BY <2>1, <2>2, <2>3, <2>4
<1>4. ASSUME NEW d \in Device, Refuse(d) \/ Pass(d) PROVE UNCHANGED <<rows, outside, raced>>
  BY <1>4 DEF Refuse, Pass
<1>5. ASSUME NEW d \in Device, Commit(d)
      PROVE  /\ raced => raced'
             /\ FormOK(form[d], mou, batch, po, shipment, claim) /\ Write(form[d])
             /\ (~ raced' => Guard(form[d])) /\ UNCHANGED outside
             /\ StartInv /\ form[d].op = "batch_create" => mou[form[d].row].status = "ACCEPTED"
  <2>1. Write(form[d]) /\ UNCHANGED outside /\ d \in passed
    BY <1>5 DEF Commit
  <2>2. FormOK(form[d], mou, batch, po, shipment, claim)
    BY <1>f, <2>1
  <2>3. (raced => raced') /\ (~ raced' => Guard(form[d]))
    <3>1. raced' = (raced \/ ~ Guard(form[d]))
      BY <1>5 DEF Commit
    <3> QED BY <3>1, Zenon
  <2>4. StartInv /\ form[d].op = "batch_create" => mou[form[d].row].status = "ACCEPTED"
    BY <2>1 DEF StartInv
  <2> QED BY <2>1, <2>2, <2>3, <2>4
<1>6. StorageAccrues => raced' = raced
  BY DEF StorageAccrues
<1>7. OutsideMoves => raced' = raced
  BY DEF OutsideMoves
<1>8. UNCHANGED vars => UNCHANGED <<rows, outside, raced>>
  BY DEF vars
<1> QED BY <1>1, <1>2, <1>3, <1>4, <1>5, <1>6, <1>7, <1>8 DEF Next, DeskStep

\* What one write does to the tables.
LEMMA WriteIs ==
  ASSUME TypeInv, NEW o, FormOK(o, mou, batch, po, shipment, claim), Write(o)
  PROVE  \/ /\ MousGrow /\ UNCHANGED batch
            /\ o.op # "mou_create" =>
                 /\ DOMAIN mou' = DOMAIN mou
                 /\ \A m \in DOMAIN mou : m # o.row => mou'[m] = mou[m]
            /\ o.op = "mou_create" =>
                 /\ DOMAIN mou' = DOMAIN mou \cup {Len(mou) + 1} /\ Len(mou) + 1 \notin DOMAIN mou
                 /\ mou'[Len(mou) + 1].ticket = o.row /\ mou'[Len(mou) + 1].status = "DRAFT"
                 /\ \A m \in DOMAIN mou : mou'[m] = mou[m]
         \/ BatchRows(o) /\ UNCHANGED mou
         \/ UNCHANGED <<mou, batch>>
<1>1. CASE /\ \/ o.op = "mou_create" /\ CreateMou(o)
              \/ o.op = "mou_update" /\ UpdateMou(o)
              \/ o.op \in MouSteps /\ RecordMouStep(o)
              \/ o.op = "legal" /\ RecordLegalDocument(o)
           /\ UNCHANGED <<batch, po, shipment, claim, handed>>
  BY <1>1, MouWrites
<1>2. CASE /\ \/ o.op = "batch_create" /\ CreateBatch(o) /\ UNCHANGED po
              \/ o.op = "PO_ADD" /\ AddPurchaseOrder(o)
              \/ o.op \in PoSteps /\ StepPurchaseOrder(o)
              \/ o.op = "ready" /\ MarkMaterialsReady(o) /\ UNCHANGED po
              \/ o.op = "schedule" /\ SaveBatchSchedule(o) /\ UNCHANGED po
              \/ o.op = "stage" /\ RecordBatchStage(o) /\ UNCHANGED po
           /\ UNCHANGED <<mou, shipment, claim, handed>>
  BY <1>2, BatchWrites
<1> QED BY <1>1, <1>2 DEF Write

LEMMA StartRows ==
  ASSUME TypeInv, StartInv, [Next]_vars
  PROVE  /\ MousGrow
         /\ \A b \in DOMAIN batch' : /\ mou'[batch'[b].mou].status = "ACCEPTED"
                                     /\ batch'[b].overdue => batch'[b].stages_done = 4
<1>0. /\ Referring /\ Rows /\ \A b \in DOMAIN batch : batch[b] \in BatchRow
      /\ \A b \in DOMAIN batch : /\ batch[b].mou \in DOMAIN mou
                                 /\ mou[batch[b].mou].status = "ACCEPTED"
                                 /\ batch[b].overdue => batch[b].stages_done = 4
  <2>1. Referring /\ Rows
    BY DEF TypeInv
  <2>2. \A b \in DOMAIN batch : batch[b] \in BatchRow
    BY <2>1, RowTypes
  <2>3. \A b \in DOMAIN batch : batch[b].mou \in DOMAIN mou
    BY <2>1 DEF Referring
  <2>4. \A b \in DOMAIN batch : /\ mou[batch[b].mou].status = "ACCEPTED"
                                /\ batch[b].overdue => batch[b].stages_done = 4
    BY Zenon DEF StartInv
  <2> QED BY <2>1, <2>2, <2>3, <2>4, Zenon
<1>1. CASE UNCHANGED <<mou, batch>>
  BY <1>0, <1>1, GrowIdle, Zenon
<1>2. CASE MousGrow /\ UNCHANGED batch
  <2>1. \A b \in DOMAIN batch : mou'[batch[b].mou].status = "ACCEPTED"
    BY <1>0, <1>2, AcceptedKept
  <2> QED BY <1>0, <1>2, <2>1, Zenon
<1>3. ASSUME NEW o, BatchRows(o), UNCHANGED mou, FormOK(o, mou, batch, po, shipment, claim),
             o.op = "batch_create" => mou[o.row].status = "ACCEPTED"
      PROVE  /\ MousGrow
             /\ \A b \in DOMAIN batch' : /\ mou'[batch'[b].mou].status = "ACCEPTED"
                                         /\ batch'[b].overdue => batch'[b].stages_done = 4
  <2>1. MousGrow
    BY <1>3, GrowIdle
  <2>2. ASSUME NEW b \in DOMAIN batch
        PROVE  /\ mou'[batch'[b].mou].status = "ACCEPTED"
               /\ batch'[b].overdue => batch'[b].stages_done = 4
    <3>1. /\ batch'[b].mou = batch[b].mou /\ batch'[b].overdue = batch[b].overdue
          /\ \/ batch'[b].stages_done = batch[b].stages_done
             \/ batch'[b].stages_done = batch[b].stages_done + 1
      BY <1>3 DEF BatchRows, BatchBy
    <3>2. batch'[b].stages_done \in 0 .. 4 /\ b \in DOMAIN batch'
      <4>1. b \in DOMAIN batch' /\ batch' \in Seq(BatchRow)
        BY <1>3, TypeStep DEF BatchRows, TypeInv, Rows
      <4>2. batch'[b] \in BatchRow
        BY <4>1, ElementOfSeq, LenProperties
      <4> QED BY <4>1, <4>2 DEF BatchRow
    <3>3. batch[b].overdue => batch[b].stages_done = 4
      BY <1>0, Zenon
    <3>4. batch'[b].overdue => batch'[b].stages_done = 4
      <4> SUFFICES ASSUME batch'[b].overdue PROVE batch'[b].stages_done = 4
        OBVIOUS
      <4>1. batch[b].stages_done = 4
        BY <3>1, <3>3, Zenon
      <4> QED BY <3>1, <3>2, <4>1
    <3>5. mou'[batch'[b].mou].status = "ACCEPTED"
      BY <1>0, <1>3, <3>1, Zenon
    <3> QED BY <3>4, <3>5, Zenon
  <2>3. \A b \in DOMAIN batch' \ DOMAIN batch : /\ mou'[batch'[b].mou].status = "ACCEPTED"
                                                /\ ~ batch'[b].overdue
    BY <1>3 DEF BatchRows
  <2> QED BY <2>1, <2>2, <2>3
<1>4. CASE StorageAccrues
  <2>1. /\ DOMAIN batch' = DOMAIN batch /\ mou' = mou
        /\ \A c \in DOMAIN batch : batch'[c].mou = batch[c].mou /\ batch'[c].stages_done = batch[c].stages_done
        /\ MousGrow
    BY <1>4, StorageMarks, GrowIdle
  <2>2. PICK b \in DOMAIN batch : /\ batch[b].stages_done = 4
                                  /\ \A c \in DOMAIN batch : c # b => batch'[c] = batch[c]
    BY <1>4, StorageMarks
  <2>3. \A c \in DOMAIN batch' : mou'[batch'[c].mou].status = "ACCEPTED"
    BY <1>0, <2>1, Zenon
  <2>4. ASSUME NEW c \in DOMAIN batch', batch'[c].overdue PROVE batch'[c].stages_done = 4
    <3>1. CASE c = b
      BY <2>1, <2>2, <3>1
    <3>2. CASE c # b
      <4>1. c \in DOMAIN batch /\ batch'[c] = batch[c]
        BY <2>1, <2>2, <3>2
      <4>2. batch[c].overdue
        BY <2>4, <4>1, Zenon
      <4> QED BY <1>0, <4>1, <4>2, Zenon
    <3> QED BY <3>1, <3>2
  <2> QED BY <2>1, <2>3, <2>4, Zenon
<1>5. OutsideMoves => UNCHANGED <<mou, batch>>
  BY DEF OutsideMoves, rows
<1>6. UNCHANGED <<rows, outside>> => UNCHANGED <<mou, batch>>
  BY DEF rows
<1> QED BY <1>1, <1>2, <1>3, <1>4, <1>5, <1>6, StepIs, WriteIs

LEMMA StartStep == TypeInv /\ StartInv /\ [Next]_vars => StartInv'
<1> SUFFICES ASSUME TypeInv, StartInv, [Next]_vars PROVE StartInv'
  OBVIOUS
<1>1. /\ MousGrow
      /\ \A b \in DOMAIN batch' : /\ mou'[batch'[b].mou].status = "ACCEPTED"
                                  /\ batch'[b].overdue => batch'[b].stages_done = 4
  BY StartRows
<1>2. \A d \in passed : /\ d \in Desk /\ d \notin WebDesk
                        /\ FormOK(form[d], mou, batch, po, shipment, claim)
  BY ProductionAssumption DEF TypeInv, FormsOK, DesksOK, Desk
<1>3. ASSUME NEW d \in passed', d \in passed => form'[d] = form[d],
             d \notin passed => form'[d] = form[d] /\ Guard(form[d]) /\ FormOK(form[d], mou, batch, po, shipment, claim),
             form'[d].op = "batch_create"
      PROVE  mou'[form'[d].row].status = "ACCEPTED"
  <2>1. mou[form[d].row].status = "ACCEPTED"
    BY <1>3, RuleIs DEF StartInv, Guard, BatchRequest
  <2>2. form[d].row \in DOMAIN mou
    BY <1>2, <1>3, FormRow DEF MouFormOps
  <2> QED BY <1>1, <1>3, <2>1, <2>2, AcceptedKept
<1>4. ASSUME NEW d \in passed'
      PROVE  /\ d \in passed => form'[d] = form[d]
             /\ d \notin passed => /\ form'[d] = form[d] /\ Guard(form[d])
                                   /\ FormOK(form[d], mou, batch, po, shipment, claim)
  <2>0. form = [e \in Desk |-> form[e]] /\ Device \subseteq Desk
        /\ \A e \in Desk : form[e] # None => FormOK(form[e], mou, batch, po, shipment, claim)
    BY DEF TypeInv, FormsOK, Desk
  <2>p. passed \subseteq Device /\ \A e \in passed : form[e] # None
    BY DEF TypeInv, DesksOK
  <2>1. ASSUME NEW e \in Desk, Fill(e) PROVE d \in passed /\ form'[d] = form[d]
    BY <2>0, <2>p, <2>1 DEF Fill
  <2>2. ASSUME NEW w \in WebDesk, Close(w) \/ Submit(w) PROVE d \in passed /\ form'[d] = form[d]
    <3>1. d \in passed /\ d # w
      BY <1>2, <2>2 DEF Close, Submit
    <3>2. form' = form \/ form' = [form EXCEPT ![w] = None]
      BY <2>2 DEF Close, Submit
    <3> QED BY <2>0, <2>p, <3>1, <3>2
  <2>3. ASSUME NEW e \in Device, Refuse(e) PROVE d \in passed /\ form'[d] = form[d]
    BY <2>0, <2>3 DEF Refuse
  <2>4. ASSUME NEW e \in Device, Pass(e)
        PROVE  form'[d] = form[d] /\ (d \in passed \/ (d = e /\ form[d] # None /\ Guard(form[d])))
    BY <2>4 DEF Pass
  <2>5. ASSUME NEW e \in Device, Commit(e) PROVE d \in passed /\ form'[d] = form[d]
    <3>1. d \in passed /\ d # e
      BY <2>5 DEF Commit
    <3> QED BY <2>0, <2>5, <3>1 DEF Commit
  <2>6. StorageAccrues \/ OutsideMoves \/ UNCHANGED vars => d \in passed /\ form'[d] = form[d]
    BY DEF StorageAccrues, OutsideMoves, vars
  <2> QED BY <2>0, <2>1, <2>2, <2>3, <2>4, <2>5, <2>6 DEF Next, DeskStep
<1>5. \A d \in passed' : form'[d].op = "batch_create" => mou'[form'[d].row].status = "ACCEPTED"
  BY <1>3, <1>4
<1> QED BY <1>1, <1>5 DEF StartInv

---------------------------------------------------------------------------
(* The orders, in every run without a race *)

Inv == TypeInv /\ OutsideInv /\ (~ raced => OrderInv)

LEMMA InvInit == Init => Inv
<1> SUFFICES ASSUME Init PROVE Inv
  OBVIOUS
<1>1. OutsideInv
  BY DEF Init, OutsideInv
<1>2. /\ DOMAIN mou = {} /\ DOMAIN batch = {} /\ DOMAIN shipment = {} /\ DOMAIN claim = {} /\ handed = {}
  BY DEF Init
<1>3. OrderInv
  BY <1>2 DEF OrderInv, WorkInv, PackedInv, SingleMou, SingleBatch, SingleShipment, SingleClaim, HandedInv
<1> QED BY <1>1, <1>3, TypeInit DEF Inv

LEMMA OrdersStand ==
  ASSUME OutsideInv, OrderInv, UNCHANGED <<rows, outside>>
  PROVE  OutsideInv' /\ OrderInv'
BY DEF rows, OutsideInv, OrderInv, WorkInv, PackedInv, SingleMou, SingleBatch, SingleShipment, SingleClaim,
       HandedInv, TicketOf, Active, OpenOrders, OrdersOf, LegalComplete, OrderCompleted

LEMMA StorageKeepsOrders ==
  ASSUME TypeInv, OrderInv, StorageAccrues
  PROVE  OrderInv'
<1>1. /\ DOMAIN batch' = DOMAIN batch
      /\ \A c \in DOMAIN batch :
           /\ batch'[c].mou = batch[c].mou /\ batch'[c].material = batch[c].material
           /\ batch'[c].plan = batch[c].plan /\ batch'[c].stages_done = batch[c].stages_done
      /\ UNCHANGED <<outside, mou, po, shipment, claim, handed>>
  BY StorageMarks
<1>2. \A b \in DOMAIN batch : TicketOf(b)' = TicketOf(b)
  BY <1>1 DEF TicketOf
<1>3. \A h \in DOMAIN shipment : shipment[h].batch \in DOMAIN batch
  BY DEF TypeInv, Referring
<1>4. \A h \in DOMAIN shipment : /\ batch'[shipment[h].batch].stages_done = batch[shipment[h].batch].stages_done
                                 /\ TicketOf(shipment[h].batch)' = TicketOf(shipment[h].batch)
  BY <1>1, <1>2, <1>3
<1>5. WorkInv'
  BY <1>1, <1>2 DEF OrderInv, WorkInv, OpenOrders, OrdersOf, LegalComplete
<1>6. PackedInv'
  BY <1>1, <1>4 DEF OrderInv, PackedInv
<1>7. SingleMou' /\ SingleBatch' /\ SingleShipment' /\ SingleClaim'
  BY <1>1 DEF OrderInv, SingleMou, SingleBatch, SingleShipment, SingleClaim, Active
<1>8. HandedInv'
  BY <1>1, <1>4 DEF OrderInv, HandedInv, OrderCompleted
<1> QED BY <1>5, <1>6, <1>7, <1>8 DEF OrderInv

LEMMA OutsideKeepsOrders ==
  ASSUME TypeInv, OrderInv, OutsideMoves
  PROVE  OrderInv'
<1>1. UNCHANGED rows
  BY DEF OutsideMoves
<1>2. \A t \in Ticket : /\ outside[t].dp_cleared => outside'[t].dp_cleared
                        /\ outside[t].settlement_cleared => outside'[t].settlement_cleared
  BY OutsideGrows
<1>3. /\ \A b \in DOMAIN batch : TicketOf(b) \in Ticket
      /\ \A h \in DOMAIN shipment : shipment[h].batch \in DOMAIN batch
  BY TicketOfType DEF TypeInv, Referring
<1>4. WorkInv'
  BY <1>1, <1>2, <1>3 DEF rows, OrderInv, WorkInv, TicketOf, OpenOrders, OrdersOf, LegalComplete
<1>5. PackedInv'
  BY <1>1, <1>2, <1>3 DEF rows, OrderInv, PackedInv, TicketOf
<1>6. SingleMou' /\ SingleBatch' /\ SingleShipment' /\ SingleClaim' /\ HandedInv'
  BY <1>1 DEF rows, OrderInv, SingleMou, SingleBatch, SingleShipment, SingleClaim, HandedInv, Active,
              TicketOf, OrderCompleted
<1> QED BY <1>4, <1>5, <1>6 DEF OrderInv

LEMMA InvStep == Inv /\ [Next]_vars => Inv'
<1> SUFFICES ASSUME Inv, [Next]_vars PROVE Inv'
  OBVIOUS
<1>0. TypeInv /\ OutsideInv /\ (~ raced => OrderInv)
  BY DEF Inv
<1>1. (raced => raced') /\ TypeInv'
  BY <1>0, StepIs, TypeStep
<1>2. CASE UNCHANGED <<rows, outside>>
  <2>1. OutsideInv'
    BY <1>0, <1>2 DEF OutsideInv
  <2> QED BY <1>0, <1>1, <1>2, <2>1, OrdersStand DEF Inv
<1>3. ASSUME NEW o, FormOK(o, mou, batch, po, shipment, claim), Write(o), ~ raced' => Guard(o),
             UNCHANGED outside
      PROVE  Inv'
  <2>1. OutsideInv'
    BY <1>0, <1>3 DEF OutsideInv
  <2> QED BY <1>0, <1>1, <1>3, <2>1, WriteKeepsOrders DEF Inv
<1>4. CASE StorageAccrues
  <2>1. OutsideInv'
    BY <1>0, <1>4, StorageMarks DEF OutsideInv
  <2> QED BY <1>0, <1>1, <1>4, <2>1, StorageKeepsOrders DEF Inv
<1>5. CASE OutsideMoves
  BY <1>0, <1>1, <1>5, OutsideGrows, OutsideKeepsOrders DEF Inv
<1> QED BY <1>0, <1>2, <1>3, <1>4, <1>5, StepIs

LEMMA Orders == Spec => []Inv
BY InvInit, InvStep, PTL DEF Spec

---------------------------------------------------------------------------
(* What is prepared or under way came through the gate *)

LEMMA TicketsKept ==
  ASSUME TypeInv, [Next]_vars
  PROVE  \A b \in DOMAIN batch : b \in DOMAIN batch' /\ TicketOf(b)' = TicketOf(b)
<1>0. Referring
  BY DEF TypeInv
<1>1. ASSUME UNCHANGED <<mou, batch>> PROVE \A b \in DOMAIN batch : TicketOf(b)' = TicketOf(b)
  BY <1>1 DEF TicketOf
<1>2. ASSUME NEW o, FormOK(o, mou, batch, po, shipment, claim), Write(o)
      PROVE  \A b \in DOMAIN batch : b \in DOMAIN batch' /\ TicketOf(b)' = TicketOf(b)
  <2>1. CASE MousGrow /\ UNCHANGED batch
    BY <1>0, <2>1, TicketKept
  <2>2. CASE BatchRows(o) /\ UNCHANGED mou
    <3>1. \A b \in DOMAIN batch : b \in DOMAIN batch' /\ batch'[b].mou = batch[b].mou
      BY <2>2 DEF BatchRows, BatchBy
    <3> QED BY <2>2, <3>1 DEF TicketOf
  <2>3. CASE UNCHANGED <<mou, batch>>
    BY <1>1, <2>3
  <2> QED BY <1>2, <2>1, <2>2, <2>3, WriteIs
<1>3. CASE StorageAccrues
  BY <1>3, StorageMarks DEF TicketOf
<1>4. OutsideMoves => UNCHANGED <<mou, batch>>
  BY DEF OutsideMoves, rows
<1>5. UNCHANGED rows => UNCHANGED <<mou, batch>>
  BY DEF rows
<1>6. \/ UNCHANGED rows
      \/ \E o : FormOK(o, mou, batch, po, shipment, claim) /\ Write(o)
      \/ StorageAccrues
      \/ OutsideMoves
  BY StepIs, Zenon
<1> QED BY <1>1, <1>2, <1>3, <1>4, <1>5, <1>6

\* In a step without a race a shipment that is not cancelled was there before, with
\* the same storage due, or passes ShipGate now.
LEMMA ShippedStep ==
  ASSUME Inv, [Next]_vars, ~ raced',
         NEW h \in DOMAIN shipment', shipment'[h].status # "CANCELLED", NEW b, b = shipment'[h].batch
  PROVE  /\ b \in DOMAIN batch /\ batch'[b].overdue = batch[b].overdue
         /\ \/ h \in DOMAIN shipment /\ shipment[h].batch = b /\ shipment[h].status # "CANCELLED"
            \/ ShipGate(b)
<1>0. /\ TypeInv /\ Referring /\ ~ raced /\ OrderInv
  BY StepIs DEF Inv, TypeInv
<1>1. ASSUME UNCHANGED <<batch, shipment>>
      PROVE  /\ b \in DOMAIN batch /\ batch'[b].overdue = batch[b].overdue
             /\ h \in DOMAIN shipment /\ shipment[h].batch = b /\ shipment[h].status # "CANCELLED"
  BY <1>0, <1>1 DEF Referring
<1>2. ASSUME NEW o, FormOK(o, mou, batch, po, shipment, claim), Write(o), Guard(o)
      PROVE  /\ b \in DOMAIN batch /\ batch'[b].overdue = batch[b].overdue
             /\ \/ h \in DOMAIN shipment /\ shipment[h].batch = b /\ shipment[h].status # "CANCELLED"
                \/ ShipGate(b)
  <2>1. CASE UNCHANGED <<batch, shipment>>
    BY <1>1, <2>1
  <2>2. CASE BatchRows(o) /\ UNCHANGED shipment
    BY <1>0, <2>2 DEF BatchRows, BatchBy, Referring
  <2>3. CASE ShipmentRows(o) /\ UNCHANGED batch
    <3>1. CASE h \in DOMAIN shipment
      <4>1. shipment[h].batch = b /\ shipment[h].status # "CANCELLED"
        <5>1. ShipmentBy(o, h, shipment'[h])
          BY <2>3, <3>1 DEF ShipmentRows
        <5>2. \A to : ~ Moved(o, "CANCELLED", to)
          BY DEF Moved, ShipmentMoves
        <5> QED BY <5>1, <5>2 DEF ShipmentBy
      <4> QED BY <1>0, <2>3, <3>1, <4>1 DEF Referring
    <3>2. CASE h \notin DOMAIN shipment
      <4>1. o.op = "shipment_create" /\ b = o.row
        BY <2>3, <3>2 DEF ShipmentRows
      <4>2. o.row \in DOMAIN batch /\ ShipGate(o.row)
        BY <1>2, <4>1, RuleIs, FormRow DEF Guard, BatchFormOps
      <4> QED BY <2>3, <4>1, <4>2
    <3> QED BY <3>1, <3>2
  <2>4. \/ UNCHANGED <<batch, shipment>> \/ (BatchRows(o) /\ UNCHANGED shipment)
        \/ (ShipmentRows(o) /\ UNCHANGED batch)
    <3>1. CASE UNCHANGED <<batch, po, shipment, claim, handed>>
      BY <3>1
    <3>2. CASE /\ \/ o.op = "batch_create" /\ CreateBatch(o) /\ UNCHANGED po
                  \/ o.op = "PO_ADD" /\ AddPurchaseOrder(o)
                  \/ o.op \in PoSteps /\ StepPurchaseOrder(o)
                  \/ o.op = "ready" /\ MarkMaterialsReady(o) /\ UNCHANGED po
                  \/ o.op = "schedule" /\ SaveBatchSchedule(o) /\ UNCHANGED po
                  \/ o.op = "stage" /\ RecordBatchStage(o) /\ UNCHANGED po
               /\ UNCHANGED <<mou, shipment, claim, handed>>
      BY <1>0, <1>2, <3>2, BatchWrites
    <3>3. CASE /\ \/ o.op = "shipment_create" /\ CreateShipment(o) /\ UNCHANGED <<claim, handed>>
                  \/ /\ o.op \in ShipmentSteps /\ RecordShipmentStep(o)
                     /\ IF o.op = "SHIP_RECEIVED" THEN HandOverToCrm(o.row) ELSE UNCHANGED handed
                  \/ /\ o.op = "decide" /\ DecideQcClaim(o) /\ UNCHANGED shipment
                     /\ HandOverToCrm(claim[o.row].shipment)
               /\ UNCHANGED <<mou, batch, po>>
      BY <1>0, <1>2, <3>3, ShipmentWrites
    <3> QED BY <1>2, <3>1, <3>2, <3>3 DEF Write
  <2> QED BY <2>1, <2>2, <2>3, <2>4
<1>3. ASSUME StorageAccrues
      PROVE  /\ b \in DOMAIN batch /\ batch'[b].overdue = batch[b].overdue
             /\ h \in DOMAIN shipment /\ shipment[h].batch = b /\ shipment[h].status # "CANCELLED"
  <2>1. UNCHANGED shipment
    BY <1>0, <1>3, StorageMarks
  <2>2. PICK c \in DOMAIN batch :
          /\ ~ outside[TicketOf(c)].settlement_cleared
          /\ \A d \in DOMAIN batch : d # c => batch'[d] = batch[d]
    BY <1>0, <1>3, StorageMarks, Zenon
  <2>3. b \in DOMAIN batch /\ outside[TicketOf(b)].settlement_cleared
    BY <1>0, <2>1 DEF Referring, OrderInv, PackedInv
  <2>4. b # c
    BY <2>2, <2>3
  <2> QED BY <2>1, <2>2, <2>3, <2>4
<1>4. OutsideMoves => UNCHANGED <<batch, shipment>>
  BY DEF OutsideMoves, rows
<1>5. UNCHANGED rows => UNCHANGED <<batch, shipment>>
  BY DEF rows
<1>6. \/ UNCHANGED rows
      \/ \E o : FormOK(o, mou, batch, po, shipment, claim) /\ Write(o) /\ Guard(o)
      \/ StorageAccrues
      \/ OutsideMoves
  BY <1>0, StepIs, Zenon
<1> QED BY <1>1, <1>2, <1>3, <1>4, <1>5, <1>6

---------------------------------------------------------------------------
(* The theorems *)

\* Whatever is being made has an accepted MoU, a down payment that is still paid, all
\* its materials with no order open, a schedule and final legal documents, as long as
\* no late event was written over a guard that had ceased to hold.
THEOREM StartedHasAll == Spec => []StartedComplete
<1>1. Inv => StartedComplete
  <2> SUFFICES ASSUME Inv, ~ raced, NEW b \in DOMAIN batch, batch[b].stages_done > 0
               PROVE  LET m == batch[b].mou
                      IN /\ mou[m].status = "ACCEPTED" /\ outside[mou[m].ticket].dp_cleared
                         /\ batch[b].material = "READY" /\ OpenOrders(b) = {}
                         /\ batch[b].plan # <<>> /\ LegalComplete(m)
    BY DEF StartedComplete
  <2>1. WorkInv
    BY DEF Inv, OrderInv
  <2>2. batch[b].stages_done # 0
    OBVIOUS
  <2> QED BY <2>1, <2>2 DEF WorkInv, TicketOf
<1> QED BY <1>1, Orders, PTL

\* At most one element.
LEMMA AtMostOne ==
  ASSUME NEW S, \A x, y \in S : x = y
  PROVE  IsFiniteSet(S) /\ Cardinality(S) \in {0, 1} /\ (S # {} => Cardinality(S) = 1)
<1>1. CASE S = {}
  BY <1>1, FS_EmptySet
<1>2. ASSUME NEW x \in S PROVE IsFiniteSet(S) /\ Cardinality(S) = 1
  <2>1. S = {x}
    BY <1>2
  <2> QED BY <2>1, FS_Singleton
<1> QED BY <1>1, <1>2

\* A ticket has one live MoU, a MoU one work order, a work order one shipment under
\* way, and a shipment the client complains about one complaint: what no table has a
\* UNIQUE for, the checks of the handlers keep, as long as nothing raced.
THEOREM OrdersAreSingle == Spec => []OnePerOrder
<1>1. Inv => OnePerOrder
  <2> SUFFICES ASSUME Inv, ~ raced
               PROVE  /\ \A m, n \in DOMAIN mou :
                           mou[m].ticket = mou[n].ticket /\ Active(m) /\ Active(n) => m = n
                      /\ \A b, c \in DOMAIN batch : batch[b].mou = batch[c].mou => b = c
                      /\ \A b \in DOMAIN batch : Cardinality(ActiveShipments(b)) <= 1
                      /\ \A h \in DOMAIN shipment :
                           Cardinality({q \in DOMAIN claim : claim[q].shipment = h}) =
                             IF shipment[h].status = "COMPLAINED" THEN 1 ELSE 0
    BY DEF OnePerOrder
  <2>0. SingleMou /\ SingleBatch /\ SingleShipment /\ SingleClaim
    BY DEF Inv, OrderInv
  <2>1. ASSUME NEW b \in DOMAIN batch PROVE Cardinality(ActiveShipments(b)) <= 1
    <3>1. \A h, k \in ActiveShipments(b) : h = k
      BY <2>0 DEF SingleShipment, ActiveShipments
    <3> QED BY <3>1, AtMostOne
  <2>2. ASSUME NEW h \in DOMAIN shipment
        PROVE  Cardinality({q \in DOMAIN claim : claim[q].shipment = h}) =
                 IF shipment[h].status = "COMPLAINED" THEN 1 ELSE 0
    <3> DEFINE Q == {q \in DOMAIN claim : claim[q].shipment = h}
    <3>1. \A q, r \in Q : q = r
      BY <2>0 DEF SingleClaim
    <3>2. shipment[h].status = "COMPLAINED" <=> Q # {}
      BY <2>0, <2>2 DEF SingleClaim
    <3> HIDE DEF Q
    <3>3. Q # {} => Cardinality(Q) = 1
      BY <3>1, AtMostOne
    <3>4. Q = {} => Cardinality(Q) = 0
      BY FS_EmptySet
    <3>5. Cardinality(Q) = IF shipment[h].status = "COMPLAINED" THEN 1 ELSE 0
      BY <3>2, <3>3, <3>4
    <3> QED BY <3>5 DEF Q
  <2> QED BY <2>0, <2>1, <2>2 DEF SingleMou, SingleBatch
<1> QED BY <1>1, Orders, PTL

\* What has left the factory was packed and its settlement paid, and stays so to the end.
THEOREM GoodsAreSettled == Spec => []GoodsLeaveSettled
<1>1. Inv => GoodsLeaveSettled
  BY DEF Inv, OrderInv, PackedInv, GoodsLeaveSettled
<1> QED BY <1>1, Orders, PTL

\* The clients the CRM looks after are those with a completed order: the step that
\* completes one, receipt or the decision of the claim, hands the client over.
THEOREM CompletedIsHandedOver == Spec => []HandedOverWhenCompleted
<1>1. Inv => HandedOverWhenCompleted
  <2> SUFFICES ASSUME Inv, ~ raced
               PROVE  handed = {TicketOf(shipment[h].batch) :
                                  h \in {h \in DOMAIN shipment : OrderCompleted(h, shipment, claim)}}
    BY DEF HandedOverWhenCompleted
  <2>1. HandedInv /\ Rows /\ Referring
    BY DEF Inv, OrderInv, TypeInv
  <2>2. handed \subseteq Ticket
    BY <2>1 DEF Rows
  <2>3. \A h \in DOMAIN shipment : TicketOf(shipment[h].batch) \in Ticket
    BY <2>1, TicketOfType DEF Referring
  <2>4. \A t : t \in handed <=>
          \E h \in DOMAIN shipment : /\ OrderCompleted(h, shipment, claim)
                                     /\ TicketOf(shipment[h].batch) = t
    BY <2>1, <2>2, <2>3 DEF HandedInv
  <2> QED BY <2>4
<1> QED BY <1>1, Orders, PTL

\* Writing a form, in time or late, takes no finished stage back, adds at most one, and
\* without a race leaves the dates of the finished ones.
LEMMA WriteKeepsStages ==
  ASSUME TypeInv, NEW o, FormOK(o, mou, batch, po, shipment, claim), Write(o), ~ raced' => Guard(o),
         NEW b \in DOMAIN batch
  PROVE  /\ batch'[b].stages_done \in {batch[b].stages_done, batch[b].stages_done + 1}
         /\ \A i \in 1 .. batch[b].stages_done : raced' \/ batch'[b].plan[i] = batch[b].plan[i]
<1>1. batch' = batch \/ BatchRows(o)
  BY BatchWrites DEF Write
<1>2. CASE BatchRows(o)
  <2>1. BatchBy(o, b, batch'[b])
    BY <1>2 DEF BatchRows
  <2>2. batch'[b].stages_done \in {batch[b].stages_done, batch[b].stages_done + 1}
    BY <2>1 DEF BatchBy
  <2>3. ASSUME ~ raced', NEW i \in 1 .. batch[b].stages_done
        PROVE  batch'[b].plan[i] = batch[b].plan[i]
    <3>1. CASE o.op = "schedule" /\ b = o.row /\ batch'[b].plan = o.arg
      <4>1. ScheduleLock(b, o.arg)
        BY <2>3, <3>1, RuleIs DEF Guard
      <4> QED BY <2>3, <3>1, <4>1 DEF ScheduleLock
    <3>2. CASE batch'[b].plan = batch[b].plan
      BY <3>2
    <3> QED BY <2>1, <3>1, <3>2 DEF BatchBy
  <2> QED BY <2>2, <2>3
<1> QED BY <1>1, <1>2

\* A stage that is done stays done, stages are finished one at a time whatever is
\* written late, and the date of a finished stage changes only when something raced.
THEOREM FinishedStagesStay == Spec => FinishedStagesKept
<1>1. TypeInv /\ [Next]_vars =>
        [\A b \in DOMAIN batch :
           /\ batch'[b].stages_done \in {batch[b].stages_done, batch[b].stages_done + 1}
           /\ \A i \in 1 .. batch[b].stages_done : raced' \/ batch'[b].plan[i] = batch[b].plan[i]]_vars
  <2> SUFFICES ASSUME TypeInv, [Next]_vars, NEW b \in DOMAIN batch
               PROVE  /\ batch'[b].stages_done \in {batch[b].stages_done, batch[b].stages_done + 1}
                      /\ \A i \in 1 .. batch[b].stages_done :
                           raced' \/ batch'[b].plan[i] = batch[b].plan[i]
    OBVIOUS
  <2>1. CASE UNCHANGED batch
    BY <2>1
  <2>2. CASE StorageAccrues
    BY <2>2, StorageMarks
  <2>3. ASSUME NEW o, FormOK(o, mou, batch, po, shipment, claim), Write(o), ~ raced' => Guard(o)
        PROVE  /\ batch'[b].stages_done \in {batch[b].stages_done, batch[b].stages_done + 1}
               /\ \A i \in 1 .. batch[b].stages_done : raced' \/ batch'[b].plan[i] = batch[b].plan[i]
    BY <2>3, WriteKeepsStages
  <2> QED BY <2>1, <2>2, <2>3, StepIs DEF rows, OutsideMoves
<1>2. Inv => TypeInv
  BY DEF Inv
<1> QED BY <1>1, <1>2, Orders, PTL DEF Spec, FinishedStagesKept
=============================================================================
