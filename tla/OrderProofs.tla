---------------------------- MODULE OrderProofs ----------------------------
(* Proofs about Order: each side keeps the promise the other one relies on, for *)
(* every number of desks, tickets and rows. *)
EXTENDS Order, SequenceTheorems, TLAPS

LEMMA FA == F!FinanceAssumption
BY OrderAssumption, Zenon

LEMMA PA == M!ProductionAssumption
BY OrderAssumption, Zenon

---------------------------------------------------------------------------
(* Production for itself *)

FloorInv == M!TypeInv /\ M!StartInv /\ dummyReady \in [Ticket -> BOOLEAN]

LEMMA ShipStateType == dummyReady \in [Ticket -> BOOLEAN] => ShipState \in [Ticket -> M!OutsideRow]
BY DEF ShipState, M!OutsideRow, DpCleared, F!SettlementCleared

LEMMA ProductionInit == Init => M!Init
<1> SUFFICES ASSUME Init PROVE M!Init
  OBVIOUS
<1>1. \A t, type : F!Issued(t, type) = {}
  BY DEF Init, F!Issued
<1>2. \A t, types : F!OpenUnpaid(t, types) = {}
  BY DEF Init, F!OpenUnpaid
<1>3. ShipState = [t \in Ticket |->
       [dp_cleared |-> FALSE, settlement_issued |-> FALSE, settlement_cleared |-> FALSE,
        ship_unpaid |-> FALSE, storage_billed |-> FALSE, dummy_ready |-> FALSE]]
  <2>1. \A t \in Ticket : dummyReady[t] = FALSE
    BY DEF Init
  <2>2. \A t : DpCleared(t) = FALSE /\ F!SettlementCleared(t) = FALSE
    BY <1>1 DEF DpCleared, F!SettlementCleared
  <2> QED BY <1>1, <1>2, <2>1, <2>2 DEF ShipState
<1> QED BY <1>3, Zenon DEF Init, M!Init, M!Desk

LEMMA FloorInit == Init => FloorInv
<1> SUFFICES ASSUME Init PROVE FloorInv
  OBVIOUS
<1>1. M!TypeInv
  BY ProductionInit, M!TypeInit, PA
<1>2. M!StartInv
  BY DEF Init, M!StartInv
<1>3. dummyReady \in [Ticket -> BOOLEAN]
  BY DEF Init
<1> QED BY <1>1, <1>2, <1>3 DEF FloorInv

LEMMA FloorStands ==
  ASSUME FloorInv, UNCHANGED floorVars, dummyReady' \in [Ticket -> BOOLEAN]
  PROVE  FloorInv'
<1>1. ShipState' \in [Ticket -> M!OutsideRow]
  BY ShipStateType DEF ShipState, M!OutsideRow, DpCleared, F!SettlementCleared
<1>2. UNCHANGED <<mou, batch, po, shipment, claim, handed, form, passed, raced, lost>>
  BY DEF floorVars
<1>3. M!TypeInv /\ M!StartInv
  BY DEF FloorInv
<1>4. M!Rows' /\ M!Referring' /\ M!FormsOK' /\ M!DesksOK'
  <2>1. M!Rows'
    BY <1>1, <1>2, <1>3 DEF M!TypeInv, M!Rows
  <2>2. M!Referring'
    BY <1>2, <1>3 DEF M!TypeInv, M!Referring
  <2>3. M!FormsOK'
    BY <1>2, <1>3, Zenon DEF M!TypeInv, M!FormsOK
  <2>4. M!DesksOK'
    BY <1>2, <1>3, Zenon DEF M!TypeInv, M!DesksOK
  <2> QED BY <2>1, <2>2, <2>3, <2>4
<1>5. M!StartInv'
  BY <1>2, <1>3, Zenon DEF M!StartInv
<1> QED BY <1>4, <1>5 DEF FloorInv, M!TypeInv

LEMMA FloorStep == FloorInv /\ [Next]_vars => FloorInv'
<1> SUFFICES ASSUME FloorInv, [Next]_vars PROVE FloorInv'
  OBVIOUS
<1>0. M!TypeInv /\ M!StartInv /\ dummyReady \in [Ticket -> BOOLEAN]
  BY DEF FloorInv
<1>1. CASE FinanceMoves
  BY <1>0, <1>1, FloorStands DEF FinanceMoves
<1>2. CASE ProductionMoves
  <2>1. M!Next /\ dummyReady' = dummyReady
    BY <1>2 DEF ProductionMoves, M!Next
  <2>2. M!TypeInv' /\ M!StartInv'
    BY <1>0, <2>1, M!TypeStep, M!StartStep, PA
  <2> QED BY <1>0, <2>1, <2>2 DEF FloorInv
<1>3. CASE DummyApproved
  <2>1. dummyReady' \in [Ticket -> BOOLEAN] /\ UNCHANGED floorVars
    BY <1>0, <1>3 DEF DummyApproved
  <2> QED BY <2>1, FloorStands
<1>4. CASE UNCHANGED vars
  BY <1>0, <1>4, FloorStands DEF vars
<1> QED BY <1>1, <1>2, <1>3, <1>4 DEF Next

---------------------------------------------------------------------------
(* What production shows the invoices *)

\* The facts of the tickets with what the tables of production say: accepted, packed,
\* storage due.
Shown(a, p, s) ==
  [t \in Ticket |-> [FactsAtStart[t] EXCEPT !.mou_accepted = a[t], !.batch_packed = p[t],
                                            !.storage_fee = s[t]]]

Accepted == [t \in Ticket |-> \E m \in DOMAIN mou : mou[m].ticket = t /\ mou[m].status = "ACCEPTED"]
PackedAt == [t \in Ticket |-> Packed(t) # {}]
Storage == [t \in Ticket |-> IF \E b \in Packed(t) : batch[b].overdue THEN 1 ELSE 0]

LEMMA InvoiceTicketIs ==
  /\ InvoiceTicket = Shown(Accepted, PackedAt, Storage)
  /\ Accepted \in [Ticket -> BOOLEAN] /\ PackedAt \in [Ticket -> BOOLEAN] /\ Storage \in [Ticket -> {0, 1}]
BY DEF InvoiceTicket, Shown, Accepted, PackedAt, Storage

LEMMA ShownTypes ==
  ASSUME NEW a \in [Ticket -> BOOLEAN], NEW p \in [Ticket -> BOOLEAN], NEW s \in [Ticket -> {0, 1}]
  PROVE  /\ Shown(a, p, s) \in [Ticket -> F!Facts]
         /\ \A t \in Ticket : /\ Shown(a, p, s)[t].mou_accepted = a[t]
                              /\ Shown(a, p, s)[t].batch_packed = p[t]
                              /\ Shown(a, p, s)[t].storage_fee = s[t]
<1>1. FactsAtStart \in [Ticket -> F!Facts]
  BY FA DEF F!FinanceAssumption
<1> SUFFICES ASSUME NEW t \in Ticket
             PROVE  LET r == [FactsAtStart[t] EXCEPT !.mou_accepted = a[t], !.batch_packed = p[t],
                                                     !.storage_fee = s[t]]
                    IN /\ r \in F!Facts /\ r.mou_accepted = a[t] /\ r.batch_packed = p[t]
                       /\ r.storage_fee = s[t]
  BY DEF Shown
<1>2. FactsAtStart[t] \in F!Facts /\ a[t] \in BOOLEAN /\ p[t] \in BOOLEAN /\ s[t] \in Nat
  BY <1>1
<1> QED BY <1>2 DEF F!Facts

LEMMA StartFacts == \A t \in Ticket : FactsAtStart[t] \in F!Facts
BY FA DEF F!FinanceAssumption

\* One of the three changes, of one ticket, or none.
ShownMoves ==
  \/ UNCHANGED <<Accepted, PackedAt, Storage>>
  \/ \E u \in Ticket : Accepted' = [Accepted EXCEPT ![u] = TRUE] /\ UNCHANGED <<PackedAt, Storage>>
  \/ \E u \in Ticket : /\ Accepted[u] /\ PackedAt' = [PackedAt EXCEPT ![u] = TRUE]
                       /\ UNCHANGED <<Accepted, Storage>>
  \/ \E u \in Ticket : /\ PackedAt[u] /\ Storage' = [Storage EXCEPT ![u] = 1]
                       /\ UNCHANGED <<Accepted, PackedAt>>

FactsMove ==
  \/ UNCHANGED InvoiceTicket
  \/ \E t \in Ticket :
       \/ ~InvoiceTicket[t].mou_accepted /\ InvoiceTicket' = [InvoiceTicket EXCEPT ![t].mou_accepted = TRUE]
       \/ /\ InvoiceTicket[t].mou_accepted /\ ~InvoiceTicket[t].batch_packed
          /\ InvoiceTicket' = [InvoiceTicket EXCEPT ![t].batch_packed = TRUE]
       \/ /\ InvoiceTicket[t].batch_packed /\ InvoiceTicket[t].storage_fee = 0
          /\ InvoiceTicket' = [InvoiceTicket EXCEPT ![t].storage_fee = 1]

LEMMA ShownMovesAreFacts == ShownMoves => FactsMove
<1> SUFFICES ASSUME ShownMoves PROVE FactsMove
  OBVIOUS
<1> DEFINE f == InvoiceTicket
<1>1. PICK a, p, s : a = Accepted /\ p = PackedAt /\ s = Storage
  OBVIOUS
<1>2. a \in [Ticket -> BOOLEAN] /\ p \in [Ticket -> BOOLEAN] /\ s \in [Ticket -> {0, 1}]
  BY <1>1, InvoiceTicketIs
<1>3. f = Shown(a, p, s) /\ InvoiceTicket' = Shown(Accepted', PackedAt', Storage')
  <2>1. InvoiceTicket = Shown(Accepted, PackedAt, Storage)
    BY InvoiceTicketIs
  <2>2. InvoiceTicket' = Shown(Accepted', PackedAt', Storage')
    BY DEF InvoiceTicket, Shown, Accepted, PackedAt, Storage
  <2> QED BY <1>1, <2>1, <2>2
<1>4. \A t \in Ticket : /\ f[t].mou_accepted = a[t] /\ f[t].batch_packed = p[t] /\ f[t].storage_fee = s[t]
  BY <1>2, <1>3, ShownTypes
<1> HIDE DEF f
<1>5. CASE UNCHANGED <<Accepted, PackedAt, Storage>>
  <2>1. InvoiceTicket' = f
    BY <1>1, <1>3, <1>5, Zenon
  <2> QED BY <2>1 DEF FactsMove, f
<1>6. ASSUME NEW u \in Ticket, Accepted' = [Accepted EXCEPT ![u] = TRUE], UNCHANGED <<PackedAt, Storage>>
      PROVE  FactsMove
  <2>1. InvoiceTicket' = Shown([a EXCEPT ![u] = TRUE], p, s)
    BY <1>1, <1>3, <1>6, Zenon
  <2>2. InvoiceTicket' = [f EXCEPT ![u].mou_accepted = TRUE]
    <3>1. Shown([a EXCEPT ![u] = TRUE], p, s) = [Shown(a, p, s) EXCEPT ![u].mou_accepted = TRUE]
      BY <1>2, StartFacts DEF Shown, F!Facts
    <3> QED BY <1>3, <2>1, <3>1, Zenon
  <2>3. CASE a[u]
    <3>1. [a EXCEPT ![u] = TRUE] = a
      BY <1>2, <2>3
    <3>2. InvoiceTicket' = f
      BY <1>3, <2>1, <3>1, Zenon
    <3> QED BY <3>2 DEF FactsMove, f
  <2>4. CASE ~a[u]
    <3>1. ~f[u].mou_accepted
      BY <1>4, <2>4
    <3> QED BY <2>2, <3>1 DEF FactsMove, f
  <2> QED BY <2>3, <2>4
<1>7. ASSUME NEW u \in Ticket, Accepted[u], PackedAt' = [PackedAt EXCEPT ![u] = TRUE],
             UNCHANGED <<Accepted, Storage>>
      PROVE  FactsMove
  <2>1. InvoiceTicket' = Shown(a, [p EXCEPT ![u] = TRUE], s)
    BY <1>1, <1>3, <1>7, Zenon
  <2>2. InvoiceTicket' = [f EXCEPT ![u].batch_packed = TRUE]
    <3>1. Shown(a, [p EXCEPT ![u] = TRUE], s) = [Shown(a, p, s) EXCEPT ![u].batch_packed = TRUE]
      BY <1>2, StartFacts DEF Shown, F!Facts
    <3> QED BY <1>3, <2>1, <3>1, Zenon
  <2>3. CASE p[u]
    <3>1. [p EXCEPT ![u] = TRUE] = p
      BY <1>2, <2>3
    <3>2. InvoiceTicket' = f
      BY <1>3, <2>1, <3>1, Zenon
    <3> QED BY <3>2 DEF FactsMove, f
  <2>4. CASE ~p[u]
    <3>1. ~f[u].batch_packed /\ f[u].mou_accepted
      BY <1>1, <1>4, <1>7, <2>4
    <3> QED BY <2>2, <3>1 DEF FactsMove, f
  <2> QED BY <2>3, <2>4
<1>8. ASSUME NEW u \in Ticket, PackedAt[u], Storage' = [Storage EXCEPT ![u] = 1],
             UNCHANGED <<Accepted, PackedAt>>
      PROVE  FactsMove
  <2>1. InvoiceTicket' = Shown(a, p, [s EXCEPT ![u] = 1])
    BY <1>1, <1>3, <1>8, Zenon
  <2>2. InvoiceTicket' = [f EXCEPT ![u].storage_fee = 1]
    <3>1. Shown(a, p, [s EXCEPT ![u] = 1]) = [Shown(a, p, s) EXCEPT ![u].storage_fee = 1]
      BY <1>2, StartFacts DEF Shown, F!Facts
    <3> QED BY <1>3, <2>1, <3>1, Zenon
  <2>3. CASE s[u] = 1
    <3>1. [s EXCEPT ![u] = 1] = s
      BY <1>2, <2>3
    <3>2. InvoiceTicket' = f
      BY <1>3, <2>1, <3>1, Zenon
    <3> QED BY <3>2 DEF FactsMove, f
  <2>4. CASE s[u] = 0
    <3>1. f[u].batch_packed /\ f[u].storage_fee = 0
      BY <1>1, <1>4, <1>8, <2>4
    <3> QED BY <2>2, <3>1 DEF FactsMove, f
  <2> QED BY <1>2, <2>3, <2>4
<1> QED BY <1>5, <1>6, <1>7, <1>8 DEF ShownMoves

LEMMA FloorRows ==
  ASSUME FloorInv
  PROVE  /\ \A b \in DOMAIN batch : /\ batch[b].mou \in DOMAIN mou /\ batch[b].stages_done \in 0 .. 4
                                    /\ mou[batch[b].mou].status = "ACCEPTED"
                                    /\ mou[batch[b].mou].ticket \in Ticket
         /\ \A b \in DOMAIN batch : batch[b].overdue => batch[b].stages_done = 4
         /\ \A m \in DOMAIN mou : mou[m].ticket \in Ticket
<1>1. M!Rows /\ M!Referring /\ M!StartInv
  BY DEF FloorInv, M!TypeInv
<1>2. /\ \A m \in DOMAIN mou : mou[m].ticket \in Ticket
      /\ \A b \in DOMAIN batch : batch[b].stages_done \in 0 .. 4
  <2>1. /\ \A m \in DOMAIN mou : mou[m] \in M!MouRow
        /\ \A b \in DOMAIN batch : batch[b] \in M!BatchRow
    BY <1>1, PA, M!RowTypes
  <2> QED BY <2>1 DEF M!MouRow, M!BatchRow
<1>3. \A b \in DOMAIN batch : batch[b].mou \in DOMAIN mou
  BY <1>1 DEF M!Referring
<1>4. \A b \in DOMAIN batch : mou[batch[b].mou].status = "ACCEPTED"
  BY <1>1, Zenon DEF M!StartInv
<1>5. \A b \in DOMAIN batch : batch[b].overdue => batch[b].stages_done = 4
  BY <1>1, Zenon DEF M!StartInv
<1> QED BY <1>2, <1>3, <1>4, <1>5

\* A write to the MoU accepts one, or shows nothing.
LEMMA MouShows ==
  ASSUME FloorInv, NEW o, M!MousGrow, UNCHANGED batch,
         o.op # "mou_create" => /\ DOMAIN mou' = DOMAIN mou
                                /\ \A m \in DOMAIN mou : m # o.row => mou'[m] = mou[m],
         o.op = "mou_create" =>
           /\ DOMAIN mou' = DOMAIN mou \cup {Len(mou) + 1} /\ Len(mou) + 1 \notin DOMAIN mou
           /\ mou'[Len(mou) + 1].ticket = o.row /\ mou'[Len(mou) + 1].status = "DRAFT"
           /\ \A m \in DOMAIN mou : mou'[m] = mou[m]
  PROVE  ShownMoves
<1>0. /\ \A b \in DOMAIN batch : batch[b].mou \in DOMAIN mou
      /\ \A m \in DOMAIN mou : mou[m].ticket \in Ticket
  BY FloorRows
<1>1. \A m \in DOMAIN mou : /\ m \in DOMAIN mou' /\ mou'[m].ticket = mou[m].ticket
                            /\ mou[m].status = "ACCEPTED" => mou'[m].status = "ACCEPTED"
  BY DEF M!MousGrow, M!MouTo
<1>2. \A t : Packed(t)' = Packed(t)
  BY <1>0, <1>1 DEF Packed
<1>3. UNCHANGED <<PackedAt, Storage>>
  BY <1>2 DEF PackedAt, Storage
<1>4. \A m \in DOMAIN mou' \ DOMAIN mou : mou'[m].status = "DRAFT"
  OBVIOUS
<1> DEFINE A(t) == \E m \in DOMAIN mou : mou[m].ticket = t /\ mou[m].status = "ACCEPTED"
<1>5. CASE \E m \in DOMAIN mou : mou[m].status # "ACCEPTED" /\ mou'[m].status = "ACCEPTED"
  <2>1. PICK m \in DOMAIN mou : mou[m].status # "ACCEPTED" /\ mou'[m].status = "ACCEPTED"
    BY <1>5
  <2>2. \A n \in DOMAIN mou : n # m => mou'[n] = mou[n]
    BY <2>1
  <2>3. PICK u \in Ticket : u = mou[m].ticket
    BY <1>0
  <2>4. \A t \in Ticket : A(t)' = IF t = u THEN TRUE ELSE A(t)
    <3> SUFFICES ASSUME NEW t \in Ticket PROVE A(t)' = IF t = u THEN TRUE ELSE A(t)
      OBVIOUS
    <3>1. CASE t = u
      BY <1>1, <2>1, <2>3, <3>1
    <3>2. CASE t # u
      <4>1. A(t)' => A(t)
        BY <1>1, <1>4, <2>2, <2>3, <3>2
      <4>2. A(t) => A(t)'
        BY <1>1
      <4> QED BY <3>2, <4>1, <4>2
    <3> QED BY <3>1, <3>2
  <2>5. Accepted' = [Accepted EXCEPT ![u] = TRUE]
    <3>1. Accepted' = [t \in Ticket |-> A(t)'] /\ Accepted = [t \in Ticket |-> A(t)]
      BY DEF Accepted
    <3> HIDE DEF A
    <3> QED BY <2>4, <3>1
  <2> QED BY <1>3, <2>5 DEF ShownMoves
<1>6. CASE \A m \in DOMAIN mou : mou'[m].status = "ACCEPTED" => mou[m].status = "ACCEPTED"
  <2>1. \A t \in Ticket : A(t)' = A(t)
    <3> SUFFICES ASSUME NEW t \in Ticket PROVE A(t)' = A(t)
      OBVIOUS
    <3>1. A(t)' => A(t)
      BY <1>1, <1>4, <1>6
    <3>2. A(t) => A(t)'
      BY <1>1
    <3> QED BY <3>1, <3>2
  <2>2. Accepted' = Accepted
    BY <2>1 DEF Accepted
  <2> QED BY <1>3, <2>2 DEF ShownMoves
<1> QED BY <1>5, <1>6

\* A write to the work orders packs one, or shows nothing.
LEMMA BatchShows ==
  ASSUME FloorInv, NEW o, M!BatchRows(o), UNCHANGED mou, FloorInv'
  PROVE  ShownMoves
<1>0. /\ \A b \in DOMAIN batch : /\ batch[b].mou \in DOMAIN mou /\ batch[b].stages_done \in 0 .. 4
                                 /\ mou[batch[b].mou].status = "ACCEPTED"
                                 /\ mou[batch[b].mou].ticket \in Ticket
      /\ \A b \in DOMAIN batch : batch[b].overdue => batch[b].stages_done = 4
  BY FloorRows
<1>n. \A b \in DOMAIN batch' : batch'[b].stages_done \in 0 .. 4
  <2>1. batch' \in Seq(M!BatchRow)
    BY DEF FloorInv, M!TypeInv, M!Rows
  <2> SUFFICES ASSUME NEW b \in DOMAIN batch' PROVE batch'[b].stages_done \in 0 .. 4
    OBVIOUS
  <2>2. batch'[b] \in M!BatchRow
    BY <2>1, LenProperties, ElementOfSeq
  <2> QED BY <2>2 DEF M!BatchRow
<1>1. Accepted' = Accepted
  BY DEF Accepted
<1>2. \A b \in DOMAIN batch :
        /\ b \in DOMAIN batch' /\ batch'[b].mou = batch[b].mou /\ batch'[b].overdue = batch[b].overdue
        /\ \/ batch'[b].stages_done = batch[b].stages_done
           \/ b = o.row /\ batch'[b].stages_done = batch[b].stages_done + 1
  BY DEF M!BatchRows, M!BatchBy
<1>3. \A b \in DOMAIN batch' \ DOMAIN batch : batch'[b].stages_done = 0
  BY DEF M!BatchRows
<1>4. \A t : Packed(t) \subseteq Packed(t)'
  <2> SUFFICES ASSUME NEW t, NEW b \in Packed(t) PROVE b \in Packed(t)'
    OBVIOUS
  <2>1. b \in DOMAIN batch /\ mou[batch[b].mou].ticket = t /\ batch[b].stages_done = 4
    BY DEF Packed
  <2>2. b \in DOMAIN batch' /\ batch'[b].mou = batch[b].mou /\ batch'[b].stages_done \in 0 .. 4
    BY <1>n, <1>2, <2>1
  <2>3. batch'[b].stages_done = 4
    BY <1>2, <2>1, <2>2
  <2> QED BY <2>1, <2>2, <2>3 DEF Packed
<1>5. \A t : \A b \in Packed(t)' : b \notin Packed(t) =>
        b = o.row /\ b \in DOMAIN batch /\ mou[batch[b].mou].ticket = t /\ batch[b].stages_done # 4
  <2> SUFFICES ASSUME NEW t, NEW b \in Packed(t)', b \notin Packed(t)
               PROVE  b = o.row /\ b \in DOMAIN batch /\ mou[batch[b].mou].ticket = t
                        /\ batch[b].stages_done # 4
    OBVIOUS
  <2>1. b \in DOMAIN batch' /\ mou[batch'[b].mou].ticket = t /\ batch'[b].stages_done = 4
    BY DEF Packed
  <2>2. b \in DOMAIN batch
    BY <1>3, <2>1
  <2> QED BY <1>2, <2>1, <2>2 DEF Packed
<1>6. Storage' = Storage
  <2>1. \A t \in Ticket : (\E b \in Packed(t)' : batch'[b].overdue) <=> \E b \in Packed(t) : batch[b].overdue
    <3> SUFFICES ASSUME NEW t \in Ticket
                 PROVE (\E b \in Packed(t)' : batch'[b].overdue) <=> \E b \in Packed(t) : batch[b].overdue
      OBVIOUS
    <3>0. \A b \in Packed(t) : b \in DOMAIN batch
      BY DEF Packed
    <3>1. ASSUME NEW b \in Packed(t)', batch'[b].overdue PROVE \E c \in Packed(t) : batch[c].overdue
      <4>1. CASE b \in Packed(t)
        <5>1. batch[b].overdue
          BY <1>2, <3>0, <3>1, <4>1, Zenon
        <5> QED BY <4>1, <5>1, Zenon
      <4>2. CASE b \notin Packed(t)
        <5>1. b \in DOMAIN batch /\ batch[b].stages_done # 4
          BY <1>5, <4>2, Zenon
        <5>2. batch[b].overdue
          BY <1>2, <3>1, <5>1, Zenon
        <5> QED BY <1>0, <5>1, <5>2, Zenon
      <4> QED BY <4>1, <4>2
    <3>2. ASSUME NEW b \in Packed(t), batch[b].overdue PROVE \E c \in Packed(t)' : batch'[c].overdue
      <4>1. b \in Packed(t)' /\ batch'[b].overdue
        BY <1>2, <1>4, <3>0, <3>2, Zenon
      <4> QED BY <4>1, Zenon
    <3> QED BY <3>1, <3>2, Zenon
  <2> QED BY <2>1 DEF Storage
<1>7. CASE \A t \in Ticket : Packed(t)' = Packed(t)
  <2>1. PackedAt' = PackedAt
    BY <1>7 DEF PackedAt
  <2> QED BY <1>1, <1>6, <2>1 DEF ShownMoves
<1>8. CASE \E t \in Ticket : Packed(t)' # Packed(t)
  <2>0. PICK t \in Ticket : Packed(t)' # Packed(t)
    BY <1>8
  <2>1. PICK b \in Packed(t)' : b \notin Packed(t)
    BY <1>4, <2>0
  <2>2. b = o.row /\ b \in DOMAIN batch /\ mou[batch[b].mou].ticket = t
    BY <1>5, <2>1, Zenon
  <2>3. Accepted[t]
    BY <1>0, <2>2 DEF Accepted
  <2>4. \A u \in Ticket : (Packed(u)' # {}) <=> (u = t \/ Packed(u) # {})
    <3> SUFFICES ASSUME NEW u \in Ticket PROVE (Packed(u)' # {}) <=> (u = t \/ Packed(u) # {})
      OBVIOUS
    <3>1. Packed(u) # {} => Packed(u)' # {}
      BY <1>4
    <3>2. u = t => Packed(u)' # {}
      BY <2>1
    <3>3. ASSUME NEW c \in Packed(u)', u # t PROVE c \in Packed(u)
      BY <1>5, <2>2, <3>3
    <3> QED BY <3>1, <3>2, <3>3
  <2>5. PackedAt' = [PackedAt EXCEPT ![t] = TRUE]
    <3>1. /\ PackedAt' = [u \in Ticket |-> (Packed(u)' # {})]
          /\ PackedAt = [u \in Ticket |-> (Packed(u) # {})]
      BY DEF PackedAt
    <3>2. \A u \in Ticket : (Packed(u)' # {}) = IF u = t THEN TRUE ELSE Packed(u) # {}
      BY <2>4
    <3> QED BY <3>1, <3>2
  <2> QED BY <1>1, <1>6, <2>3, <2>5 DEF ShownMoves
<1> QED BY <1>7, <1>8

\* A batch that stands too long makes storage due, or it was due already.
LEMMA StorageShows ==
  ASSUME FloorInv, M!StorageAccrues
  PROVE  ShownMoves
<1>0. /\ \A b \in DOMAIN batch : batch[b].mou \in DOMAIN mou /\ mou[batch[b].mou].ticket \in Ticket
      /\ M!TypeInv
  BY FloorRows DEF FloorInv
<1>1. PICK b \in DOMAIN batch :
        /\ batch[b].stages_done = 4 /\ batch'[b].overdue
        /\ \A c \in DOMAIN batch : c # b => batch'[c] = batch[c]
  BY <1>0, PA, M!StorageMarks, Zenon
<1>2. /\ DOMAIN batch' = DOMAIN batch
      /\ \A c \in DOMAIN batch : batch'[c].mou = batch[c].mou /\ batch'[c].stages_done = batch[c].stages_done
      /\ UNCHANGED mou
  BY <1>0, PA, M!StorageMarks
<1>3. Accepted' = Accepted
  BY <1>2 DEF Accepted
<1>4. \A t : Packed(t)' = Packed(t)
  BY <1>2 DEF Packed
<1>5. PackedAt' = PackedAt
  BY <1>4 DEF PackedAt
<1>6. PICK u \in Ticket : u = mou[batch[b].mou].ticket
  BY <1>0
<1>7. b \in Packed(u)
  BY <1>1, <1>6 DEF Packed
<1>8. PackedAt[u]
  BY <1>7 DEF PackedAt
<1>9. Storage' = [Storage EXCEPT ![u] = 1]
  <2>1. (\E c \in Packed(u)' : batch'[c].overdue)
    BY <1>1, <1>4, <1>7
  <2>2. ASSUME NEW t \in Ticket, t # u
        PROVE  (\E c \in Packed(t)' : batch'[c].overdue) <=> \E c \in Packed(t) : batch[c].overdue
    <3>1. \A c \in Packed(t) : c \in DOMAIN batch /\ c # b
      BY <1>6, <2>2 DEF Packed
    <3>2. \A c \in Packed(t) : batch'[c] = batch[c]
      BY <1>1, <3>1
    <3> QED BY <1>4, <3>2
  <2>3. Storage' = [t \in Ticket |-> IF \E c \in Packed(t)' : batch'[c].overdue THEN 1 ELSE 0]
    BY DEF Storage
  <2>4. Storage = [t \in Ticket |-> IF \E c \in Packed(t) : batch[c].overdue THEN 1 ELSE 0]
    BY DEF Storage
  <2>5. \A t \in Ticket : (IF \E c \in Packed(t)' : batch'[c].overdue THEN 1 ELSE 0) =
                          IF t = u THEN 1 ELSE IF \E c \in Packed(t) : batch[c].overdue THEN 1 ELSE 0
    BY <2>1, <2>2
  <2> QED BY <2>3, <2>4, <2>5
<1> QED BY <1>3, <1>5, <1>8, <1>9 DEF ShownMoves

LEMMA NothingShows == UNCHANGED <<mou, batch>> => ShownMoves
BY DEF ShownMoves, Accepted, PackedAt, Storage, Packed

\* Whatever production does, an invoice sees one of the three changes, or none.
LEMMA ProductionShows ==
  ASSUME FloorInv, ProductionMoves
  PROVE  FactsMove
<1>0. M!TypeInv /\ M!StartInv /\ FloorInv'
  <2>1. FloorInv'
    BY FloorStep DEF Next
  <2> QED BY <2>1 DEF FloorInv
<1>1. M!Next
  BY DEF ProductionMoves, M!Next
<1>2. CASE UNCHANGED <<mou, batch>>
  BY <1>2, NothingShows, ShownMovesAreFacts
<1>3. ASSUME NEW o, M!FormOK(o, mou, batch, po, shipment, claim), M!Write(o) PROVE FactsMove
  <2>1. \/ /\ M!MousGrow /\ UNCHANGED batch
           /\ o.op # "mou_create" =>
                /\ DOMAIN mou' = DOMAIN mou
                /\ \A m \in DOMAIN mou : m # o.row => mou'[m] = mou[m]
           /\ o.op = "mou_create" =>
                /\ DOMAIN mou' = DOMAIN mou \cup {Len(mou) + 1} /\ Len(mou) + 1 \notin DOMAIN mou
                /\ mou'[Len(mou) + 1].ticket = o.row /\ mou'[Len(mou) + 1].status = "DRAFT"
                /\ \A m \in DOMAIN mou : mou'[m] = mou[m]
        \/ M!BatchRows(o) /\ UNCHANGED mou
        \/ UNCHANGED <<mou, batch>>
    BY <1>0, <1>3, PA, M!WriteIs
  <2>2. ShownMoves
    BY <1>0, <2>1, MouShows, BatchShows, NothingShows
  <2> QED BY <2>2, ShownMovesAreFacts
<1>4. CASE M!StorageAccrues
  BY <1>4, StorageShows, ShownMovesAreFacts
<1>5. \/ UNCHANGED <<mou, batch>>
      \/ \E o : M!FormOK(o, mou, batch, po, shipment, claim) /\ M!Write(o)
      \/ M!StorageAccrues
      \/ M!OutsideMoves
  <2>1. \/ UNCHANGED M!rows
        \/ \E o : M!FormOK(o, mou, batch, po, shipment, claim) /\ M!Write(o)
        \/ M!StorageAccrues
        \/ M!OutsideMoves
    BY <1>0, <1>1, PA, M!StepIs, Zenon
  <2> QED BY <2>1 DEF M!rows
<1>6. M!OutsideMoves => UNCHANGED <<mou, batch>>
  BY DEF M!OutsideMoves, M!rows
<1> QED BY <1>2, <1>3, <1>4, <1>5, <1>6

---------------------------------------------------------------------------
(* Production keeps its promise *)

LEMMA FinanceInit == Init => F!Init
<1> SUFFICES ASSUME Init PROVE F!Init
  OBVIOUS
<1>1. DOMAIN mou = {} /\ DOMAIN batch = {}
  BY DEF Init
<1>2. \A t \in Ticket : /\ ~FactsAtStart[t].mou_accepted /\ ~FactsAtStart[t].batch_packed
                        /\ FactsAtStart[t].storage_fee = 0
  BY OrderAssumption, Zenon
<1>3. Accepted = [t \in Ticket |-> FALSE] /\ PackedAt = [t \in Ticket |-> FALSE] /\ Storage = [t \in Ticket |-> 0]
  <2>1. \A t : Packed(t) = {}
    BY <1>1 DEF Packed
  <2> QED BY <1>1, <2>1 DEF Accepted, PackedAt, Storage
<1>4. InvoiceTicket = FactsAtStart
  <2>1. InvoiceTicket = Shown([t \in Ticket |-> FALSE], [t \in Ticket |-> FALSE], [t \in Ticket |-> 0])
    BY <1>3, InvoiceTicketIs, Zenon
  <2>2. FactsAtStart \in [Ticket -> F!Facts]
    BY FA DEF F!FinanceAssumption
  <2>3. Shown([t \in Ticket |-> FALSE], [t \in Ticket |-> FALSE], [t \in Ticket |-> 0]) = FactsAtStart
    <3> DEFINE G(t) == [FactsAtStart[t] EXCEPT !.mou_accepted = FALSE, !.batch_packed = FALSE,
                                               !.storage_fee = 0]
    <3>1. \A t \in Ticket : G(t) = FactsAtStart[t]
      <4> SUFFICES ASSUME NEW t \in Ticket PROVE G(t) = FactsAtStart[t]
        BY Zenon
      <4>1. FactsAtStart[t] \in F!Facts
        BY <2>2
      <4>2. G(t) \in F!Facts
        BY <4>1 DEF F!Facts
      <4> QED BY <1>2, <4>1, <4>2 DEF F!Facts
    <3>2. Shown([t \in Ticket |-> FALSE], [t \in Ticket |-> FALSE], [t \in Ticket |-> 0])
            = [t \in Ticket |-> G(t)]
      <4>1. \A t \in Ticket : /\ [u \in Ticket |-> FALSE][t] = FALSE
                              /\ [u \in Ticket |-> 0][t] = 0
        OBVIOUS
      <4> QED BY <4>1, Zenon DEF Shown
    <3> HIDE DEF G
    <3>3. FactsAtStart = [t \in Ticket |-> FactsAtStart[t]]
      BY <2>2
    <3> QED BY <3>1, <3>2, <3>3
  <2> QED BY <2>1, <2>3
<1> QED BY <1>4 DEF Init, F!Init, F!Desk

LEMMA FinanceStep == FloorInv /\ [Next]_vars => [F!Next]_(F!vars)
<1> SUFFICES ASSUME FloorInv, [Next]_vars PROVE [F!Next]_(F!vars)
  OBVIOUS
<1>1. CASE FinanceMoves
  BY <1>1 DEF FinanceMoves, F!Next, F!Desk
<1>2. CASE ProductionMoves
  <2>1. FactsMove /\ UNCHANGED <<option, invoice, fund, cash, cashPassed, cashRaced, cashLost>>
    BY <1>2, ProductionShows DEF ProductionMoves, moneyVars
  <2>2. UNCHANGED InvoiceTicket \/ F!TicketMoves
    BY <2>1, Zenon DEF FactsMove, F!TicketMoves, F!tables
  <2> QED BY <2>1, <2>2 DEF F!Next, F!vars
<1>3. CASE UNCHANGED <<moneyVars, floorVars>>
  <2>1. UNCHANGED InvoiceTicket
    BY <1>3 DEF floorVars, InvoiceTicket, Packed
  <2> QED BY <1>3, <2>1 DEF moneyVars, F!vars
<1> QED BY <1>1, <1>2, <1>3 DEF Next, DummyApproved, vars

LEMMA FloorAlways == Spec => []FloorInv
BY FloorInit, FloorStep, PTL DEF Spec

\* Whatever the desks of production do, what an invoice rests on only grows: an MoU once
\* accepted, a batch once packed and storage once due stay so, one of them at a time.
THEOREM ProductionKeeps == Spec => ProductionKeepsItsPromise
BY FinanceInit, FinanceStep, FloorAlways, PTL DEF Spec, ProductionKeepsItsPromise, F!Spec

---------------------------------------------------------------------------
(* Finance keeps its promise, as long as no cash event is written late *)

MoneyInv == F!TypeInv /\ F!MadeInv /\ F!BillInv

\* What production asks of a ticket was billed after what it is for had happened.
BilledInTime ==
  ~cashRaced => \A t \in Ticket :
    /\ DpCleared(t) => Accepted[t]
    /\ F!Issued(t, "SETTLEMENT") # {} => PackedAt[t]
    /\ F!OpenUnpaid(t, {"SETTLEMENT", "SHIPPING", "STORAGE_FEE"}) # {} => PackedAt[t]
    /\ F!Issued(t, "STORAGE_FEE") # {} => \E b \in Packed(t) : batch[b].overdue

LEMMA InvoiceSays ==
  ASSUME NEW t \in Ticket
  PROVE  /\ InvoiceTicket[t].mou_accepted = Accepted[t] /\ InvoiceTicket[t].batch_packed = PackedAt[t]
         /\ InvoiceTicket[t].storage_fee = Storage[t]
         /\ InvoiceTicket[t].storage_fee >= 1 => \E b \in Packed(t) : batch[b].overdue
<1>1. /\ InvoiceTicket[t].mou_accepted = Accepted[t] /\ InvoiceTicket[t].batch_packed = PackedAt[t]
      /\ InvoiceTicket[t].storage_fee = Storage[t]
  <2>1. \A a \in [Ticket -> BOOLEAN], p \in [Ticket -> BOOLEAN], s \in [Ticket -> {0, 1}] :
          /\ Shown(a, p, s)[t].mou_accepted = a[t]
          /\ Shown(a, p, s)[t].batch_packed = p[t]
          /\ Shown(a, p, s)[t].storage_fee = s[t]
    BY ShownTypes
  <2> QED BY <2>1, InvoiceTicketIs, Zenon
<1>2. Storage[t] = IF \E b \in Packed(t) : batch[b].overdue THEN 1 ELSE 0
  BY DEF Storage
<1>3. Storage[t] >= 1 => \E b \in Packed(t) : batch[b].overdue
  BY <1>2
<1> QED BY <1>1, <1>3

LEMMA MoneyIsInTime == MoneyInv => BilledInTime
<1> SUFFICES ASSUME MoneyInv, ~cashRaced, NEW t \in Ticket
             PROVE  /\ DpCleared(t) => Accepted[t]
                    /\ F!Issued(t, "SETTLEMENT") # {} => PackedAt[t]
                    /\ F!OpenUnpaid(t, {"SETTLEMENT", "SHIPPING", "STORAGE_FEE"}) # {} => PackedAt[t]
                    /\ F!Issued(t, "STORAGE_FEE") # {} => \E b \in Packed(t) : batch[b].overdue
  BY DEF BilledInTime
<1>0. F!Rooted /\ F!RowsMade
  BY DEF MoneyInv, F!BillInv
<1>1. \A i \in DOMAIN invoice :
        invoice[i].ref_type # "INSTALLMENT" => F!InTime(InvoiceTicket, invoice[i].ref_type, invoice[i].ticket)
  BY <1>0 DEF F!RowsMade, F!Made
<1>s. (\E b \in Packed(t) : batch[b].overdue) => PackedAt[t]
  BY DEF PackedAt
<1>2. ASSUME NEW i \in DOMAIN invoice, invoice[i].ticket = t
      PROVE  /\ invoice[i].ref_type = "DP_PRODUCTION_LEGAL" => Accepted[t]
             /\ invoice[i].ref_type \in {"SETTLEMENT", "SHIPPING", "STORAGE_FEE"} => PackedAt[t]
             /\ invoice[i].ref_type = "STORAGE_FEE" => \E b \in Packed(t) : batch[b].overdue
  <2>1. CASE invoice[i].ref_type = "DP_PRODUCTION_LEGAL"
    BY <1>1, <1>2, <2>1, InvoiceSays DEF F!InTime
  <2>2. CASE invoice[i].ref_type \in {"SETTLEMENT", "SHIPPING"}
    BY <1>1, <1>2, <2>2, InvoiceSays DEF F!InTime
  <2>3. CASE invoice[i].ref_type = "STORAGE_FEE"
    BY <1>1, <1>2, <1>s, <2>3, InvoiceSays DEF F!InTime
  <2> QED BY <2>1, <2>2, <2>3
<1>3. DpCleared(t) => Accepted[t]
  BY <1>2 DEF DpCleared, F!Issued
<1>4. F!Issued(t, "SETTLEMENT") # {} => PackedAt[t]
  BY <1>2 DEF F!Issued
<1>5. F!OpenUnpaid(t, {"SETTLEMENT", "SHIPPING", "STORAGE_FEE"}) # {} => PackedAt[t]
  <2> SUFFICES ASSUME NEW i \in F!OpenUnpaid(t, {"SETTLEMENT", "SHIPPING", "STORAGE_FEE"}) PROVE PackedAt[t]
    OBVIOUS
  <2>1. /\ i \in DOMAIN invoice /\ invoice[i].ticket = t
        /\ F!CountsAs(i) \in {"SETTLEMENT", "SHIPPING", "STORAGE_FEE"}
    BY DEF F!OpenUnpaid
  <2>2. CASE invoice[i].parent = 0
    <3>1. invoice[i].ref_type \in {"SETTLEMENT", "SHIPPING", "STORAGE_FEE"}
      BY <2>1, <2>2 DEF F!CountsAs
    <3> QED BY <1>2, <2>1, <3>1
  <2>3. CASE invoice[i].parent # 0
    <3>1. /\ invoice[i].parent \in DOMAIN invoice /\ invoice[invoice[i].parent].ticket = t
      BY <1>0, <2>1, <2>3 DEF F!Rooted
    <3>2. invoice[invoice[i].parent].ref_type \in {"SETTLEMENT", "SHIPPING", "STORAGE_FEE"}
      BY <2>1, <2>3 DEF F!CountsAs
    <3> QED BY <1>2, <3>1, <3>2
  <2> QED BY <2>2, <2>3
<1>6. F!Issued(t, "STORAGE_FEE") # {} => \E b \in Packed(t) : batch[b].overdue
  BY <1>2 DEF F!Issued
<1> QED BY <1>3, <1>4, <1>5, <1>6

LEMMA NothingForNothing ==
  ASSUME MoneyInv, ~cashRaced, F!NothingIsFree, NEW type, type # "INSTALLMENT"
  PROVE  ~F!CancelledForNothing(type)
<1>1. F!RowsMade
  BY DEF MoneyInv, F!BillInv
<1>2. \A i \in DOMAIN invoice : invoice[i].ref_type = type => invoice[i].total >= 1
  BY <1>1 DEF F!RowsMade, F!Made
<1>3. \A i \in DOMAIN invoice : invoice[i].total = 0 => ~(invoice[i].total >= 1)
  OBVIOUS
<1> QED BY <1>2, <1>3 DEF F!CancelledForNothing

\* What is paid stays paid.
LEMMA PaidStays ==
  ASSUME FloorInv, MoneyInv, [Next]_vars, ~cashRaced', F!NothingIsFree, NEW t \in Ticket
  PROVE  /\ ~cashRaced
         /\ DpCleared(t) => DpCleared(t)'
         /\ F!SettlementCleared(t) => F!SettlementCleared(t)'
         /\ F!Cleared(t, "STORAGE_FEE") => F!Cleared(t, "STORAGE_FEE")'
<1>0. [F!Next]_(F!vars) /\ F!TypeInv /\ F!MadeInv /\ F!BillInv
  BY FinanceStep DEF MoneyInv
<1>1. ~cashRaced
  BY <1>0, FA, F!StepsTested
<1>2. {"DP_PRODUCTION_LEGAL", "SETTLEMENT", "STORAGE_FEE"} \subseteq F!Once \ {"OTHER"}
  BY DEF F!Once, F!InvoiceTypes
<1>3. ASSUME NEW type \in {"DP_PRODUCTION_LEGAL", "SETTLEMENT", "STORAGE_FEE"}
      PROVE  /\ F!Cleared(t, type) => F!Cleared(t, type)'
             /\ F!PaidOff(t, type) => F!PaidOff(t, type)'
  <2>1. ~F!CancelledForNothing(type)
    BY <1>1, <1>3, NothingForNothing
  <2>2. type \in F!Once \ {"OTHER"}
    BY <1>2, <1>3
  <2>3. /\ F!Cleared(t, type) => F!Cleared(t, type)' \/ F!CancelledForNothing(type)
        /\ F!PaidOff(t, type) => F!PaidOff(t, type)' \/ F!CancelledForNothing(type)
    BY <1>0, <2>2, FA, F!ClearedStep
  <2> QED BY <2>1, <2>3
<1>4. F!PaidOff(t, "DP_PRODUCTION_LEGAL") => F!PaidOff(t, "DP_PRODUCTION_LEGAL")'
  BY <1>3
<1>5. F!Cleared(t, "SETTLEMENT") => F!Cleared(t, "SETTLEMENT")'
  BY <1>3
<1>6. F!Cleared(t, "STORAGE_FEE") => F!Cleared(t, "STORAGE_FEE")'
  BY <1>3
<1>7. DpCleared(t) => DpCleared(t)'
  BY <1>4 DEF DpCleared, F!PaidOff
<1>8. F!SettlementCleared(t) => F!SettlementCleared(t)'
  BY <1>5 DEF F!SettlementCleared, F!Cleared
<1> QED BY <1>1, <1>6, <1>7, <1>8

\* What the money and the design desk do to the gates of one ticket.
LEMMA OutsideStands ==
  ASSUME FloorInv, MoneyInv, BilledInTime', [Next]_vars, ~cashRaced', F!NothingIsFree,
         UNCHANGED <<mou, batch>>, NEW t \in Ticket, dummyReady[t] => dummyReady'[t]
  PROVE  M!OutsideStep(t)
<1>1. /\ ShipState[t].dp_cleared = DpCleared(t)
      /\ ShipState[t].settlement_issued = (F!Issued(t, "SETTLEMENT") # {})
      /\ ShipState[t].settlement_cleared = F!SettlementCleared(t)
      /\ ShipState[t].ship_unpaid = (F!OpenUnpaid(t, {"SETTLEMENT", "SHIPPING", "STORAGE_FEE"}) # {})
      /\ ShipState[t].storage_billed = (F!Issued(t, "STORAGE_FEE") # {})
      /\ ShipState[t].dummy_ready = dummyReady[t]
  BY DEF ShipState
<1>2. /\ ShipState'[t].dp_cleared = DpCleared(t)'
      /\ ShipState'[t].settlement_issued = (F!Issued(t, "SETTLEMENT")' # {})
      /\ ShipState'[t].settlement_cleared = F!SettlementCleared(t)'
      /\ ShipState'[t].ship_unpaid = (F!OpenUnpaid(t, {"SETTLEMENT", "SHIPPING", "STORAGE_FEE"})' # {})
      /\ ShipState'[t].storage_billed = (F!Issued(t, "STORAGE_FEE")' # {})
      /\ ShipState'[t].dummy_ready = dummyReady'[t]
  BY DEF ShipState
<1>3. /\ DpCleared(t) => DpCleared(t)'
      /\ F!SettlementCleared(t) => F!SettlementCleared(t)'
  BY PaidStays
<1>4. /\ DpCleared(t)' => Accepted'[t]
      /\ F!Issued(t, "SETTLEMENT")' # {} => PackedAt'[t]
      /\ F!OpenUnpaid(t, {"SETTLEMENT", "SHIPPING", "STORAGE_FEE"})' # {} => PackedAt'[t]
      /\ F!Issued(t, "STORAGE_FEE")' # {} => \E b \in Packed(t)' : batch'[b].overdue
  BY DEF BilledInTime
<1>5. /\ Accepted'[t] => \E m \in DOMAIN mou : mou[m].ticket = t /\ mou[m].status = "ACCEPTED"
      /\ PackedAt'[t] => Packed(t) # {}
      /\ (\E b \in Packed(t)' : batch'[b].overdue) => \E b \in Packed(t) : batch[b].overdue
  BY DEF Accepted, PackedAt, Packed
<1>6. {b \in DOMAIN batch : M!TicketOf(b) = t /\ batch[b].stages_done = 4} = Packed(t)
  BY DEF Packed, M!TicketOf
<1>7. F!SettlementCleared(t)' => F!Issued(t, "SETTLEMENT")' # {}
  BY DEF F!SettlementCleared
<1>8. F!Issued(t, "SETTLEMENT")' # {} /\ ~F!SettlementCleared(t)' =>
        F!OpenUnpaid(t, {"SETTLEMENT", "SHIPPING", "STORAGE_FEE"})' # {}
  <2>1. F!OpenUnpaid(t, {"SETTLEMENT"})' \subseteq F!OpenUnpaid(t, {"SETTLEMENT", "SHIPPING", "STORAGE_FEE"})'
    BY DEF F!OpenUnpaid
  <2> QED BY <2>1 DEF F!SettlementCleared
<1>9. ShipState'[t].dp_cleared # ShipState[t].dp_cleared =>
        /\ ShipState'[t].dp_cleared
        /\ \E m \in DOMAIN mou : mou[m].ticket = t /\ mou[m].status = "ACCEPTED"
  <2>1. DpCleared(t) \in BOOLEAN /\ DpCleared(t)' \in BOOLEAN
    BY DEF DpCleared
  <2>2. CASE DpCleared(t)'
    BY <1>2, <1>4, <1>5, <2>2, Zenon
  <2>3. CASE ~DpCleared(t)'
    <3>1. DpCleared(t)' = FALSE /\ DpCleared(t) = FALSE
      BY <1>3, <2>1, <2>3
    <3> QED BY <1>1, <1>2, <3>1, Zenon
  <2> QED BY <2>2, <2>3
<1>10. /\ ShipState[t].settlement_cleared => ShipState'[t].settlement_cleared
       /\ ShipState'[t].settlement_cleared => ShipState'[t].settlement_issued
       /\ ShipState'[t].settlement_issued /\ ~ShipState'[t].settlement_cleared => ShipState'[t].ship_unpaid
  BY <1>1, <1>2, <1>3, <1>7, <1>8, Zenon
<1>11. /\ ShipState'[t].settlement_issued => Packed(t) # {}
       /\ ShipState'[t].ship_unpaid => Packed(t) # {}
       /\ ShipState'[t].storage_billed => \E b \in Packed(t) : batch[b].overdue
  BY <1>2, <1>4, <1>5, Zenon
<1>12. ShipState[t].dummy_ready => ShipState'[t].dummy_ready
  BY <1>1, <1>2, Zenon
<1> QED BY <1>6, <1>9, <1>10, <1>11, <1>12, Zenon DEF M!OutsideStep

\* The abstract step of production that a step of the order is.
LEMMA ProductionStep ==
  ASSUME FloorInv, FloorInv', MoneyInv, BilledInTime', [Next]_vars, ~cashRaced', F!NothingIsFree
  PROVE  [M!Next]_(M!vars)
<1>1. CASE ProductionMoves
  BY <1>1 DEF ProductionMoves, M!Next
<1>2. ASSUME UNCHANGED floorVars, \A t \in Ticket : dummyReady[t] => dummyReady'[t]
      PROVE  [M!Next]_(M!vars)
  <2>1. UNCHANGED <<mou, batch, po, shipment, claim, handed, form, passed, raced, lost>>
    BY <1>2 DEF floorVars
  <2>2. \A t \in Ticket : M!OutsideStep(t)
    BY <1>2, <2>1, OutsideStands
  <2>3. ShipState' \in [Ticket -> M!OutsideRow]
    BY DEF FloorInv, M!TypeInv, M!Rows
  <2>4. M!OutsideMoves
    BY <2>1, <2>2, <2>3 DEF M!OutsideMoves, M!rows
  <2> QED BY <2>4 DEF M!Next
<1>3. FinanceMoves => UNCHANGED floorVars /\ dummyReady' = dummyReady
  BY DEF FinanceMoves
<1>4. DummyApproved => UNCHANGED floorVars /\ \A t \in Ticket : dummyReady[t] => dummyReady'[t]
  <2> SUFFICES ASSUME DummyApproved, NEW u \in Ticket, dummyReady[u]
               PROVE  UNCHANGED floorVars /\ dummyReady'[u]
    BY DEF DummyApproved
  <2>1. PICK t \in Ticket : dummyReady' = [dummyReady EXCEPT ![t] = TRUE]
    BY DEF DummyApproved
  <2>2. dummyReady \in [Ticket -> BOOLEAN]
    BY DEF FloorInv
  <2>3. dummyReady'[u]
    BY <2>1, <2>2
  <2> QED BY <2>3 DEF DummyApproved
<1>5. UNCHANGED vars => UNCHANGED floorVars /\ dummyReady' = dummyReady
  BY DEF vars
<1> QED BY <1>1, <1>2, <1>3, <1>4, <1>5 DEF Next

LEMMA MoneyAlways == Spec => [](MoneyInv /\ BilledInTime)
<1>1. Spec => F!Spec
  BY ProductionKeeps DEF ProductionKeepsItsPromise
<1>2. F!Spec => []MoneyInv
  BY FA, F!BillAlways DEF MoneyInv
<1> QED BY <1>1, <1>2, MoneyIsInTime, PTL

LEMMA NoDeviceNoRace ==
  ASSUME CashDevice = {}
  PROVE  Spec => []~cashRaced
<1>1. Init => ~cashRaced
  BY DEF Init
<1>2. ~cashRaced /\ [Next]_vars => ~cashRaced'
  BY DEF Next, FinanceMoves, ProductionMoves, DummyApproved, vars, moneyVars, F!Fill, F!Close, F!Submit,
         F!SaveFinanceOption
<1> QED BY <1>1, <1>2, PTL DEF Spec

\* Where cash is kept by browsers alone and no discount takes the whole of an invoice,
\* finance never takes a payment back and bills nothing before its time, whatever the
\* cashiers do and whatever answer gets lost: production may rely on it.
THEOREM FinanceKeeps ==
  CashDevice = {} /\ F!NothingIsFree => (Spec => FinanceKeepsItsPromise)
<1> SUFFICES ASSUME CashDevice = {}, F!NothingIsFree PROVE Spec => FinanceKeepsItsPromise
  OBVIOUS
<1>1. FloorInv /\ FloorInv' /\ MoneyInv /\ BilledInTime' /\ [Next]_vars /\ ~cashRaced' => [M!Next]_(M!vars)
  BY ProductionStep
<1> QED BY <1>1, ProductionInit, FloorAlways, MoneyAlways, NoDeviceNoRace, PTL
        DEF Spec, FinanceKeepsItsPromise, M!Spec

---------------------------------------------------------------------------
(* Nothing leaves unpaid *)

\* What production itself is sure of, while no cash event was written late.
WorkOfOrder == ~cashRaced => M!Inv

\* A shipment of a batch that stood too long has its storage paid.
StoragePaid ==
  ~raced /\ ~cashRaced => \A h \in DOMAIN shipment :
    shipment[h].status # "CANCELLED" /\ batch[shipment[h].batch].overdue
      => F!Cleared(M!TicketOf(shipment[h].batch), "STORAGE_FEE")

OrderInv == FloorInv /\ MoneyInv /\ WorkOfOrder /\ StoragePaid

LEMMA OrderInit == Init /\ MoneyInv => OrderInv
<1> SUFFICES ASSUME Init, MoneyInv PROVE OrderInv
  OBVIOUS
<1>1. M!Inv
  BY PA, ProductionInit, M!InvInit
<1>2. StoragePaid
  BY DEF Init, StoragePaid
<1> QED BY <1>1, <1>2, FloorInit DEF OrderInv, WorkOfOrder

LEMMA StorageStaysPaid ==
  ASSUME FloorInv, MoneyInv, M!Inv, StoragePaid, [Next]_vars, ~cashRaced', F!NothingIsFree,
         [M!Next]_(M!vars)
  PROVE  StoragePaid'
<1> SUFFICES ASSUME ~raced', NEW h \in DOMAIN shipment', shipment'[h].status # "CANCELLED",
                    NEW b, b = shipment'[h].batch, batch'[b].overdue,
                    NEW t, t = mou'[batch'[b].mou].ticket
             PROVE  F!Cleared(t, "STORAGE_FEE")'
  BY DEF StoragePaid, M!TicketOf, F!Cleared, F!Issued, F!OpenUnpaid
<1>2. /\ b \in DOMAIN batch /\ batch'[b].overdue = batch[b].overdue
      /\ \/ h \in DOMAIN shipment /\ shipment[h].batch = b /\ shipment[h].status # "CANCELLED"
         \/ M!ShipGate(b)
  BY PA, M!ShippedStep
<1>3. M!TypeInv /\ ~raced /\ ~cashRaced
  <2>1. raced => raced'
    BY PA, M!StepIs DEF M!Inv
  <2>2. [F!Next]_(F!vars) /\ F!TypeInv /\ F!MadeInv
    BY FinanceStep DEF MoneyInv
  <2>3. ~cashRaced
    BY <2>2, FA, F!StepsTested
  <2> QED BY <2>1, <2>3 DEF M!Inv
<1>4. t = M!TicketOf(b) /\ t \in Ticket
  <2>1. M!TicketOf(b)' = M!TicketOf(b)
    BY <1>2, <1>3, PA, M!TicketsKept
  <2>2. M!TicketOf(b) \in Ticket
    BY <1>2, <1>3, PA, M!TicketOfType DEF M!TypeInv
  <2> QED BY <2>1, <2>2 DEF M!TicketOf
<1>6. F!Cleared(t, "STORAGE_FEE")
  <2>1. batch[b].overdue
    BY <1>2
  <2>2. CASE h \in DOMAIN shipment /\ shipment[h].batch = b /\ shipment[h].status # "CANCELLED"
    BY <1>3, <1>4, <2>1, <2>2 DEF StoragePaid
  <2>3. CASE M!ShipGate(b)
    <3>1. ~ShipState[t].ship_unpaid /\ ShipState[t].storage_billed
      BY <1>4, <2>1, <2>3, Zenon DEF M!ShipGate
    <3>2. /\ ShipState[t].ship_unpaid = (F!OpenUnpaid(t, {"SETTLEMENT", "SHIPPING", "STORAGE_FEE"}) # {})
          /\ ShipState[t].storage_billed = (F!Issued(t, "STORAGE_FEE") # {})
      BY <1>4 DEF ShipState
    <3>3. /\ F!OpenUnpaid(t, {"SETTLEMENT", "SHIPPING", "STORAGE_FEE"}) = {}
          /\ F!Issued(t, "STORAGE_FEE") # {}
      BY <3>1, <3>2, Zenon
    <3>4. F!OpenUnpaid(t, {"STORAGE_FEE"}) \subseteq F!OpenUnpaid(t, {"SETTLEMENT", "SHIPPING", "STORAGE_FEE"})
      BY DEF F!OpenUnpaid
    <3> QED BY <3>3, <3>4 DEF F!Cleared
  <2> QED BY <1>2, <2>2, <2>3
<1> QED BY <1>3, <1>4, <1>6, PaidStays

LEMMA OrderStep ==
  ASSUME F!NothingIsFree, OrderInv, FloorInv', MoneyInv', BilledInTime', [Next]_vars
  PROVE  OrderInv'
<1>1. CASE cashRaced'
  BY <1>1 DEF OrderInv, WorkOfOrder, StoragePaid
<1>2. CASE ~cashRaced'
  <2>1. [M!Next]_(M!vars)
    BY <1>2, ProductionStep DEF OrderInv
  <2>2. ~cashRaced
    <3>1. [F!Next]_(F!vars) /\ F!TypeInv /\ F!MadeInv
      BY FinanceStep DEF OrderInv, MoneyInv
    <3> QED BY <1>2, <3>1, FA, F!StepsTested
  <2>3. M!Inv
    BY <2>2 DEF OrderInv, WorkOfOrder
  <2>4. M!Inv'
    BY <2>1, <2>3, PA, M!InvStep
  <2>5. StoragePaid'
    BY <1>2, <2>1, <2>3, StorageStaysPaid DEF OrderInv
  <2> QED BY <2>4, <2>5 DEF OrderInv, WorkOfOrder
<1> QED BY <1>1, <1>2

\* What is cleared has an invoice that is paid or rescheduled.
LEMMA ClearedIsPaid ==
  ASSUME MoneyInv, ~cashRaced, NEW t, NEW type, type # "INSTALLMENT", F!Cleared(t, type)
  PROVE  \E i \in F!Issued(t, type) : F!Paid(i) \/ invoice[i].status = "RESCHEDULED"
<1>1. PICK i \in DOMAIN invoice : /\ invoice[i].ticket = t /\ invoice[i].ref_type = type
                                  /\ invoice[i].status # "CANCELLED" /\ i \in F!Issued(t, type)
  BY DEF F!Cleared, F!Issued
<1>2. F!CountsAs(i) = type
  BY <1>1 DEF MoneyInv, F!BillInv, F!Rooted, F!CountsAs
<1>3. invoice[i].status \in {"OPEN", "RESCHEDULED", "CANCELLED"}
  <2>1. invoice[i] \in F!InvoiceRow
    BY <1>1, FA, F!RowTypes DEF MoneyInv, F!TypeInv, F!TypeOK
  <2> QED BY <2>1 DEF F!InvoiceRow
<1>4. invoice[i].status = "OPEN" => F!Paid(i)
  BY <1>1, <1>2 DEF F!Cleared, F!OpenUnpaid
<1> QED BY <1>1, <1>3, <1>4

LEMMA OrderInvImplies == OrderInv => NothingLeavesUnpaid
<1> SUFFICES ASSUME OrderInv, ~raced, ~cashRaced, NEW h \in DOMAIN shipment,
                    shipment[h].status # "CANCELLED",
                    NEW b, b = shipment[h].batch, NEW t, t = mou[batch[b].mou].ticket,
                    NEW type \in {"DP_PRODUCTION_LEGAL", "SETTLEMENT"} \cup
                                 (IF batch[b].overdue THEN {"STORAGE_FEE"} ELSE {})
             PROVE  \E i \in F!Issued(t, type) :
                      /\ F!Paid(i) \/ invoice[i].status = "RESCHEDULED"
                      /\ type # "DP_PRODUCTION_LEGAL" => F!OpenUnpaid(t, {type}) = {}
  BY DEF NothingLeavesUnpaid
<1>1. /\ M!TypeInv /\ M!WorkInv /\ M!PackedInv /\ MoneyInv
      /\ t = M!TicketOf(b)
  BY DEF OrderInv, WorkOfOrder, M!Inv, M!OrderInv, M!TicketOf
<1>2. b \in DOMAIN batch /\ t \in Ticket
  <2>1. b \in DOMAIN batch
    BY <1>1 DEF M!TypeInv, M!Referring
  <2> QED BY <1>1, <2>1, PA, M!TicketOfType DEF M!TypeInv
<1>3. CASE type = "DP_PRODUCTION_LEGAL"
  <2>1. ShipState[t].dp_cleared
    BY <1>1, <1>2, Zenon DEF M!WorkInv
  <2>2. ShipState[t].dp_cleared = DpCleared(t)
    BY <1>2 DEF ShipState
  <2>3. DpCleared(t)
    BY <2>1, <2>2, Zenon
  <2> QED BY <1>3, <2>3 DEF DpCleared
<1>4. CASE type = "SETTLEMENT"
  <2>1. ShipState[t].settlement_cleared
    BY <1>1, Zenon DEF M!PackedInv
  <2>2. ShipState[t].settlement_cleared = F!SettlementCleared(t)
    BY <1>2 DEF ShipState
  <2>3. F!SettlementCleared(t)
    BY <2>1, <2>2, Zenon
  <2>4. F!Cleared(t, type)
    BY <1>4, <2>3 DEF F!SettlementCleared, F!Cleared
  <2> QED BY <1>1, <1>4, <2>4, ClearedIsPaid DEF F!Cleared
<1>5. CASE type = "STORAGE_FEE"
  <2>1. batch[b].overdue
    BY <1>5
  <2>2. F!Cleared(t, type)
    BY <1>1, <1>5, <2>1 DEF OrderInv, StoragePaid
  <2> QED BY <1>1, <1>5, <2>2, ClearedIsPaid DEF F!Cleared
<1> QED BY <1>3, <1>4, <1>5

\* Nothing is prepared for shipping, and nothing leaves, before down payment, settlement
\* and, where it is due, storage are paid, and no later step takes one of them back:
\* for every number of desks, devices, tickets and rows, as long as no event was
\* written over a guard that had ceased to hold and nothing is billed for nothing.
THEOREM GoodsArePaid == F!NothingIsFree => (Spec => []NothingLeavesUnpaid)
<1> SUFFICES ASSUME F!NothingIsFree PROVE Spec => []NothingLeavesUnpaid
  OBVIOUS
<1>1. Init /\ MoneyInv => OrderInv
  BY OrderInit
<1>2. OrderInv /\ FloorInv' /\ MoneyInv' /\ BilledInTime' /\ [Next]_vars => OrderInv'
  BY OrderStep
<1> QED BY <1>1, <1>2, FloorAlways, MoneyAlways, OrderInvImplies, PTL DEF Spec
=============================================================================
