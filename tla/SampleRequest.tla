--------------------------- MODULE SampleRequest ---------------------------
(***************************************************************************)
(* A sample request up to the client's approval (lib/server/samples.ts,    *)
(* media.ts and approval.ts with their lib/validations): the steps of the  *)
(* ticket, the price, the design ticket with its dummies, the MoU as far   *)
(* as a link can answer it, the approval links, and the client's lifecycle.*)
(*                                                                         *)
(* A web handler reads the state a step starts from, checks and writes in  *)
(* one transaction, whatever its browser saw and however often it sends.   *)
(* A device's event carries that state, passes a guard in one round trip   *)
(* and is written in a later one.  The statement of a step compares status *)
(* and round once more, what it inserts beside it does not.                *)
(*                                                                         *)
(* Abstracted: updated_at is the part of the row kept here, a fee is open  *)
(* or paid, the terms of an MoU are a number.  Not modelled: codes, notes, *)
(* photos but the mockup, the status log, notifications, links for goods.  *)
(***************************************************************************)
EXTENDS Integers, Sequences, FiniteSets

CONSTANTS
  Device, None,  \* offline devices; no event
  Offline,       \* the steps that devices record in this instance
  Browser,       \* web desks that make links
  Wishes,        \* [is_paid_sample, is_dummy_required, is_test_requested] asked for
  Quotas,        \* free revisions a client may have
  MaxRejections, \* max_dummy_rejections; 0 is no limit
  Kinds,         \* what links are made for: subset of {"SAMPLE", "DUMMY", "MOU"}
  MaxTickets, MaxRevisions, MaxPrices, MaxDesigns, MaxTerms, MaxLinks  \* bounds

Desk == Browser \cup Device
Closed == {"RND_REJECTED", "CLIENT_REJECT", "CANCELLED"}
Terminal == Closed \cup {"CLIENT_ACC"}
Working == {"IN_RND", "SAMPLE_READY", "SAMPLE_SENT", "CLIENT_ACC", "CLIENT_REJECT"}
Statuses == Terminal \cup Working \cup {"DRAFT", "RND_REVIEW", "RND_ACCEPTED",
              "WAITING_SAMPLE_PAYMENT", "PENDING_FEE_ASSESSMENT", "WAITING_REVISION_PAYMENT"}
Wish == [is_paid_sample: BOOLEAN, is_dummy_required: BOOLEAN, is_test_requested: BOOLEAN]
FeeTypes == {"SAMPLE_FEE", "TEST_FEE", "REVISION_FEE", "DUMMY_FEE"}

ASSUME SampleAssumption == /\ Browser \cap Device = {} /\ Wishes \subseteq Wish
                           /\ Quotas \subseteq Nat /\ MaxRejections \in Nat
                           /\ Kinds \subseteq {"SAMPLE", "DUMMY", "MOU"}
                           /\ {MaxTickets, MaxRevisions, MaxPrices, MaxDesigns, MaxTerms, MaxLinks} \subseteq Nat

VARIABLES
  ticket,     \* rows of sample_requests
  price,      \* rows of pricing_formulas: <<ticket, iteration>>
  feedback,   \* rows of sample_feedbacks: <<ticket, iteration, decision>>
  design,     \* rows of design_tickets
  mou,        \* rows of production_mou
  bill,       \* fee invoices: <<ticket, type, round, status>>
  link,       \* rows of approval_tokens
  lifecycle,  \* lifecycle_status of the client
  quota,      \* free_revision_limit of the client
  minting,    \* minting[d]: the link desk d has inserted, its predecessors not yet revoked
  form,       \* form[d]: the event device d has written down, or None
  passed, raced   \* as in Production

rows == <<ticket, price, feedback, design, mou, lifecycle>>
around == <<bill, quota, link, minting>>
vars == <<rows, around, form, passed, raced>>

TicketRow == [wish: Wish, status: Statuses, revision_index: Nat, is_billable: BOOLEAN,
              mockup: BOOLEAN]
DesignRow == [ticket: Nat, count: Nat,
              status: {"MOCKUP", "DUMMY_PRINTING", "DUMMY_SENT", "DUMMY_REVISION", "DUMMY_ACC", "CANCELLED"}]
MouRow == [ticket: Nat, terms: Nat,
           status: {"DRAFT", "SENT", "ACCEPTED", "REJECTED", "CANCELLED"}]
LinkRow == [kind: {"SAMPLE", "DUMMY", "MOU"}, row: Nat, status: {"SAMPLE_SENT", "DUMMY_SENT", "SENT"},
            revision: Nat, made_for: Nat, state: {"LIVE", "USED", "REVOKED", "EXPIRED"}]

---------------------------------------------------------------------------
(* Which step leads where *)

TicketMoves ==
  {<<"SUBMIT_TO_RND", "DRAFT">>, <<"RND_ACCEPT", "RND_REVIEW">>, <<"RND_REJECT", "RND_REVIEW">>,
   <<"PROCEED", "RND_ACCEPTED">>, <<"PAYMENT_RECEIVED", "WAITING_SAMPLE_PAYMENT">>,
   <<"PAYMENT_RECEIVED", "WAITING_REVISION_PAYMENT">>, <<"SAMPLE_READY", "IN_RND">>,
   <<"SAMPLE_SENT", "SAMPLE_READY">>, <<"SET_REVISION_FEE", "PENDING_FEE_ASSESSMENT">>,
   <<"CLIENT_ACC", "SAMPLE_SENT">>, <<"CLIENT_REJECT", "SAMPLE_SENT">>, <<"CLIENT_REVISE", "SAMPLE_SENT">>}
  \cup {<<"CANCEL", s>> : s \in Statuses \ Terminal}

DesignMoves ==
  {<<"PRINT_DUMMY", "MOCKUP", "DUMMY_PRINTING">>, <<"PRINT_DUMMY", "DUMMY_REVISION", "DUMMY_PRINTING">>,
   <<"DUMMY_SENT", "DUMMY_PRINTING", "DUMMY_SENT">>, <<"DUMMY_ACC", "DUMMY_SENT", "DUMMY_ACC">>,
   <<"DUMMY_REVISE", "DUMMY_SENT", "DUMMY_REVISION">>}
  \cup {<<"CANCEL_DESIGN", s, "CANCELLED">> : s \in {"MOCKUP", "DUMMY_PRINTING", "DUMMY_SENT", "DUMMY_REVISION"}}

MouMoves == {<<"SEND_MOU", "DRAFT", "SENT">>, <<"MOU_ACCEPT", "SENT", "ACCEPTED">>,
             <<"MOU_REVISE", "SENT", "DRAFT">>, <<"MOU_REJECT", "SENT", "REJECTED">>,
             <<"CANCEL_MOU", "DRAFT", "CANCELLED">>, <<"CANCEL_MOU", "SENT", "CANCELLED">>}

TicketSteps == {m[1] : m \in TicketMoves}
DesignSteps == {m[1] : m \in DesignMoves}
MouSteps == {m[1] : m \in MouMoves}
Decisions == {"CLIENT_ACC", "CLIENT_REVISE", "CLIENT_REJECT"}

\* The step an answer through a link stands for; a dummy cannot be rejected.
ApprovalSteps == [SAMPLE |-> Decisions, DUMMY |-> {"DUMMY_ACC", "DUMMY_REVISE"},
                  MOU |-> {"MOU_ACCEPT", "MOU_REVISE", "MOU_REJECT"}]

---------------------------------------------------------------------------
(* Gates *)

Billed(t, type, round, statuses) == \E s \in statuses : <<t, type, round, s>> \in bill
Paid(t, type, round) == Billed(t, type, round, {"PAID"})
ActiveDesigns(t) == {d \in DOMAIN design : design[d].ticket = t /\ design[d].status # "CANCELLED"}
ActiveMous(t) == {m \in DOMAIN mou : mou[m].ticket = t /\ mou[m].status \notin {"CANCELLED", "REJECTED"}}
Prices(t, iteration) == {p \in DOMAIN price : price[p] = <<t, iteration>>}

FeePaid(t) == IF ticket[t].status = "WAITING_SAMPLE_PAYMENT" THEN Paid(t, "SAMPLE_FEE", 0)
              ELSE Paid(t, "REVISION_FEE", ticket[t].revision_index)

\* The first dummy waits for its invoice, a later one only for one that is open.
DummyPaid(d) == LET t == design[d].ticket
                    n == design[d].count
                IN IF n = 0 THEN Paid(t, "DUMMY_FEE", 0) ELSE ~Billed(t, "DUMMY_FEE", n, {"OPEN"})

MockupReady(t) == \/ ~ticket[t].wish.is_dummy_required /\ ActiveDesigns(t) = {}
                  \/ ticket[t].mockup

DummyReady(t) == \/ ~ticket[t].wish.is_dummy_required
                 \/ \E d \in DOMAIN design : design[d].ticket = t /\ design[d].status = "DUMMY_ACC"

TicketStepAccepted(o) ==
  LET t == o.row
  IN /\ <<o.op, ticket[t].status>> \in TicketMoves
     /\ o.op = "PAYMENT_RECEIVED" => FeePaid(t)
     /\ o.op = "SAMPLE_SENT" => /\ Prices(t, ticket[t].revision_index + 1) # {}
                                /\ ticket[t].wish.is_test_requested => Paid(t, "TEST_FEE", 0)
                                /\ MockupReady(t)

DesignStepAccepted(o) ==
  LET d == design[o.row]
  IN /\ \E m \in DesignMoves : m[1] = o.op /\ m[2] = d.status
     /\ o.op = "PRINT_DUMMY" =>
          /\ ticket[d.ticket].status = "CLIENT_ACC" /\ ticket[d.ticket].mockup /\ DummyPaid(o.row)
          /\ (MaxRejections > 0 /\ d.count >= MaxRejections) => o.arg

MouStepAccepted(o) == /\ \E m \in MouMoves : m[1] = o.op /\ m[2] = mou[o.row].status
                      /\ o.op = "SEND_MOU" => DummyReady(mou[o.row].ticket)

Rule(o) ==
  CASE o.op = "create" -> TRUE
    [] o.op = "update" -> ticket[o.row].status \notin Terminal
    [] o.op \in TicketSteps -> TicketStepAccepted(o)
    [] o.op = "price" -> ticket[o.row].status = "SAMPLE_READY"
    [] o.op = "mockup" -> ActiveDesigns(o.row) # {}
    [] o.op = "design" -> ticket[o.row].status \notin Closed /\ ActiveDesigns(o.row) = {}
    [] o.op \in DesignSteps -> DesignStepAccepted(o)
    [] o.op = "mou" -> ticket[o.row].status = "CLIENT_ACC" /\ ActiveMous(o.row) = {}
    [] o.op = "terms" -> mou[o.row].status = "DRAFT"
    [] o.op \in MouSteps -> MouStepAccepted(o)

---------------------------------------------------------------------------
(* Forms *)

\* What a step starts from.
Base(o) ==
  CASE o.op \in TicketSteps \cup {"price"} -> <<ticket[o.row].status, ticket[o.row].revision_index>>
    [] o.op = "update" -> <<ticket[o.row].status, ticket[o.row].revision_index, ticket[o.row].wish>>
    [] o.op \in DesignSteps -> <<design[o.row].status, design[o.row].count>>
    [] o.op = "terms" -> <<mou[o.row].status, mou[o.row].terms>>
    [] o.op \in MouSteps -> <<mou[o.row].status>>
    [] OTHER -> <<>>

Guard(o) == o.base = Base(o) /\ Rule(o)

Form(op, row, arg) == [op |-> op, row |-> row, arg |-> arg]

DraftForms == {Form("create", 0, wish) : wish \in Wishes} \cup
              {Form("update", t, wish) : t \in DOMAIN ticket, wish \in Wishes}
StepForms == {Form(op, t, FALSE) : op \in TicketSteps, t \in DOMAIN ticket} \cup
             {Form("SET_REVISION_FEE", t, TRUE) : t \in DOMAIN ticket}
PriceForms == {Form("price", t, FALSE) : t \in DOMAIN ticket}
MockupForms == {Form("mockup", t, FALSE) : t \in DOMAIN ticket}
DesignForms == {Form("design", t, FALSE) : t \in DOMAIN ticket} \cup
               {Form(op, d, FALSE) : op \in DesignSteps, d \in DOMAIN design} \cup
               {Form("PRINT_DUMMY", d, TRUE) : d \in DOMAIN design}
MouForms == {Form("mou", t, FALSE) : t \in DOMAIN ticket} \cup
            {Form(op, m, FALSE) : op \in MouSteps \cup {"terms"}, m \in DOMAIN mou}
Drafts == UNION {DraftForms, StepForms, PriceForms, MockupForms, DesignForms, MouForms}

Filled(o) == [op |-> o.op, row |-> o.row, arg |-> o.arg, base |-> Base(o)]

\* Room for what the form inserts or counts up.
Fits(o) == /\ o.op = "create" => Len(ticket) < MaxTickets
           /\ o.op = "CLIENT_REVISE" => ticket[o.row].revision_index < MaxRevisions
           /\ o.op = "price" => Len(price) < MaxPrices
           /\ o.op = "design" => Len(design) < MaxDesigns
           /\ o.op = "DUMMY_REVISE" => design[o.row].count < MaxRevisions
           /\ o.op = "mou" => mou = <<>>
           /\ o.op = "terms" => mou[o.row].terms < MaxTerms

---------------------------------------------------------------------------
(* The statements *)

CreateSampleRequest(o) ==
  ticket' = Append(ticket, [wish |-> o.arg, status |-> "DRAFT", revision_index |-> 0,
                            is_billable |-> FALSE, mockup |-> FALSE])

UpdateSampleRequest(o) ==
  ticket' = IF ticket[o.row].status = "DRAFT" THEN [ticket EXCEPT ![o.row].wish = o.arg] ELSE ticket

\* Mutant: the fee of a revision is set and RnD goes on at once.
TargetUnpaid(o, free) ==
  CASE o.op = "SUBMIT_TO_RND" -> "RND_REVIEW"
    [] o.op = "RND_ACCEPT" -> "RND_ACCEPTED"
    [] o.op = "RND_REJECT" -> "RND_REJECTED"
    [] o.op = "PROCEED" -> IF ticket[o.row].wish.is_paid_sample THEN "WAITING_SAMPLE_PAYMENT" ELSE "IN_RND"
    [] o.op \in {"PAYMENT_RECEIVED", "SET_REVISION_FEE", "CLIENT_REVISE"} -> "IN_RND"
    [] o.op = "CANCEL" -> "CANCELLED"
    [] OTHER -> o.op

\* Where a step leads; `free`: the revision is within the quota.
Target(o, free) ==
  CASE o.op = "SUBMIT_TO_RND" -> "RND_REVIEW"
    [] o.op = "RND_ACCEPT" -> "RND_ACCEPTED"
    [] o.op = "RND_REJECT" -> "RND_REJECTED"
    [] o.op = "PROCEED" -> IF ticket[o.row].wish.is_paid_sample THEN "WAITING_SAMPLE_PAYMENT" ELSE "IN_RND"
    [] o.op = "PAYMENT_RECEIVED" -> "IN_RND"
    [] o.op = "SET_REVISION_FEE" -> IF o.arg THEN "WAITING_REVISION_PAYMENT" ELSE "IN_RND"
    [] o.op = "CLIENT_REVISE" -> IF free THEN "IN_RND" ELSE "PENDING_FEE_ASSESSMENT"
    [] o.op = "CANCEL" -> "CANCELLED"
    [] OTHER -> o.op

\* Mutant: a revision starts again in the same round.
RecordSampleStepSameRound(o) ==
  LET free == o.base[2] + 1 <= quota
      stepped == [ticket[o.row] EXCEPT
        !.status = Target(o, free),
        !.is_billable = CASE o.op = "CLIENT_REVISE" -> ~free
                          [] o.op = "SET_REVISION_FEE" /\ ~o.arg -> FALSE
                          [] OTHER -> @]
  IN /\ ticket' = IF o.base = Base(o) THEN [ticket EXCEPT ![o.row] = stepped] ELSE ticket
     /\ feedback' = IF o.op \in Decisions THEN Append(feedback, <<o.row, o.base[2] + 1, o.op>>)
                    ELSE feedback

\* The answer of the client is inserted also when the step itself came too late.
RecordSampleStep(o) ==
  LET free == o.base[2] + 1 <= quota
      stepped == [ticket[o.row] EXCEPT
        !.status = Target(o, free),
        !.revision_index = IF o.op = "CLIENT_REVISE" THEN @ + 1 ELSE @,
        !.is_billable = CASE o.op = "CLIENT_REVISE" -> ~free
                          [] o.op = "SET_REVISION_FEE" /\ ~o.arg -> FALSE
                          [] OTHER -> @]
  IN /\ ticket' = IF o.base = Base(o) THEN [ticket EXCEPT ![o.row] = stepped] ELSE ticket
     /\ feedback' = IF o.op \in Decisions THEN Append(feedback, <<o.row, o.base[2] + 1, o.op>>)
                    ELSE feedback

RecordSamplePrice(o) == price' = Append(price, <<o.row, o.base[2] + 1>>)

UploadMockup(o) == ticket' = [ticket EXCEPT ![o.row].mockup = TRUE]

CreateDesignTicket(o) == design' = Append(design, [ticket |-> o.row, status |-> "MOCKUP", count |-> 0])

RecordDesignStep(o) ==
  \E m \in {n \in DesignMoves : n[1] = o.op /\ n[2] = o.base[1]} :
    design' = IF o.base # Base(o) THEN design
              ELSE [design EXCEPT ![o.row].status = m[3],
                                  ![o.row].count = IF o.op = "DUMMY_REVISE" THEN @ + 1 ELSE @]

RecordMouStep(o) ==
  \E m \in {n \in MouMoves : n[1] = o.op /\ n[2] = o.base[1]} :
    mou' = IF o.base = Base(o) THEN [mou EXCEPT ![o.row].status = m[3]] ELSE mou

\* A client with a ticket that has not come to nothing has a first order.
LifecycleFromSamples == IF \E t \in DOMAIN ticket' : ticket'[t].status \notin Closed
                        THEN "FIRST_ORDER_ACTIVE" ELSE "LEAD"

Write(o) ==
  \/ /\ \/ o.op = "create" /\ CreateSampleRequest(o) /\ UNCHANGED feedback
        \/ o.op \in TicketSteps /\ RecordSampleStep(o)
     /\ lifecycle' = LifecycleFromSamples
     /\ UNCHANGED <<price, design, mou>>
  \/ /\ \/ o.op = "update" /\ UpdateSampleRequest(o) /\ UNCHANGED price
        \/ o.op = "mockup" /\ UploadMockup(o) /\ UNCHANGED price
        \/ o.op = "price" /\ RecordSamplePrice(o) /\ UNCHANGED ticket
     /\ UNCHANGED <<feedback, design, mou, lifecycle>>
  \/ /\ \/ o.op = "design" /\ CreateDesignTicket(o)
        \/ o.op \in DesignSteps /\ RecordDesignStep(o)
     /\ UNCHANGED <<ticket, price, feedback, mou, lifecycle>>
  \/ /\ \/ o.op = "mou" /\ mou' = Append(mou, [ticket |-> o.row, status |-> "DRAFT", terms |-> 0])
        \/ /\ o.op = "terms"
           /\ mou' = IF o.base = Base(o) THEN [mou EXCEPT ![o.row].terms = @ + 1] ELSE mou
        \/ o.op \in MouSteps /\ RecordMouStep(o)
     /\ UNCHANGED <<ticket, price, feedback, design, lifecycle>>

---------------------------------------------------------------------------
(* Web handlers and devices *)

Fill(d) ==
  /\ form[d] = None
  /\ \E o \in Drafts : /\ o.op \in Offline /\ Fits(o) /\ Guard(Filled(o))
                       /\ form' = [form EXCEPT ![d] = Filled(o)]
  /\ UNCHANGED <<rows, around, passed, raced>>

Handle ==
  /\ \E draft \in Drafts : LET o == Filled(draft) IN Fits(o) /\ Rule(o) /\ Write(o)
  /\ UNCHANGED <<around, form, passed, raced>>

Refuse(d) ==
  /\ form[d] # None /\ d \notin passed /\ ~Guard(form[d])
  /\ form' = [form EXCEPT ![d] = None]
  /\ UNCHANGED <<rows, around, passed, raced>>

Pass(d) ==
  /\ form[d] # None /\ d \notin passed /\ Guard(form[d])
  /\ passed' = passed \cup {d}
  /\ UNCHANGED <<rows, around, form, raced>>

Commit(d) ==
  /\ d \in passed /\ Fits(form[d])
  /\ Write(form[d])
  /\ raced' = (raced \/ ~Guard(form[d]))
  /\ passed' = passed \ {d} /\ form' = [form EXCEPT ![d] = None]
  /\ UNCHANGED around

---------------------------------------------------------------------------
(* Approval links *)

\* Mutant: the round of a link is not compared.
LinkTargetStatus(kind, row) ==
  CASE kind = "SAMPLE" -> <<ticket[row].status, 0>>
    [] kind = "DUMMY" -> <<design[row].status, 0>>
    [] kind = "MOU" -> <<mou[row].status, 0>>

\* Status and round of what a link is for; the round of an MoU is always 0.
LinkTarget(kind, row) ==
  CASE kind = "SAMPLE" -> <<ticket[row].status, ticket[row].revision_index>>
    [] kind = "DUMMY" -> <<design[row].status, design[row].count>>
    [] kind = "MOU" -> <<mou[row].status, 0>>

\* What the page of the link shows: the prices of the iteration, the round, the terms.
Shown(kind, row) ==
  CASE kind = "SAMPLE" -> Cardinality(Prices(row, ticket[row].revision_index + 1))
    [] kind = "DUMMY" -> design[row].count
    [] kind = "MOU" -> mou[row].terms

TableOf(kind) == CASE kind = "SAMPLE" -> DOMAIN ticket [] kind = "DUMMY" -> DOMAIN design
                   [] kind = "MOU" -> DOMAIN mou

\* What a link may be asked for: that which waits for the client's answer.
ClientApproval(kind, row) ==
  LinkTarget(kind, row)[1] = [SAMPLE |-> "SAMPLE_SENT", DUMMY |-> "DUMMY_SENT", MOU |-> "SENT"][kind]

\* Statement one: the link.
CreateApprovalLink(d) ==
  /\ minting[d] = 0 /\ Len(link) < MaxLinks
  /\ \E kind \in Kinds : \E row \in TableOf(kind) :
       LET target == LinkTarget(kind, row)
       IN /\ ClientApproval(kind, row)
          /\ link' = Append(link, [kind |-> kind, row |-> row, status |-> target[1],
                                   revision |-> target[2], made_for |-> Shown(kind, row),
                                   state |-> "LIVE"])
  /\ minting' = [minting EXCEPT ![d] = Len(link) + 1]
  /\ UNCHANGED <<rows, bill, quota, form, passed, raced>>

\* Statement two revokes the others for the same thing, unless the request dies first.
RevokeOthers(d) ==
  /\ minting[d] # 0
  /\ LET n == minting[d]
         old(l) == l # n /\ link[l].state = "LIVE" /\ link[l].kind = link[n].kind /\ link[l].row = link[n].row
     IN \/ link' = [l \in DOMAIN link |-> IF old(l) THEN [link[l] EXCEPT !.state = "REVOKED"] ELSE link[l]]
        \/ UNCHANGED link
  /\ minting' = [minting EXCEPT ![d] = 0]
  /\ UNCHANGED <<rows, bill, quota, form, passed, raced>>

\* The client's answer: the step by the rules of a browser's step, and the link used,
\* in one transaction.
RespondApproval(l) ==
  /\ link[l].state = "LIVE"
  /\ LinkTarget(link[l].kind, link[l].row) = <<link[l].status, link[l].revision>>
  /\ \E op \in ApprovalSteps[link[l].kind] :
       LET o == Filled(Form(op, link[l].row, FALSE)) IN Fits(o) /\ Rule(o) /\ Write(o)
  /\ link' = [link EXCEPT ![l].state = "USED"]
  /\ UNCHANGED <<bill, quota, minting, form, passed, raced>>

\* The page answers through whichever link its client holds.
ApprovePage == \E l \in DOMAIN link : RespondApproval(l)

LinkExpires(l) ==
  /\ link[l].state = "LIVE" /\ link' = [link EXCEPT ![l].state = "EXPIRED"]
  /\ UNCHANGED <<rows, bill, quota, minting, form, passed, raced>>

---------------------------------------------------------------------------
(* Around the ticket: invoices, and the quota in the client's record *)

\* Finance issues a fee of the current round (InvoiceTypeError in Finance), and it is paid.
\* An open invoice is told from none only where a gate does.
FeeMoves ==
  /\ \E t \in DOMAIN ticket :
       \/ \E type \in FeeTypes, round \in 0 .. MaxRevisions :
            /\ ~Billed(t, type, round, {"OPEN", "PAID"})
            /\ CASE type = "SAMPLE_FEE" -> round = 0 /\ ticket[t].wish.is_paid_sample
                 [] type = "TEST_FEE" -> round = 0 /\ ticket[t].wish.is_test_requested
                 [] type = "REVISION_FEE" -> /\ round = ticket[t].revision_index
                                             /\ ticket[t].status = "WAITING_REVISION_PAYMENT"
                 [] type = "DUMMY_FEE" -> \E d \in ActiveDesigns(t) : round = design[d].count
            /\ \E s \in IF type = "DUMMY_FEE" /\ round > 0 THEN {"OPEN", "PAID"} ELSE {"PAID"} :
                 bill' = bill \cup {<<t, type, round, s>>}
       \/ \E b \in bill : b[4] = "OPEN" /\ bill' = (bill \ {b}) \cup {[b EXCEPT ![4] = "PAID"]}
  /\ UNCHANGED <<rows, link, quota, minting, form, passed, raced>>

QuotaChanges ==
  /\ quota' \in Quotas
  /\ UNCHANGED <<rows, bill, link, minting, form, passed, raced>>

Init ==
  /\ ticket = <<>> /\ price = <<>> /\ feedback = <<>> /\ design = <<>> /\ mou = <<>>
  /\ bill = {} /\ link = <<>> /\ lifecycle = "LEAD" /\ quota \in Quotas
  /\ minting = [d \in Desk |-> 0] /\ form = [d \in Device |-> None]
  /\ passed = {} /\ raced = FALSE

Next ==
  \/ Handle
  \/ \E d \in Desk : CreateApprovalLink(d) \/ RevokeOthers(d)
  \/ \E d \in Device : Fill(d) \/ Refuse(d) \/ Pass(d) \/ Commit(d)
  \/ ApprovePage
  \/ \E l \in DOMAIN link : LinkExpires(l)
  \/ FeeMoves \/ QuotaChanges

Spec == Init /\ [][Next]_vars

---------------------------------------------------------------------------
(* Invariants *)

TypeOK ==
  /\ ticket \in Seq(TicketRow) /\ design \in Seq(DesignRow) /\ mou \in Seq(MouRow)
  /\ price \in Seq((DOMAIN ticket) \X (1 .. MaxRevisions + 1))
  /\ feedback \in Seq((DOMAIN ticket) \X (1 .. MaxRevisions + 1) \X Decisions)
  /\ bill \subseteq (DOMAIN ticket) \X FeeTypes \X (0 .. MaxRevisions) \X {"OPEN", "PAID"}
  /\ link \in Seq(LinkRow) /\ lifecycle \in {"LEAD", "FIRST_ORDER_ACTIVE"} /\ quota \in Quotas
  /\ minting \in [Desk -> 0 .. Len(link)]
  /\ passed \subseteq Device /\ raced \in BOOLEAN

\* Every iteration of a sample has at most one answer of the client, the answers of
\* a ticket are as many as its revisions and its end call for: although staff at two
\* desks and the client through a link may answer the same iteration.
OneAnswerPerIteration ==
  ~raced =>
    /\ \A i, j \in DOMAIN feedback :
         feedback[i][1] = feedback[j][1] /\ feedback[i][2] = feedback[j][2] => i = j
    /\ \A t \in DOMAIN ticket :
         Cardinality({i \in DOMAIN feedback : feedback[i][1] = t}) =
           ticket[t].revision_index + (IF ticket[t].status \in {"CLIENT_ACC", "CLIENT_REJECT"} THEN 1 ELSE 0)

\* RnD works on a paid sample, and on a revision beyond the quota, only once it is
\* paid: whatever the quota, the draft and other desks do between the steps, and also
\* when an event is written after its guard has ceased to hold.
PaidBeforeWork ==
  \A t \in DOMAIN ticket : ticket[t].status \in Working =>
    /\ ticket[t].wish.is_paid_sample => Paid(t, "SAMPLE_FEE", 0)
    /\ ticket[t].is_billable => Paid(t, "REVISION_FEE", ticket[t].revision_index)

---------------------------------------------------------------------------
(* Action properties *)

\* An answer through a link is recorded for what was there when the link was made.
LinkAnswersWhatWasSent ==
  [][\A l \in DOMAIN link : link[l].kind # "MOU" /\ link'[l].state = "USED" /\ link[l].state # "USED"
       => raced \/ link[l].made_for = Shown(link[l].kind, link[l].row)]_vars

\* In no run: the code does not keep this (README, Known divergences).
\* The same of an MoU: an answer recorded by hand makes the link invalid (the comment
\* on findValidToken).
MouLinkDiesWithItsAnswer ==
  [][\A l \in DOMAIN link : link[l].kind = "MOU" /\ link'[l].state = "USED" /\ link[l].state # "USED"
       => link[l].made_for = mou[link[l].row].terms]_vars
=============================================================================
