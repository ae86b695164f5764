------------------------ MODULE SampleRequestProofs ------------------------
(* Proofs about SampleRequest, for every number of desks, tickets and links. *)
EXTENDS SampleRequest, SequenceTheorems, FiniteSetTheorems, TLAPS

---------------------------------------------------------------------------
(* Rows *)

LEMMA Put ==
  ASSUME NEW S, NEW s \in Seq(S), NEW i \in DOMAIN s, NEW r \in S, NEW t, t = [s EXCEPT ![i] = r]
  PROVE  /\ t \in Seq(S) /\ DOMAIN t = DOMAIN s /\ Len(t) = Len(s)
         /\ t[i] = r /\ \A j \in DOMAIN s : j # i => t[j] = s[j]
<1>1. DOMAIN s = 1 .. Len(s)
  BY LenProperties
<1> QED BY <1>1, ExceptSeq

LEMMA Add ==
  ASSUME NEW S, NEW s \in Seq(S), NEW r \in S, NEW t, t = Append(s, r)
  PROVE  /\ t \in Seq(S) /\ Len(t) = Len(s) + 1
         /\ DOMAIN t = DOMAIN s \cup {Len(s) + 1} /\ Len(s) + 1 \notin DOMAIN s
         /\ t[Len(s) + 1] = r /\ \A j \in DOMAIN s : t[j] = s[j]
<1> DEFINE n == Len(s) + 1
<1>1. DOMAIN s = 1 .. Len(s) /\ Len(s) \in Nat
  BY LenProperties
<1>2. t \in Seq(S) /\ Len(t) = n /\ t[n] = r /\ \A j \in 1 .. Len(s) : t[j] = s[j]
  BY AppendProperties
<1>3. DOMAIN t = 1 .. n
  BY <1>2, LenProperties
<1>4. 1 .. n = 1 .. Len(s) \cup {n} /\ n \notin 1 .. Len(s)
  BY <1>1
<1> QED BY <1>1, <1>2, <1>3, <1>4

\* What the tables of steps say.
LEMMA TicketStepsAre ==
  TicketSteps = {"SUBMIT_TO_RND", "RND_ACCEPT", "RND_REJECT", "PROCEED", "PAYMENT_RECEIVED", "SAMPLE_READY",
                 "SAMPLE_SENT", "SET_REVISION_FEE", "CLIENT_ACC", "CLIENT_REJECT", "CLIENT_REVISE", "CANCEL"}
<1> DEFINE Named == {<<"SUBMIT_TO_RND", "DRAFT">>, <<"RND_ACCEPT", "RND_REVIEW">>, <<"RND_REJECT", "RND_REVIEW">>,
     <<"PROCEED", "RND_ACCEPTED">>, <<"PAYMENT_RECEIVED", "WAITING_SAMPLE_PAYMENT">>,
     <<"PAYMENT_RECEIVED", "WAITING_REVISION_PAYMENT">>, <<"SAMPLE_READY", "IN_RND">>,
     <<"SAMPLE_SENT", "SAMPLE_READY">>, <<"SET_REVISION_FEE", "PENDING_FEE_ASSESSMENT">>,
     <<"CLIENT_ACC", "SAMPLE_SENT">>, <<"CLIENT_REJECT", "SAMPLE_SENT">>, <<"CLIENT_REVISE", "SAMPLE_SENT">>}
<1>1. {m[1] : m \in Named} = {"SUBMIT_TO_RND", "RND_ACCEPT", "RND_REJECT", "PROCEED", "PAYMENT_RECEIVED",
         "SAMPLE_READY", "SAMPLE_SENT", "SET_REVISION_FEE", "CLIENT_ACC", "CLIENT_REJECT", "CLIENT_REVISE"}
  OBVIOUS
<1>2. {m[1] : m \in {<<"CANCEL", s>> : s \in Statuses \ Terminal}} = {"CANCEL"}
  <2>1. "DRAFT" \in Statuses \ Terminal
    BY DEF Statuses, Terminal, Closed
  <2> DEFINE C == {<<"CANCEL", s>> : s \in Statuses \ Terminal}
  <2>2. \A m \in C : m[1] = "CANCEL"
    OBVIOUS
  <2>3. C # {}
    BY <2>1
  <2> HIDE DEF C
  <2>4. {m[1] : m \in C} = {"CANCEL"}
    BY <2>2, <2>3
  <2> QED BY <2>4 DEF C
<1>3. TicketSteps = {m[1] : m \in Named} \cup {m[1] : m \in {<<"CANCEL", s>> : s \in Statuses \ Terminal}}
  BY DEF TicketSteps, TicketMoves
<1> QED BY <1>1, <1>2, <1>3

LEMMA MovesFrom ==
  ASSUME NEW op, NEW s, <<op, s>> \in TicketMoves
  PROVE  /\ op = "SUBMIT_TO_RND" => s = "DRAFT"
         /\ op \in {"RND_ACCEPT", "RND_REJECT"} => s = "RND_REVIEW"
         /\ op = "PROCEED" => s = "RND_ACCEPTED"
         /\ op = "PAYMENT_RECEIVED" => s \in {"WAITING_SAMPLE_PAYMENT", "WAITING_REVISION_PAYMENT"}
         /\ op = "SAMPLE_READY" => s = "IN_RND"
         /\ op = "SAMPLE_SENT" => s = "SAMPLE_READY"
         /\ op = "SET_REVISION_FEE" => s = "PENDING_FEE_ASSESSMENT"
         /\ op \in Decisions => s = "SAMPLE_SENT"
         /\ op = "CANCEL" => s \in Statuses \ Terminal
BY DEF TicketMoves, Decisions

LEMMA DesignStepsAre ==
  /\ DesignSteps = {"PRINT_DUMMY", "DUMMY_SENT", "DUMMY_ACC", "DUMMY_REVISE", "CANCEL_DESIGN"}
  /\ \A m \in DesignMoves : m[3] \in {"DUMMY_PRINTING", "DUMMY_SENT", "DUMMY_ACC", "DUMMY_REVISION", "CANCELLED"}
<1>1. DesignMoves =
        {<<"PRINT_DUMMY", "MOCKUP", "DUMMY_PRINTING">>, <<"PRINT_DUMMY", "DUMMY_REVISION", "DUMMY_PRINTING">>,
         <<"DUMMY_SENT", "DUMMY_PRINTING", "DUMMY_SENT">>, <<"DUMMY_ACC", "DUMMY_SENT", "DUMMY_ACC">>,
         <<"DUMMY_REVISE", "DUMMY_SENT", "DUMMY_REVISION">>, <<"CANCEL_DESIGN", "MOCKUP", "CANCELLED">>,
         <<"CANCEL_DESIGN", "DUMMY_PRINTING", "CANCELLED">>, <<"CANCEL_DESIGN", "DUMMY_SENT", "CANCELLED">>,
         <<"CANCEL_DESIGN", "DUMMY_REVISION", "CANCELLED">>}
  BY DEF DesignMoves
<1> QED BY <1>1 DEF DesignSteps

LEMMA MouStepsAre ==
  /\ MouSteps = {"SEND_MOU", "MOU_ACCEPT", "MOU_REVISE", "MOU_REJECT", "CANCEL_MOU"}
  /\ \A m \in MouMoves : m[3] \in {"DRAFT", "SENT", "ACCEPTED", "REJECTED", "CANCELLED"}
BY DEF MouSteps, MouMoves

LEMMA OpsApart ==
  /\ TicketSteps \cap (DesignSteps \cup MouSteps) = {} /\ DesignSteps \cap MouSteps = {}
  /\ {"create", "update", "price", "mockup", "design", "mou", "terms"} \cap
       (TicketSteps \cup DesignSteps \cup MouSteps) = {}
BY TicketStepsAre, DesignStepsAre, MouStepsAre

LEMMA BaseIs ==
  ASSUME NEW o
  PROVE  /\ o.op \in TicketSteps \cup {"price"} =>
              Base(o) = <<ticket[o.row].status, ticket[o.row].revision_index>>
         /\ o.op \in DesignSteps => Base(o) = <<design[o.row].status, design[o.row].count>>
         /\ o.op \in MouSteps => Base(o) = <<mou[o.row].status>>
<1>1. ASSUME o.op \in TicketSteps \cup {"price"}
      PROVE  Base(o) = <<ticket[o.row].status, ticket[o.row].revision_index>>
  BY <1>1, OpsApart DEF Base
<1>2. ASSUME o.op \in DesignSteps PROVE Base(o) = <<design[o.row].status, design[o.row].count>>
  BY <1>2, OpsApart DEF Base
<1>3. ASSUME o.op \in MouSteps PROVE Base(o) = <<mou[o.row].status>>
  BY <1>3, OpsApart DEF Base
<1> QED BY <1>1, <1>2, <1>3

LEMMA RuleIs ==
  ASSUME NEW o, Rule(o)
  PROVE  /\ o.op \in TicketSteps => TicketStepAccepted(o)
         /\ o.op = "price" => ticket[o.row].status = "SAMPLE_READY"
<1>1. ASSUME o.op \in TicketSteps PROVE TicketStepAccepted(o)
  BY <1>1, OpsApart DEF Rule
<1>2. ASSUME o.op = "price" PROVE ticket[o.row].status = "SAMPLE_READY"
  BY <1>2, OpsApart DEF Rule
<1> QED BY <1>1, <1>2

---------------------------------------------------------------------------
(* Types *)

Rows ==
  /\ ticket \in Seq(TicketRow) /\ design \in Seq(DesignRow) /\ mou \in Seq(MouRow)
  /\ price \in Seq((DOMAIN ticket) \X (1 .. MaxRevisions + 1))
  /\ feedback \in Seq((DOMAIN ticket) \X (1 .. MaxRevisions + 1) \X Decisions)
  /\ lifecycle \in {"LEAD", "FIRST_ORDER_ACTIVE"}
  /\ \A t \in DOMAIN ticket : ticket[t].revision_index <= MaxRevisions

Around ==
  /\ bill \subseteq (DOMAIN ticket) \X FeeTypes \X (0 .. MaxRevisions) \X {"OPEN", "PAID"}
  /\ quota \in Quotas /\ link \in Seq(LinkRow) /\ minting \in [Desk -> 0 .. Len(link)]
  /\ \A l \in DOMAIN link : link[l].row \in TableOf(link[l].kind)

TicketOps == TicketSteps \cup {"update", "price", "mockup", "design", "mou"}

\* A form was filled in for a row that exists, a step from a state it may start from.
FormOK(o, tt, gg, uu) ==
  /\ o = [op |-> o.op, row |-> o.row, arg |-> o.arg, base |-> o.base]
  /\ \/ o.op = "create" /\ o.arg \in Wishes
     \/ o.op \in TicketOps /\ o.row \in DOMAIN tt
     \/ o.op \in DesignSteps /\ o.row \in DOMAIN gg
     \/ o.op \in MouSteps \cup {"terms"} /\ o.row \in DOMAIN uu
  /\ o.op = "update" => o.arg \in Wishes
  /\ o.op \in TicketSteps => o.arg \in BOOLEAN /\ <<o.op, o.base[1]>> \in TicketMoves
  /\ o.op \in TicketSteps \cup {"price"} => o.base[2] \in 0 .. MaxRevisions

\* A payment was recorded when it was there.
FeesOK(o, b) ==
  o.op = "PAYMENT_RECEIVED" =>
    /\ o.base[1] = "WAITING_SAMPLE_PAYMENT" => <<o.row, "SAMPLE_FEE", 0, "PAID">> \in b
    /\ o.base[1] = "WAITING_REVISION_PAYMENT" => <<o.row, "REVISION_FEE", o.base[2], "PAID">> \in b

FormsOK == /\ form = [d \in Device |-> form[d]]
           /\ \A d \in Device : form[d] # None =>
                FormOK(form[d], ticket, design, mou) /\ FeesOK(form[d], bill)

DevicesOK == /\ passed \subseteq Device /\ raced \in BOOLEAN
             /\ \A d \in passed : form[d] # None

TypeInv == Rows /\ Around /\ FormsOK /\ DevicesOK

LEMMA TypeIs == TypeInv => TypeOK
BY DEF TypeInv, Rows, Around, DevicesOK, TypeOK

LEMMA RowTypes ==
  ASSUME Rows
  PROVE  /\ \A t \in DOMAIN ticket : ticket[t] \in TicketRow
         /\ \A d \in DOMAIN design : design[d] \in DesignRow
         /\ \A m \in DOMAIN mou : mou[m] \in MouRow
         /\ \A i \in DOMAIN feedback : feedback[i] \in (DOMAIN ticket) \X (1 .. MaxRevisions + 1) \X Decisions
<1>1. \A t \in DOMAIN ticket : ticket[t] \in TicketRow
  BY LenProperties, ElementOfSeq DEF Rows
<1>2. \A d \in DOMAIN design : design[d] \in DesignRow
  BY LenProperties, ElementOfSeq DEF Rows
<1>3. \A m \in DOMAIN mou : mou[m] \in MouRow
  BY LenProperties, ElementOfSeq DEF Rows
<1>4. \A i \in DOMAIN feedback : feedback[i] \in (DOMAIN ticket) \X (1 .. MaxRevisions + 1) \X Decisions
  BY LenProperties, ElementOfSeq DEF Rows
<1> QED BY <1>1, <1>2, <1>3, <1>4

LEMMA RowNumbers ==
  ASSUME Rows
  PROVE  DOMAIN ticket \subseteq Nat /\ DOMAIN design \subseteq Nat /\ DOMAIN mou \subseteq Nat
BY LenProperties DEF Rows

LEMMA Constants ==
  /\ Wishes \subseteq Wish /\ MaxRevisions \in Nat /\ Kinds \subseteq {"SAMPLE", "DUMMY", "MOU"}
BY SampleAssumption, Zenon

\* The rows of tickets are fewer than they will be: what refers to them stays of its type.
LEMMA RowsGrow ==
  ASSUME NEW S, NEW T, S \subseteq T
  PROVE  /\ \A s \in Seq(S \X (1 .. MaxRevisions + 1)) : s \in Seq(T \X (1 .. MaxRevisions + 1))
         /\ \A s \in Seq(S \X (1 .. MaxRevisions + 1) \X Decisions) :
              s \in Seq(T \X (1 .. MaxRevisions + 1) \X Decisions)
         /\ S \X FeeTypes \X (0 .. MaxRevisions) \X {"OPEN", "PAID"} \subseteq
              T \X FeeTypes \X (0 .. MaxRevisions) \X {"OPEN", "PAID"}
<1>1. S \X (1 .. MaxRevisions + 1) \subseteq T \X (1 .. MaxRevisions + 1)
  OBVIOUS
<1>2. S \X (1 .. MaxRevisions + 1) \X Decisions \subseteq T \X (1 .. MaxRevisions + 1) \X Decisions
  OBVIOUS
<1>3. S \X FeeTypes \X (0 .. MaxRevisions) \X {"OPEN", "PAID"} \subseteq
              T \X FeeTypes \X (0 .. MaxRevisions) \X {"OPEN", "PAID"}
  OBVIOUS
<1> QED BY <1>1, <1>2, <1>3, SeqMonotonic

LEMMA FormGrows ==
  ASSUME NEW o, NEW t, NEW g, NEW u, NEW tt, NEW gg, NEW uu, FormOK(o, t, g, u),
         DOMAIN t \subseteq DOMAIN tt, DOMAIN g \subseteq DOMAIN gg, DOMAIN u \subseteq DOMAIN uu
  PROVE  FormOK(o, tt, gg, uu)
BY DEF FormOK

---------------------------------------------------------------------------
(* What is written to a ticket *)

\* The steps of a ticket, each with where it starts and where it leads.
StepTo(o, old, new) ==
  \/ o.op = "SUBMIT_TO_RND" /\ old.status = "DRAFT" /\ new.status = "RND_REVIEW" /\ new.is_billable = old.is_billable
  \/ o.op = "RND_ACCEPT" /\ old.status = "RND_REVIEW" /\ new.status = "RND_ACCEPTED" /\ new.is_billable = old.is_billable
  \/ o.op = "RND_REJECT" /\ old.status = "RND_REVIEW" /\ new.status = "RND_REJECTED" /\ new.is_billable = old.is_billable
  \/ /\ o.op = "PROCEED" /\ old.status = "RND_ACCEPTED" /\ new.is_billable = old.is_billable
     /\ new.status = IF old.wish.is_paid_sample THEN "WAITING_SAMPLE_PAYMENT" ELSE "IN_RND"
  \/ /\ o.op = "PAYMENT_RECEIVED" /\ old.status \in {"WAITING_SAMPLE_PAYMENT", "WAITING_REVISION_PAYMENT"}
     /\ new.status = "IN_RND" /\ new.is_billable = old.is_billable
  \/ o.op = "SAMPLE_READY" /\ old.status = "IN_RND" /\ new.status = "SAMPLE_READY" /\ new.is_billable = old.is_billable
  \/ o.op = "SAMPLE_SENT" /\ old.status = "SAMPLE_READY" /\ new.status = "SAMPLE_SENT" /\ new.is_billable = old.is_billable
  \/ /\ o.op = "SET_REVISION_FEE" /\ old.status = "PENDING_FEE_ASSESSMENT"
     /\ \/ new.status = "WAITING_REVISION_PAYMENT" /\ new.is_billable = old.is_billable
        \/ new.status = "IN_RND" /\ new.is_billable = FALSE
  \/ /\ o.op \in {"CLIENT_ACC", "CLIENT_REJECT"} /\ old.status = "SAMPLE_SENT" /\ new.status = o.op
     /\ new.is_billable = old.is_billable
  \/ /\ o.op = "CLIENT_REVISE" /\ old.status = "SAMPLE_SENT"
     /\ \/ new.status = "IN_RND" /\ new.is_billable = FALSE
        \/ new.status = "PENDING_FEE_ASSESSMENT" /\ new.is_billable = TRUE
  \/ /\ o.op = "CANCEL" /\ old.status \notin Terminal /\ new.status = "CANCELLED"
     /\ new.is_billable = old.is_billable

\* What a form o may do to ticket t, which becomes `new`.
TicketBy(o, t, new) ==
  \/ /\ new.status = ticket[t].status /\ new.is_billable = ticket[t].is_billable
     /\ new.revision_index = ticket[t].revision_index
     /\ new.wish = ticket[t].wish \/ ticket[t].status = "DRAFT"
  \/ /\ o.op \in TicketSteps /\ t = o.row /\ o.base = <<ticket[t].status, ticket[t].revision_index>>
     /\ StepTo(o, ticket[t], new) /\ new.wish = ticket[t].wish
     /\ new.revision_index = IF o.op = "CLIENT_REVISE" THEN ticket[t].revision_index + 1
                             ELSE ticket[t].revision_index

TicketRows(o) ==
  /\ \A t \in DOMAIN ticket : TicketBy(o, t, ticket'[t])
  /\ o.op # "create" => DOMAIN ticket' = DOMAIN ticket
  /\ o.op = "create" =>
       /\ DOMAIN ticket' = DOMAIN ticket \cup {Len(ticket) + 1} /\ Len(ticket) + 1 \notin DOMAIN ticket
       /\ ticket'[Len(ticket) + 1].status = "DRAFT" /\ ticket'[Len(ticket) + 1].is_billable = FALSE
       /\ ticket'[Len(ticket) + 1].revision_index = 0

FeedbackRows(o) ==
  /\ o.op \notin Decisions => feedback' = feedback
  /\ o.op \in Decisions => feedback' = Append(feedback, <<o.row, o.base[2] + 1, o.op>>)

\* The row a step makes of another.
Stepped(o, old, free) ==
  [old EXCEPT
     !.status = Target(o, free),
     !.revision_index = IF o.op = "CLIENT_REVISE" THEN @ + 1 ELSE @,
     !.is_billable = CASE o.op = "CLIENT_REVISE" -> ~free
                       [] o.op = "SET_REVISION_FEE" /\ ~o.arg -> FALSE
                       [] OTHER -> @]

LEMMA PutRow ==
  ASSUME NEW old, NEW w, NEW s0, NEW i0, NEW b0, NEW m, NEW s, NEW i, NEW b, NEW new,
         old = [wish |-> w, status |-> s0, revision_index |-> i0, is_billable |-> b0, mockup |-> m],
         new = [old EXCEPT !.status = s, !.revision_index = i, !.is_billable = b]
  PROVE  new = [wish |-> w, status |-> s, revision_index |-> i, is_billable |-> b, mockup |-> m]
OBVIOUS

LEMMA SteppedTo ==
  ASSUME NEW o, o.op \in TicketSteps, o.arg \in BOOLEAN, NEW free \in BOOLEAN, NEW old \in TicketRow,
         old = ticket[o.row], <<o.op, old.status>> \in TicketMoves
  PROVE  LET new == Stepped(o, old, free)
         IN /\ StepTo(o, old, new) /\ new.wish = old.wish /\ new.mockup = old.mockup
            /\ new.revision_index = IF o.op = "CLIENT_REVISE" THEN old.revision_index + 1
                                    ELSE old.revision_index
            /\ new.status \in Statuses /\ new.is_billable \in BOOLEAN
            /\ new = [wish |-> new.wish, status |-> new.status, revision_index |-> new.revision_index,
                      is_billable |-> new.is_billable, mockup |-> new.mockup]
<1> DEFINE new == Stepped(o, old, free)
           billable == CASE o.op = "CLIENT_REVISE" -> ~free
                         [] o.op = "SET_REVISION_FEE" /\ ~o.arg -> FALSE
                         [] OTHER -> old.is_billable
           revision == IF o.op = "CLIENT_REVISE" THEN old.revision_index + 1 ELSE old.revision_index
           to == Target(o, free)
<1>0. new = [old EXCEPT !.status = to, !.revision_index = revision, !.is_billable = billable]
  BY DEF Stepped
<1> HIDE DEF new, billable, revision, to
<1>1. /\ new.wish = old.wish /\ new.mockup = old.mockup /\ new.status = Target(o, free)
      /\ new.revision_index = IF o.op = "CLIENT_REVISE" THEN old.revision_index + 1 ELSE old.revision_index
      /\ new.is_billable = billable
      /\ new = [wish |-> new.wish, status |-> new.status, revision_index |-> new.revision_index,
                is_billable |-> new.is_billable, mockup |-> new.mockup]
  <2>1. /\ new.wish = old.wish /\ new.mockup = old.mockup /\ new.status = to
        /\ new.revision_index = revision /\ new.is_billable = billable
        /\ new = [wish |-> new.wish, status |-> new.status, revision_index |-> new.revision_index,
                  is_billable |-> new.is_billable, mockup |-> new.mockup]
    <3>1. old = [wish |-> old.wish, status |-> old.status, revision_index |-> old.revision_index,
                 is_billable |-> old.is_billable, mockup |-> old.mockup]
      BY DEF TicketRow
    <3>2. new = [wish |-> old.wish, status |-> to, revision_index |-> revision, is_billable |-> billable,
                 mockup |-> old.mockup]
      BY <1>0, <3>1, PutRow
    <3>3. /\ new.wish = old.wish /\ new.mockup = old.mockup /\ new.status = to
          /\ new.revision_index = revision /\ new.is_billable = billable
      BY <3>2
    <3> QED BY <3>2, <3>3
  <2> QED BY <2>1 DEF revision, to
<1>2. /\ old.is_billable \in BOOLEAN /\ old.status \in Statuses
  BY DEF TicketRow
<1>3. billable \in BOOLEAN
  BY <1>2 DEF billable
<1>4. CASE o.op \in {"SUBMIT_TO_RND", "RND_ACCEPT", "RND_REJECT", "PROCEED", "PAYMENT_RECEIVED", "SAMPLE_READY",
                     "SAMPLE_SENT", "CLIENT_ACC", "CLIENT_REJECT", "CANCEL"}
  <2>1. billable = old.is_billable
    BY <1>4 DEF billable
  <2>2. StepTo(o, old, new)
    <3>1. CASE o.op \in {"SUBMIT_TO_RND", "RND_ACCEPT", "RND_REJECT"}
      BY <1>1, <2>1, <3>1, MovesFrom DEF StepTo, Target
    <3>2. CASE o.op = "PROCEED"
      BY <1>1, <2>1, <3>2, MovesFrom DEF StepTo, Target
    <3>3. CASE o.op = "PAYMENT_RECEIVED"
      BY <1>1, <2>1, <3>3, MovesFrom DEF StepTo, Target
    <3>4. CASE o.op \in {"SAMPLE_READY", "SAMPLE_SENT"}
      BY <1>1, <2>1, <3>4, MovesFrom DEF StepTo, Target
    <3>5. CASE o.op \in {"CLIENT_ACC", "CLIENT_REJECT"}
      BY <1>1, <2>1, <3>5, MovesFrom DEF StepTo, Target, Decisions
    <3>6. CASE o.op = "CANCEL"
      BY <1>1, <2>1, <3>6, MovesFrom DEF StepTo, Target
    <3> QED BY <1>4, <3>1, <3>2, <3>3, <3>4, <3>5, <3>6
  <2>3. new.status \in Statuses
    BY <1>1, <1>4 DEF Target, Statuses, Working, Terminal, Closed
  <2> QED BY <1>1, <1>3, <2>2, <2>3 DEF new
<1>5. CASE o.op = "SET_REVISION_FEE"
  <2>1. StepTo(o, old, new)
    BY <1>1, <1>5, MovesFrom DEF StepTo, Target, billable
  <2>2. new.status \in Statuses
    BY <1>1, <1>5 DEF Target, Statuses, Working
  <2> QED BY <1>1, <1>3, <2>1, <2>2 DEF new
<1>6. CASE o.op = "CLIENT_REVISE"
  <2>1. StepTo(o, old, new)
    BY <1>1, <1>6, MovesFrom DEF StepTo, Target, billable, Decisions
  <2>2. new.status \in Statuses
    BY <1>1, <1>6 DEF Target, Statuses, Working
  <2> QED BY <1>1, <1>3, <2>1, <2>2 DEF new
<1> QED BY <1>4, <1>5, <1>6, TicketStepsAre

LEMMA TicketStill ==
  ASSUME Rows, NEW o, o.op # "create", ticket' = ticket
  PROVE  /\ ticket' \in Seq(TicketRow) /\ TicketRows(o)
         /\ \A t \in DOMAIN ticket' : ticket'[t].revision_index <= MaxRevisions
BY DEF Rows, TicketRows, TicketBy

LEMMA TicketPut ==
  ASSUME Rows, NEW o, o.op # "create", o.row \in DOMAIN ticket, NEW r \in TicketRow,
         ticket' = [ticket EXCEPT ![o.row] = r], TicketBy(o, o.row, r), r.revision_index <= MaxRevisions
  PROVE  /\ ticket' \in Seq(TicketRow) /\ TicketRows(o)
         /\ \A t \in DOMAIN ticket' : ticket'[t].revision_index <= MaxRevisions
<1>1. /\ ticket' \in Seq(TicketRow) /\ DOMAIN ticket' = DOMAIN ticket
      /\ ticket'[o.row] = r /\ \A t \in DOMAIN ticket : t # o.row => ticket'[t] = ticket[t]
  BY Put DEF Rows
<1>2. ASSUME NEW t \in DOMAIN ticket PROVE TicketBy(o, t, ticket'[t])
  <2>1. CASE t = o.row
    BY <1>1, <2>1
  <2>2. CASE t # o.row
    BY <1>1, <2>2 DEF TicketBy
  <2> QED BY <2>1, <2>2
<1>3. \A t \in DOMAIN ticket' : ticket'[t].revision_index <= MaxRevisions
  BY <1>1 DEF Rows
<1> QED BY <1>1, <1>2, <1>3 DEF TicketRows

LEMMA TicketAdded ==
  ASSUME Rows, NEW o, o.op = "create", NEW r \in TicketRow, ticket' = Append(ticket, r),
         r.status = "DRAFT", r.is_billable = FALSE, r.revision_index = 0
  PROVE  /\ ticket' \in Seq(TicketRow) /\ TicketRows(o)
         /\ \A t \in DOMAIN ticket' : ticket'[t].revision_index <= MaxRevisions
<1>1. /\ ticket' \in Seq(TicketRow)
      /\ DOMAIN ticket' = DOMAIN ticket \cup {Len(ticket) + 1} /\ Len(ticket) + 1 \notin DOMAIN ticket
      /\ ticket'[Len(ticket) + 1] = r /\ \A t \in DOMAIN ticket : ticket'[t] = ticket[t]
  BY Add DEF Rows
<1>2. \A t \in DOMAIN ticket : TicketBy(o, t, ticket'[t])
  BY <1>1 DEF TicketBy
<1>3. \A t \in DOMAIN ticket' : ticket'[t].revision_index <= MaxRevisions
  BY <1>1, Constants DEF Rows
<1> QED BY <1>1, <1>2, <1>3 DEF TicketRows

LEMMA TicketWrites ==
  ASSUME TypeInv, NEW o, FormOK(o, ticket, design, mou), Fits(o),
         \/ o.op = "create" /\ CreateSampleRequest(o)
         \/ o.op \in TicketSteps /\ RecordSampleStep(o)
         \/ o.op = "update" /\ UpdateSampleRequest(o)
         \/ o.op = "mockup" /\ UploadMockup(o)
  PROVE  /\ ticket' \in Seq(TicketRow) /\ TicketRows(o)
         /\ \A t \in DOMAIN ticket' : ticket'[t].revision_index <= MaxRevisions
<1>0. /\ Rows /\ \A t \in DOMAIN ticket : /\ ticket[t] \in TicketRow
                                          /\ ticket[t].revision_index \in 0 .. MaxRevisions
  <2>1. Rows /\ \A t \in DOMAIN ticket : ticket[t] \in TicketRow
    BY RowTypes DEF TypeInv
  <2>2. \A t \in DOMAIN ticket : ticket[t].revision_index \in Nat /\ ticket[t].revision_index <= MaxRevisions
    BY <2>1 DEF TicketRow, Rows
  <2> QED BY <2>1, <2>2, Constants
<1>1. CASE o.op = "create" /\ CreateSampleRequest(o)
  <2> DEFINE r == [wish |-> o.arg, status |-> "DRAFT", revision_index |-> 0, is_billable |-> FALSE,
                   mockup |-> FALSE]
  <2>1. o.arg \in Wish
    BY <1>1, OpsApart, Constants DEF FormOK, TicketOps
  <2>2. r \in TicketRow /\ r.status = "DRAFT" /\ r.is_billable = FALSE /\ r.revision_index = 0
    BY <2>1 DEF TicketRow, Statuses
  <2>3. ticket' = Append(ticket, r)
    BY <1>1 DEF CreateSampleRequest
  <2> HIDE DEF r
  <2> QED BY <1>0, <1>1, <2>2, <2>3, TicketAdded
<1>2. CASE o.op = "update" /\ UpdateSampleRequest(o)
  <2> DEFINE r == [ticket[o.row] EXCEPT !.wish = o.arg]
  <2>1. o.row \in DOMAIN ticket /\ o.arg \in Wish
    BY <1>2, OpsApart, Constants DEF FormOK, TicketOps
  <2>2. /\ r \in TicketRow /\ r.status = ticket[o.row].status /\ r.is_billable = ticket[o.row].is_billable
        /\ r.revision_index = ticket[o.row].revision_index
    BY <1>0, <2>1 DEF TicketRow
  <2>3. ticket' = ticket \/ (ticket[o.row].status = "DRAFT" /\ ticket' = [ticket EXCEPT ![o.row] = r])
    BY <1>2 DEF UpdateSampleRequest
  <2> HIDE DEF r
  <2>4. CASE ticket' = ticket
    BY <1>0, <1>2, <2>4, TicketStill
  <2>5. CASE ticket[o.row].status = "DRAFT" /\ ticket' = [ticket EXCEPT ![o.row] = r]
    <3>1. TicketBy(o, o.row, r) /\ r.revision_index <= MaxRevisions
      BY <1>0, <2>1, <2>2, <2>5 DEF TicketBy
    <3> QED BY <1>0, <1>2, <2>1, <2>2, <2>5, <3>1, TicketPut
  <2> QED BY <2>3, <2>4, <2>5
<1>3. CASE o.op = "mockup" /\ UploadMockup(o)
  <2> DEFINE r == [ticket[o.row] EXCEPT !.mockup = TRUE]
  <2>1. o.row \in DOMAIN ticket
    BY <1>3, OpsApart DEF FormOK, TicketOps
  <2>2. /\ r \in TicketRow /\ r.status = ticket[o.row].status /\ r.is_billable = ticket[o.row].is_billable
        /\ r.revision_index = ticket[o.row].revision_index /\ r.wish = ticket[o.row].wish
    BY <1>0, <2>1 DEF TicketRow
  <2>3. ticket' = [ticket EXCEPT ![o.row] = r]
    BY <1>3 DEF UploadMockup
  <2> HIDE DEF r
  <2>4. TicketBy(o, o.row, r) /\ r.revision_index <= MaxRevisions
    BY <1>0, <2>1, <2>2 DEF TicketBy
  <2> QED BY <1>0, <1>3, <2>1, <2>2, <2>3, <2>4, TicketPut
<1>4. CASE o.op \in TicketSteps /\ RecordSampleStep(o)
  <2> DEFINE old == ticket[o.row]
             free == o.base[2] + 1 <= quota
             r == Stepped(o, old, free)
  <2>1. o.row \in DOMAIN ticket /\ o.arg \in BOOLEAN /\ <<o.op, o.base[1]>> \in TicketMoves /\ o.op # "create"
    BY <1>4, OpsApart DEF FormOK, TicketOps
  <2>2. ticket' = ticket \/ (o.base = Base(o) /\ ticket' = [ticket EXCEPT ![o.row] = r])
    BY <1>4 DEF RecordSampleStep, Stepped
  <2>3. CASE ticket' = ticket
    BY <1>0, <1>4, <2>1, <2>3, TicketStill
  <2>4. CASE o.base = Base(o) /\ ticket' = [ticket EXCEPT ![o.row] = r]
    <3>1. o.base = <<old.status, old.revision_index>> /\ <<o.op, old.status>> \in TicketMoves
      BY <1>4, <2>1, <2>4, BaseIs
    <3>2. old \in TicketRow /\ free \in BOOLEAN
      BY <1>0, <2>1
    <3>3. /\ StepTo(o, old, r) /\ r.wish = old.wish /\ r.mockup = old.mockup
          /\ r.revision_index = IF o.op = "CLIENT_REVISE" THEN old.revision_index + 1 ELSE old.revision_index
          /\ r.status \in Statuses /\ r.is_billable \in BOOLEAN
          /\ r = [wish |-> r.wish, status |-> r.status, revision_index |-> r.revision_index,
                  is_billable |-> r.is_billable, mockup |-> r.mockup]
      <4> HIDE DEF free
      <4> QED BY <1>4, <2>1, <3>1, <3>2, SteppedTo
    <3> HIDE DEF r
    <3>4. old.wish \in Wish /\ old.mockup \in BOOLEAN /\ old.revision_index \in Nat
      BY <3>2 DEF TicketRow, Wish
    <3>5. r.revision_index \in Nat /\ r.revision_index <= MaxRevisions
      BY <1>0, <2>1, <3>3, <3>4, Constants DEF Fits
    <3>6. r \in TicketRow
      BY <3>3, <3>4, <3>5 DEF TicketRow, Wish
    <3>7. TicketBy(o, o.row, r)
      BY <1>4, <3>1, <3>3 DEF TicketBy
    <3>8. ticket' = [ticket EXCEPT ![o.row] = r]
      BY <2>4
    <3> QED BY <1>0, <2>1, <3>5, <3>6, <3>7, <3>8, TicketPut
  <2> QED BY <2>2, <2>3, <2>4
<1> QED BY <1>1, <1>2, <1>3, <1>4

---------------------------------------------------------------------------
(* What else is written *)

LEMMA DesignWrites ==
  ASSUME TypeInv, NEW o, FormOK(o, ticket, design, mou),
         \/ o.op = "design" /\ CreateDesignTicket(o)
         \/ o.op \in DesignSteps /\ RecordDesignStep(o)
  PROVE  design' \in Seq(DesignRow) /\ DOMAIN design \subseteq DOMAIN design'
<1>0. Rows /\ design \in Seq(DesignRow) /\ \A d \in DOMAIN design : design[d] \in DesignRow
  BY RowTypes DEF TypeInv, Rows
<1>1. CASE o.op = "design" /\ CreateDesignTicket(o)
  <2> DEFINE r == [ticket |-> o.row, status |-> "MOCKUP", count |-> 0]
  <2>1. o.row \in Nat
    BY <1>0, <1>1, OpsApart, RowNumbers DEF FormOK, TicketOps
  <2>2. r \in DesignRow
    BY <2>1 DEF DesignRow
  <2>3. design' = Append(design, r)
    BY <1>1 DEF CreateDesignTicket
  <2> HIDE DEF r
  <2> QED BY <1>0, <2>2, <2>3, Add
<1>2. CASE o.op \in DesignSteps /\ RecordDesignStep(o)
  <2>1. o.row \in DOMAIN design
    BY <1>2, OpsApart DEF FormOK, TicketOps
  <2>2. PICK m \in DesignMoves :
          design' = IF o.base # Base(o) THEN design
                    ELSE [design EXCEPT ![o.row].status = m[3],
                                        ![o.row].count = IF o.op = "DUMMY_REVISE" THEN @ + 1 ELSE @]
    BY <1>2, Zenon DEF RecordDesignStep
  <2> DEFINE n == IF o.op = "DUMMY_REVISE" THEN design[o.row].count + 1 ELSE design[o.row].count
             r == [design[o.row] EXCEPT !.status = m[3], !.count = n]
  <2>3. n \in Nat
    BY <1>0, <2>1 DEF DesignRow
  <2>4. design' = design \/ design' = [design EXCEPT ![o.row] = r]
    BY <2>2
  <2> HIDE DEF n
  <2>5. r \in DesignRow
    BY <1>0, <2>1, <2>3, DesignStepsAre DEF DesignRow
  <2> HIDE DEF r
  <2> QED BY <1>0, <2>1, <2>4, <2>5, Put
<1> QED BY <1>1, <1>2

LEMMA MouWrites ==
  ASSUME TypeInv, NEW o, FormOK(o, ticket, design, mou),
         \/ o.op = "mou" /\ mou' = Append(mou, [ticket |-> o.row, status |-> "DRAFT", terms |-> 0])
         \/ /\ o.op = "terms"
            /\ mou' = IF o.base = Base(o) THEN [mou EXCEPT ![o.row].terms = @ + 1] ELSE mou
         \/ o.op \in MouSteps /\ RecordMouStep(o)
  PROVE  mou' \in Seq(MouRow) /\ DOMAIN mou \subseteq DOMAIN mou'
<1>0. Rows /\ mou \in Seq(MouRow) /\ \A m \in DOMAIN mou : mou[m] \in MouRow
  BY RowTypes DEF TypeInv, Rows
<1>1. CASE o.op = "mou" /\ mou' = Append(mou, [ticket |-> o.row, status |-> "DRAFT", terms |-> 0])
  <2> DEFINE r == [ticket |-> o.row, status |-> "DRAFT", terms |-> 0]
  <2>1. o.row \in Nat
    BY <1>0, <1>1, OpsApart, RowNumbers DEF FormOK, TicketOps
  <2>2. r \in MouRow
    BY <2>1 DEF MouRow
  <2>3. mou' = Append(mou, r)
    BY <1>1
  <2> HIDE DEF r
  <2> QED BY <1>0, <2>2, <2>3, Add
<1>2. CASE o.op = "terms" /\ mou' = IF o.base = Base(o) THEN [mou EXCEPT ![o.row].terms = @ + 1] ELSE mou
  <2> DEFINE r == [mou[o.row] EXCEPT !.terms = @ + 1]
  <2>1. o.row \in DOMAIN mou
    BY <1>2, OpsApart DEF FormOK, TicketOps
  <2>2. r \in MouRow
    BY <1>0, <2>1 DEF MouRow
  <2>3. mou' = mou \/ mou' = [mou EXCEPT ![o.row] = r]
    BY <1>2
  <2> HIDE DEF r
  <2> QED BY <1>0, <2>1, <2>2, <2>3, Put
<1>3. CASE o.op \in MouSteps /\ RecordMouStep(o)
  <2>1. o.row \in DOMAIN mou
    BY <1>3, OpsApart DEF FormOK, TicketOps
  <2>2. PICK m \in MouMoves : mou' = IF o.base = Base(o) THEN [mou EXCEPT ![o.row].status = m[3]] ELSE mou
    BY <1>3, Zenon DEF RecordMouStep
  <2> DEFINE r == [mou[o.row] EXCEPT !.status = m[3]]
  <2>3. r \in MouRow
    BY <1>0, <2>1, MouStepsAre DEF MouRow
  <2>4. mou' = mou \/ mou' = [mou EXCEPT ![o.row] = r]
    BY <2>2
  <2> HIDE DEF r
  <2> QED BY <1>0, <2>1, <2>3, <2>4, Put
<1> QED BY <1>1, <1>2, <1>3

LEMMA DecisionsAre == Decisions \subseteq TicketSteps
BY TicketStepsAre DEF Decisions

\* All that a form writes, in time or late.
LEMMA WriteIs ==
  ASSUME TypeInv, NEW o, FormOK(o, ticket, design, mou), Fits(o), Write(o)
  PROVE  /\ Rows' /\ TicketRows(o) /\ FeedbackRows(o)
         /\ o.op # "price" => price' = price
         /\ DOMAIN ticket \subseteq DOMAIN ticket' /\ DOMAIN design \subseteq DOMAIN design'
         /\ DOMAIN mou \subseteq DOMAIN mou'
<1>0. Rows
  BY DEF TypeInv
<1>r. o.op \in TicketSteps \cup {"price"} => o.row \in DOMAIN ticket /\ o.base[2] + 1 \in 1 .. MaxRevisions + 1
  <2>1. o.op \in TicketSteps \cup {"price"} => o.row \in DOMAIN ticket
    BY OpsApart DEF FormOK, TicketOps
  <2>2. o.op \in TicketSteps \cup {"price"} => o.base[2] \in 0 .. MaxRevisions
    BY DEF FormOK
  <2> QED BY <2>1, <2>2, Constants
<1>g. TicketRows(o) => DOMAIN ticket \subseteq DOMAIN ticket'
  BY DEF TicketRows
<1>1. CASE /\ \/ o.op = "create" /\ CreateSampleRequest(o) /\ UNCHANGED feedback
              \/ o.op \in TicketSteps /\ RecordSampleStep(o)
           /\ lifecycle' = LifecycleFromSamples
           /\ UNCHANGED <<price, design, mou>>
  <2>1. /\ ticket' \in Seq(TicketRow) /\ TicketRows(o)
        /\ \A t \in DOMAIN ticket' : ticket'[t].revision_index <= MaxRevisions
    BY <1>1, TicketWrites
  <2>2. FeedbackRows(o)
    <3>1. CASE o.op = "create" /\ UNCHANGED feedback
      BY <3>1, DecisionsAre, OpsApart DEF FeedbackRows
    <3>2. CASE o.op \in TicketSteps /\ RecordSampleStep(o)
      <4>1. feedback' = IF o.op \in Decisions THEN Append(feedback, <<o.row, o.base[2] + 1, o.op>>) ELSE feedback
        BY <3>2, Zenon DEF RecordSampleStep
      <4> QED BY <4>1 DEF FeedbackRows
    <3> QED BY <1>1, <3>1, <3>2
  <2>3. feedback' \in Seq((DOMAIN ticket) \X (1 .. MaxRevisions + 1) \X Decisions)
    <3>1. CASE o.op \notin Decisions
      BY <1>0, <2>2, <3>1 DEF FeedbackRows, Rows
    <3>2. CASE o.op \in Decisions
      <4> DEFINE x == <<o.row, o.base[2] + 1, o.op>>
      <4>1. x \in (DOMAIN ticket) \X (1 .. MaxRevisions + 1) \X Decisions
        BY <1>r, <3>2, DecisionsAre
      <4>2. feedback' = Append(feedback, x)
        BY <2>2, <3>2 DEF FeedbackRows
      <4> HIDE DEF x
      <4> QED BY <1>0, <4>1, <4>2, Add DEF Rows
    <3> QED BY <3>1, <3>2
  <2>4. lifecycle' \in {"LEAD", "FIRST_ORDER_ACTIVE"}
    BY <1>1 DEF LifecycleFromSamples
  <2>5. Rows'
    BY <1>0, <1>1, <1>g, <2>1, <2>3, <2>4, RowsGrow DEF Rows
  <2> QED BY <1>1, <1>g, <2>1, <2>2, <2>5
<1>2. CASE /\ \/ o.op = "update" /\ UpdateSampleRequest(o) /\ UNCHANGED price
              \/ o.op = "mockup" /\ UploadMockup(o) /\ UNCHANGED price
              \/ o.op = "price" /\ RecordSamplePrice(o) /\ UNCHANGED ticket
           /\ UNCHANGED <<feedback, design, mou, lifecycle>>
  <2>1. FeedbackRows(o)
    BY <1>2, DecisionsAre, OpsApart DEF FeedbackRows
  <2>2. /\ ticket' \in Seq(TicketRow) /\ TicketRows(o)
        /\ \A t \in DOMAIN ticket' : ticket'[t].revision_index <= MaxRevisions
    <3>1. CASE o.op \in {"update", "mockup"}
      BY <1>2, <3>1, TicketWrites
    <3>2. CASE o.op = "price" /\ UNCHANGED ticket
      BY <1>0, <3>2, TicketStill
    <3> QED BY <1>2, <3>1, <3>2
  <2>3. price' \in Seq((DOMAIN ticket) \X (1 .. MaxRevisions + 1)) /\ (o.op # "price" => price' = price)
    <3>1. CASE price' = price
      BY <1>0, <3>1 DEF Rows
    <3>2. CASE o.op = "price" /\ RecordSamplePrice(o)
      <4> DEFINE x == <<o.row, o.base[2] + 1>>
      <4>1. x \in (DOMAIN ticket) \X (1 .. MaxRevisions + 1)
        BY <1>r, <3>2
      <4>2. price' = Append(price, x)
        BY <3>2 DEF RecordSamplePrice
      <4> HIDE DEF x
      <4> QED BY <1>0, <3>2, <4>1, <4>2, Add DEF Rows
    <3> QED BY <1>2, <3>1, <3>2
  <2>4. Rows'
    BY <1>0, <1>2, <1>g, <2>2, <2>3, RowsGrow DEF Rows
  <2> QED BY <1>2, <1>g, <2>1, <2>2, <2>3, <2>4
<1>3. CASE /\ \/ o.op = "design" /\ CreateDesignTicket(o)
              \/ o.op \in DesignSteps /\ RecordDesignStep(o)
           /\ UNCHANGED <<ticket, price, feedback, mou, lifecycle>>
  <2>1. design' \in Seq(DesignRow) /\ DOMAIN design \subseteq DOMAIN design'
    BY <1>3, DesignWrites
  <2>2. o.op \notin Decisions /\ o.op # "create" /\ o.op # "price"
    BY <1>3, DecisionsAre, OpsApart
  <2>3. TicketRows(o)
    BY <1>0, <1>3, <2>2, TicketStill
  <2>4. Rows'
    BY <1>0, <1>3, <2>1 DEF Rows
  <2> QED BY <1>3, <2>1, <2>2, <2>3, <2>4 DEF FeedbackRows
<1>4. CASE /\ \/ o.op = "mou" /\ mou' = Append(mou, [ticket |-> o.row, status |-> "DRAFT", terms |-> 0])
              \/ /\ o.op = "terms"
                 /\ mou' = IF o.base = Base(o) THEN [mou EXCEPT ![o.row].terms = @ + 1] ELSE mou
              \/ o.op \in MouSteps /\ RecordMouStep(o)
           /\ UNCHANGED <<ticket, price, feedback, design, lifecycle>>
  <2>1. mou' \in Seq(MouRow) /\ DOMAIN mou \subseteq DOMAIN mou'
    BY <1>4, MouWrites
  <2>2. o.op \notin Decisions /\ o.op # "create" /\ o.op # "price"
    BY <1>4, DecisionsAre, OpsApart
  <2>3. TicketRows(o)
    BY <1>0, <1>4, <2>2, TicketStill
  <2>4. Rows'
    BY <1>0, <1>4, <2>1 DEF Rows
  <2> QED BY <1>4, <2>1, <2>2, <2>3, <2>4 DEF FeedbackRows
<1> QED BY <1>1, <1>2, <1>3, <1>4 DEF Write

---------------------------------------------------------------------------
(* Forms *)

\* What is filled in: a row that exists, and what the step takes.
DraftOK(o) ==
  /\ o = [op |-> o.op, row |-> o.row, arg |-> o.arg]
  /\ \/ o.op = "create" /\ o.arg \in Wishes
     \/ o.op = "update" /\ o.row \in DOMAIN ticket /\ o.arg \in Wishes
     \/ o.op \in TicketSteps /\ o.row \in DOMAIN ticket /\ o.arg \in BOOLEAN
     \/ o.op \in {"price", "mockup", "design", "mou"} /\ o.row \in DOMAIN ticket
     \/ o.op \in DesignSteps /\ o.row \in DOMAIN design
     \/ o.op \in MouSteps \cup {"terms"} /\ o.row \in DOMAIN mou

LEMMA DraftIs ==
  ASSUME NEW o \in Drafts
  PROVE  DraftOK(o)
<1>1. CASE o \in DraftForms
  BY <1>1 DEF DraftForms, Form, DraftOK
<1>2. CASE o \in StepForms
  <2> DEFINE Raised == {Form("SET_REVISION_FEE", t, TRUE) : t \in DOMAIN ticket}
             Plain == {Form(op, t, FALSE) : op \in TicketSteps, t \in DOMAIN ticket}
  <2>0. StepForms = Plain \cup Raised
    BY DEF StepForms
  <2>1. CASE o \in Raised
    <3>1. "SET_REVISION_FEE" \in TicketSteps
      BY TicketStepsAre
    <3>2. PICK t \in DOMAIN ticket : o = [op |-> "SET_REVISION_FEE", row |-> t, arg |-> TRUE]
      BY <2>1 DEF Form
    <3> QED BY <3>1, <3>2 DEF DraftOK
  <2>2. CASE o \in Plain
    <3>1. PICK op \in TicketSteps, t \in DOMAIN ticket : o = [op |-> op, row |-> t, arg |-> FALSE]
      BY <2>2 DEF Form
    <3> QED BY <3>1 DEF DraftOK
  <2> HIDE DEF Plain, Raised
  <2> QED BY <1>2, <2>0, <2>1, <2>2
<1>3. CASE o \in PriceForms \cup MockupForms
  BY <1>3 DEF PriceForms, MockupForms, Form, DraftOK
<1>4. CASE o \in DesignForms
  BY <1>4, DesignStepsAre DEF DesignForms, Form, DraftOK
<1>5. CASE o \in MouForms
  BY <1>5 DEF MouForms, Form, DraftOK
<1> QED BY <1>1, <1>2, <1>3, <1>4, <1>5 DEF Drafts

LEMMA AnswerIs ==
  ASSUME NEW kind \in {"SAMPLE", "DUMMY", "MOU"}, NEW row \in TableOf(kind), NEW op \in ApprovalSteps[kind]
  PROVE  DraftOK(Form(op, row, FALSE))
<1>1. CASE kind = "SAMPLE"
  <2>1. op \in TicketSteps /\ row \in DOMAIN ticket
    BY <1>1, DecisionsAre DEF ApprovalSteps, TableOf
  <2> QED BY <2>1 DEF Form, DraftOK
<1>2. CASE kind = "DUMMY"
  <2>1. op \in DesignSteps /\ row \in DOMAIN design
    BY <1>2, DesignStepsAre DEF ApprovalSteps, TableOf
  <2> QED BY <2>1 DEF Form, DraftOK
<1>3. CASE kind = "MOU"
  <2>1. op \in MouSteps /\ row \in DOMAIN mou
    BY <1>3, MouStepsAre DEF ApprovalSteps, TableOf
  <2> QED BY <2>1 DEF Form, DraftOK
<1> QED BY <1>1, <1>2, <1>3

LEMMA FilledOK ==
  ASSUME Rows, NEW b, DraftOK(b), Rule(Filled(b))
  PROVE  /\ FormOK(Filled(b), ticket, design, mou) /\ FeesOK(Filled(b), bill) /\ Guard(Filled(b))
         /\ Filled(b).op = b.op /\ Filled(b).row = b.row
<1> DEFINE o == Filled(b)
<1>1. /\ o.op = b.op /\ o.row = b.row /\ o.arg = b.arg /\ o.base = Base(b)
      /\ o = [op |-> o.op, row |-> o.row, arg |-> o.arg, base |-> o.base]
  BY DEF Filled
<1>r. Rule(o)
  OBVIOUS
<1> HIDE DEF o
<1>2. Base(o) = Base(b)
  BY <1>1 DEF Base
<1>3. Guard(o)
  BY <1>1, <1>2, <1>r DEF Guard
<1>4. o.op \in TicketSteps \cup {"price"} =>
        o.row \in DOMAIN ticket /\ o.base = <<ticket[o.row].status, ticket[o.row].revision_index>>
  BY <1>1, <1>2, BaseIs, OpsApart DEF DraftOK
<1>5. o.op \in TicketSteps => TicketStepAccepted(o)
  BY <1>r, RuleIs
<1>6. o.op \in TicketSteps => o.arg \in BOOLEAN /\ <<o.op, o.base[1]>> \in TicketMoves
  BY <1>1, <1>4, <1>5, OpsApart DEF TicketStepAccepted, DraftOK
<1>7. o.op \in TicketSteps \cup {"price"} => o.base[2] \in 0 .. MaxRevisions
  <2>1. \A t \in DOMAIN ticket : ticket[t].revision_index \in Nat /\ ticket[t].revision_index <= MaxRevisions
    BY RowTypes DEF TicketRow, Rows
  <2> QED BY <1>4, <2>1, Constants
<1>8. FormOK(o, ticket, design, mou)
  BY <1>1, <1>6, <1>7, OpsApart DEF FormOK, DraftOK, TicketOps
<1>9. FeesOK(o, bill)
  <2>1. o.op = "PAYMENT_RECEIVED" => FeePaid(o.row) /\ o.op \in TicketSteps
    BY <1>5, TicketStepsAre DEF TicketStepAccepted
  <2> QED BY <1>4, <2>1 DEF FeePaid, Paid, Billed, FeesOK
<1> QED BY <1>1, <1>3, <1>8, <1>9 DEF o

---------------------------------------------------------------------------
(* Types, step by step *)

\* Tickets, designs and MoUs are only added.
Grow == /\ DOMAIN ticket \subseteq DOMAIN ticket' /\ DOMAIN design \subseteq DOMAIN design'
        /\ DOMAIN mou \subseteq DOMAIN mou'

\* The devices keep their forms, but for the one that moves.
LEMMA FormsGrow ==
  ASSUME FormsOK, Grow, bill' = bill, form' = [d \in Device |-> form'[d]],
         \A d \in Device : form'[d] \in {form[d], None}
  PROVE  FormsOK'
<1> SUFFICES ASSUME NEW d \in Device, form'[d] # None
             PROVE  FormOK(form'[d], ticket', design', mou') /\ FeesOK(form'[d], bill')
  BY DEF FormsOK
<1>1. form'[d] = form[d] /\ FormOK(form[d], ticket, design, mou) /\ FeesOK(form[d], bill)
  BY DEF FormsOK
<1> QED BY <1>1, FormGrows DEF Grow

LEMMA TablesGrow ==
  ASSUME Grow, NEW kind \in {"SAMPLE", "DUMMY", "MOU"}
  PROVE  TableOf(kind) \subseteq TableOf(kind)'
BY DEF Grow, TableOf

\* What stands around the tickets stands while rows are added.
LEMMA AroundGrows ==
  ASSUME Around, Grow, UNCHANGED <<bill, quota, link, minting>>
  PROVE  Around'
<1>1. \A l \in DOMAIN link : link[l].kind \in {"SAMPLE", "DUMMY", "MOU"}
  <2>1. \A l \in DOMAIN link : link[l] \in LinkRow
    BY LenProperties, ElementOfSeq DEF Around
  <2> QED BY <2>1 DEF LinkRow
<1>2. \A l \in DOMAIN link : link[l].row \in TableOf(link[l].kind)'
  BY <1>1, TablesGrow DEF Around
<1>3. bill \subseteq (DOMAIN ticket') \X FeeTypes \X (0 .. MaxRevisions) \X {"OPEN", "PAID"}
  BY RowsGrow DEF Around, Grow
<1> QED BY <1>2, <1>3 DEF Around

LEMMA RowsStay ==
  ASSUME Rows, UNCHANGED rows
  PROVE  Rows' /\ Grow
BY DEF rows, Rows, Grow

\* A link becomes used or expired, or is revoked, and says what it said.
LEMMA LinkPut ==
  ASSUME Around, NEW l \in DOMAIN link, NEW s \in {"LIVE", "USED", "REVOKED", "EXPIRED"},
         link' = [link EXCEPT ![l].state = s]
  PROVE  /\ link' \in Seq(LinkRow) /\ DOMAIN link' = DOMAIN link /\ Len(link') = Len(link)
         /\ \A k \in DOMAIN link : /\ link'[k].kind = link[k].kind /\ link'[k].row = link[k].row
                                   /\ link'[k].revision = link[k].revision
                                   /\ link'[k].made_for = link[k].made_for
                                   /\ k # l => link'[k].state = link[k].state
<1>1. link \in Seq(LinkRow) /\ link[l] \in LinkRow
  BY LenProperties, ElementOfSeq DEF Around
<1> DEFINE r == [link[l] EXCEPT !.state = s]
<1>2. /\ r \in LinkRow /\ r.kind = link[l].kind /\ r.row = link[l].row /\ r.revision = link[l].revision
      /\ r.made_for = link[l].made_for
  BY <1>1 DEF LinkRow
<1>3. link' = [link EXCEPT ![l] = r]
  OBVIOUS
<1> HIDE DEF r
<1>4. /\ link' \in Seq(LinkRow) /\ DOMAIN link' = DOMAIN link /\ Len(link') = Len(link)
      /\ link'[l] = r /\ \A k \in DOMAIN link : k # l => link'[k] = link[k]
  BY <1>1, <1>2, <1>3, Put
<1> QED BY <1>2, <1>4

LEMMA LinkTypes ==
  ASSUME Around
  PROVE  \A l \in DOMAIN link : link[l] \in LinkRow /\ link[l].kind \in {"SAMPLE", "DUMMY", "MOU"}
<1>1. \A l \in DOMAIN link : link[l] \in LinkRow
  BY LenProperties, ElementOfSeq DEF Around
<1> QED BY <1>1 DEF LinkRow

\* What is shown with a link is a number.
LEMMA ShownIs ==
  ASSUME Rows, NEW kind \in {"SAMPLE", "DUMMY", "MOU"}, NEW row \in TableOf(kind)
  PROVE  Shown(kind, row) \in Nat /\ LinkTarget(kind, row)[2] \in Nat
<1>1. CASE kind = "SAMPLE"
  <2> DEFINE n == ticket[row].revision_index + 1
  <2>1. IsFiniteSet(DOMAIN price)
    <3>1. DOMAIN price = 1 .. Len(price) /\ Len(price) \in Nat
      BY LenProperties DEF Rows
    <3> QED BY <3>1, FS_Interval
  <2>2. Prices(row, n) \in SUBSET DOMAIN price
    BY DEF Prices
  <2>3. Cardinality(Prices(row, n)) \in Nat
    BY <2>1, <2>2, FS_Subset, FS_CardinalityType
  <2>4. row \in DOMAIN ticket /\ Shown(kind, row) = Cardinality(Prices(row, n))
    BY <1>1 DEF TableOf, Shown
  <2>5. ticket[row] \in TicketRow
    BY <2>4, RowTypes
  <2>6. LinkTarget(kind, row)[2] = ticket[row].revision_index
    BY <1>1 DEF LinkTarget
  <2> QED BY <2>3, <2>4, <2>5, <2>6 DEF TicketRow
<1>2. CASE kind = "DUMMY"
  <2>1. row \in DOMAIN design /\ design[row] \in DesignRow
    BY <1>2, RowTypes DEF TableOf
  <2>2. Shown(kind, row) = design[row].count /\ LinkTarget(kind, row)[2] = design[row].count
    BY <1>2 DEF Shown, LinkTarget
  <2> QED BY <2>1, <2>2 DEF DesignRow
<1>3. CASE kind = "MOU"
  <2>1. row \in DOMAIN mou /\ mou[row] \in MouRow
    BY <1>3, RowTypes DEF TableOf
  <2>2. Shown(kind, row) = mou[row].terms /\ LinkTarget(kind, row)[2] = 0
    BY <1>3 DEF Shown, LinkTarget
  <2> QED BY <2>1, <2>2 DEF MouRow
<1> QED BY <1>1, <1>2, <1>3

\* The link that is made.
LEMMA LinkMade ==
  ASSUME TypeInv, NEW d \in Desk, CreateApprovalLink(d)
  PROVE  \E kind \in {"SAMPLE", "DUMMY", "MOU"} : \E row \in TableOf(kind) : \E r \in LinkRow :
           /\ link' = Append(link, r) /\ r.kind = kind /\ r.row = row
           /\ ClientApproval(kind, row)
           /\ r.revision = LinkTarget(kind, row)[2] /\ r.made_for = Shown(kind, row) /\ r.state = "LIVE"
<1>1. PICK kind \in Kinds : \E row \in TableOf(kind) :
        /\ ClientApproval(kind, row)
        /\ link' = Append(link, [kind |-> kind, row |-> row, status |-> LinkTarget(kind, row)[1],
                                 revision |-> LinkTarget(kind, row)[2], made_for |-> Shown(kind, row),
                                 state |-> "LIVE"])
  BY Zenon DEF CreateApprovalLink
<1>2. PICK row \in TableOf(kind) :
        /\ ClientApproval(kind, row)
        /\ link' = Append(link, [kind |-> kind, row |-> row, status |-> LinkTarget(kind, row)[1],
                                 revision |-> LinkTarget(kind, row)[2], made_for |-> Shown(kind, row),
                                 state |-> "LIVE"])
  BY <1>1
<1>3. kind \in {"SAMPLE", "DUMMY", "MOU"}
  BY Constants
<1> DEFINE s == LinkTarget(kind, row)[1]
           n == LinkTarget(kind, row)[2]
           m == Shown(kind, row)
           r == [kind |-> kind, row |-> row, status |-> s, revision |-> n, made_for |-> m, state |-> "LIVE"]
<1>4. n \in Nat /\ m \in Nat
  BY <1>3, ShownIs DEF TypeInv
<1>5. s \in {"SAMPLE_SENT", "DUMMY_SENT", "SENT"}
  BY <1>2, <1>3 DEF ClientApproval
<1>6. row \in Nat
  BY <1>3, RowNumbers DEF TableOf, TypeInv
<1>7. link' = Append(link, r)
  BY <1>2
<1> HIDE DEF s, n, m
<1>8. /\ r \in LinkRow /\ r.kind = kind /\ r.row = row /\ r.revision = n /\ r.made_for = m
      /\ r.state = "LIVE"
  BY <1>3, <1>4, <1>5, <1>6 DEF LinkRow
<1> HIDE DEF r
<1> QED BY <1>2, <1>3, <1>7, <1>8 DEF n, m

\* The others that are revoked.
LEMMA LinksRevoked ==
  ASSUME TypeInv, NEW d \in Desk, RevokeOthers(d)
  PROVE  /\ link' \in Seq(LinkRow) /\ DOMAIN link' = DOMAIN link /\ Len(link') = Len(link)
         /\ \A k \in DOMAIN link : /\ link'[k].kind = link[k].kind /\ link'[k].row = link[k].row
                                   /\ link'[k].revision = link[k].revision
                                   /\ link'[k].made_for = link[k].made_for
                                   /\ link'[k].state \in {link[k].state, "REVOKED"}
<1>0. link \in Seq(LinkRow) /\ \A l \in DOMAIN link : link[l] \in LinkRow
  BY LinkTypes DEF TypeInv, Around
<1>l. Len(link) \in Nat /\ DOMAIN link = 1 .. Len(link)
  BY <1>0, LenProperties
<1>1. CASE link' = link
  BY <1>0, <1>1
<1>2. ASSUME NEW S, link' = [l \in DOMAIN link |-> IF l \in S THEN [link[l] EXCEPT !.state = "REVOKED"] ELSE link[l]]
      PROVE  /\ link' \in Seq(LinkRow) /\ DOMAIN link' = DOMAIN link /\ Len(link') = Len(link)
             /\ \A k \in DOMAIN link : /\ link'[k].kind = link[k].kind /\ link'[k].row = link[k].row
                                       /\ link'[k].revision = link[k].revision
                                       /\ link'[k].made_for = link[k].made_for
                                       /\ link'[k].state \in {link[k].state, "REVOKED"}
  <2>1. \A l \in DOMAIN link : link'[l] = IF l \in S THEN [link[l] EXCEPT !.state = "REVOKED"] ELSE link[l]
    BY <1>2
  <2>2. ASSUME NEW l \in DOMAIN link
        PROVE  LET r == [link[l] EXCEPT !.state = "REVOKED"]
               IN /\ r \in LinkRow /\ r.kind = link[l].kind /\ r.row = link[l].row
                  /\ r.revision = link[l].revision /\ r.made_for = link[l].made_for /\ r.state = "REVOKED"
    BY <1>0, <2>2 DEF LinkRow
  <2>3. ASSUME NEW l \in DOMAIN link
        PROVE  /\ link'[l] \in LinkRow /\ link'[l].kind = link[l].kind /\ link'[l].row = link[l].row
               /\ link'[l].revision = link[l].revision /\ link'[l].made_for = link[l].made_for
               /\ link'[l].state \in {link[l].state, "REVOKED"}
    <3> DEFINE r == [link[l] EXCEPT !.state = "REVOKED"]
    <3>1. /\ r \in LinkRow /\ r.kind = link[l].kind /\ r.row = link[l].row
          /\ r.revision = link[l].revision /\ r.made_for = link[l].made_for /\ r.state = "REVOKED"
      BY <2>2, <2>3
    <3>2. link'[l] = r \/ link'[l] = link[l]
      BY <2>1, <2>3
    <3> HIDE DEF r
    <3> QED BY <1>0, <2>3, <3>1, <3>2
  <2>4. link' \in [1 .. Len(link) -> LinkRow]
    <3>1. DOMAIN link' = 1 .. Len(link) /\ link' = [l \in DOMAIN link' |-> link'[l]]
      BY <1>2, <1>l
    <3>2. \A l \in 1 .. Len(link) : link'[l] \in LinkRow
      BY <1>l, <2>3
    <3> QED BY <3>1, <3>2
  <2>5. link' \in Seq(LinkRow) /\ Len(link') = Len(link)
    BY <1>l, <2>4
  <2> QED BY <1>2, <2>3, <2>5
<1>3. link' = link \/ \E S : link' = [l \in DOMAIN link |-> IF l \in S THEN [link[l] EXCEPT !.state = "REVOKED"]
                                                           ELSE link[l]]
  <2> DEFINE n == minting[d]
             old(l) == l # n /\ link[l].state = "LIVE" /\ link[l].kind = link[n].kind /\ link[l].row = link[n].row
             S == {l \in DOMAIN link : old(l)}
  <2>1. link' = link \/
        link' = [l \in DOMAIN link |-> IF old(l) THEN [link[l] EXCEPT !.state = "REVOKED"] ELSE link[l]]
    BY Zenon DEF RevokeOthers
  <2>2. [l \in DOMAIN link |-> IF old(l) THEN [link[l] EXCEPT !.state = "REVOKED"] ELSE link[l]] =
        [l \in DOMAIN link |-> IF l \in S THEN [link[l] EXCEPT !.state = "REVOKED"] ELSE link[l]]
    OBVIOUS
  <2>3. link' = link \/
        link' = [l \in DOMAIN link |-> IF l \in S THEN [link[l] EXCEPT !.state = "REVOKED"] ELSE link[l]]
    BY <2>1, <2>2, Zenon
  <2> HIDE DEF S
  <2> QED BY <2>3
<1> QED BY <1>1, <1>2, <1>3

\* What a step writes to the tables of the ticket.
Due(o) == /\ FormOK(o, ticket, design, mou) /\ FeesOK(o, bill) /\ Fits(o) /\ Write(o)

LEMMA DueGrows ==
  ASSUME TypeInv, NEW o, Due(o)
  PROVE  Rows' /\ Grow
BY WriteIs DEF Due, Grow

LEMMA HandleIs ==
  ASSUME TypeInv, Handle
  PROVE  /\ \E o : Due(o) /\ Guard(o)
         /\ UNCHANGED <<around, form, passed, raced>>
<1>1. PICK draft \in Drafts : Fits(Filled(draft)) /\ Rule(Filled(draft)) /\ Write(Filled(draft))
  BY Zenon DEF Handle
<1>2. DraftOK(draft)
  BY DraftIs
<1>3. Due(Filled(draft)) /\ Guard(Filled(draft))
  BY <1>1, <1>2, FilledOK DEF TypeInv, Due
<1>4. UNCHANGED <<around, form, passed, raced>>
  BY DEF Handle
<1> QED BY <1>3, <1>4

\* The answer through a link is written by the rules of a browser's step.
LEMMA RespondIs ==
  ASSUME TypeInv, NEW l \in DOMAIN link, RespondApproval(l)
  PROVE  /\ \E o : /\ Due(o) /\ Guard(o) /\ o.row = link[l].row
                   /\ link[l].kind = "SAMPLE" => o.op \in Decisions
         /\ link[l].state = "LIVE"
         /\ LinkTarget(link[l].kind, link[l].row) = <<link[l].status, link[l].revision>>
         /\ link' = [link EXCEPT ![l].state = "USED"]
         /\ UNCHANGED <<bill, quota, minting, form, passed, raced>>
<1>1. link[l].kind \in {"SAMPLE", "DUMMY", "MOU"} /\ link[l].row \in TableOf(link[l].kind)
  BY LinkTypes DEF TypeInv, Around
<1>2. PICK op \in ApprovalSteps[link[l].kind] :
        LET o == Filled(Form(op, link[l].row, FALSE)) IN Fits(o) /\ Rule(o) /\ Write(o)
  BY Zenon DEF RespondApproval
<1> DEFINE b == Form(op, link[l].row, FALSE)
<1>3. DraftOK(b) /\ b.op = op /\ b.row = link[l].row
  BY <1>1, AnswerIs DEF Form
<1>4. Fits(Filled(b)) /\ Rule(Filled(b)) /\ Write(Filled(b))
  BY <1>2
<1> HIDE DEF b
<1>5. Due(Filled(b)) /\ Guard(Filled(b)) /\ Filled(b).op = op /\ Filled(b).row = link[l].row
  BY <1>3, <1>4, FilledOK DEF TypeInv, Due
<1>6. link[l].kind = "SAMPLE" => op \in Decisions
  BY DEF ApprovalSteps
<1>7. /\ link[l].state = "LIVE"
      /\ LinkTarget(link[l].kind, link[l].row) = <<link[l].status, link[l].revision>>
      /\ link' = [link EXCEPT ![l].state = "USED"]
      /\ UNCHANGED <<bill, quota, minting, form, passed, raced>>
  BY DEF RespondApproval
<1> QED BY <1>5, <1>6, <1>7

LEMMA CommitIs ==
  ASSUME TypeInv, NEW d \in Device, Commit(d)
  PROVE  /\ Due(form[d]) /\ (~ raced' => Guard(form[d])) /\ (raced => raced')
         /\ raced' \in BOOLEAN /\ passed' = passed \ {d} /\ form' = [form EXCEPT ![d] = None]
         /\ UNCHANGED around
<1>1. d \in passed /\ Fits(form[d]) /\ Write(form[d]) /\ passed' = passed \ {d}
      /\ form' = [form EXCEPT ![d] = None] /\ UNCHANGED around
  BY DEF Commit
<1>2. FormOK(form[d], ticket, design, mou) /\ FeesOK(form[d], bill)
  BY <1>1 DEF TypeInv, FormsOK, DevicesOK
<1>3. (~ raced' => Guard(form[d])) /\ (raced => raced') /\ raced' \in BOOLEAN
  <2>1. raced' = (raced \/ ~Guard(form[d]))
    BY DEF Commit
  <2> QED BY <2>1, Zenon
<1> QED BY <1>1, <1>2, <1>3 DEF Due

\* Fees are billed and paid, and what is paid stays so.
LEMMA FeesGrow ==
  ASSUME TypeInv, FeeMoves
  PROVE  /\ bill' \subseteq (DOMAIN ticket) \X FeeTypes \X (0 .. MaxRevisions) \X {"OPEN", "PAID"}
         /\ \A x \in bill : x[4] = "PAID" => x \in bill'
<1>0. bill \subseteq (DOMAIN ticket) \X FeeTypes \X (0 .. MaxRevisions) \X {"OPEN", "PAID"}
  BY DEF TypeInv, Around
<1>1. PICK t \in DOMAIN ticket :
       \/ \E type \in FeeTypes, round \in 0 .. MaxRevisions :
            \E s \in IF type = "DUMMY_FEE" /\ round > 0 THEN {"OPEN", "PAID"} ELSE {"PAID"} :
                 bill' = bill \cup {<<t, type, round, s>>}
       \/ \E b \in bill : b[4] = "OPEN" /\ bill' = (bill \ {b}) \cup {[b EXCEPT ![4] = "PAID"]}
  BY Zenon DEF FeeMoves
<1>2. CASE \E type \in FeeTypes, round \in 0 .. MaxRevisions :
            \E s \in IF type = "DUMMY_FEE" /\ round > 0 THEN {"OPEN", "PAID"} ELSE {"PAID"} :
                 bill' = bill \cup {<<t, type, round, s>>}
  <2>1. PICK type \in FeeTypes, round \in 0 .. MaxRevisions, s \in {"OPEN", "PAID"} :
                 bill' = bill \cup {<<t, type, round, s>>}
    BY <1>2
  <2> QED BY <1>0, <2>1
<1>3. CASE \E b \in bill : b[4] = "OPEN" /\ bill' = (bill \ {b}) \cup {[b EXCEPT ![4] = "PAID"]}
  <2>1. PICK b \in bill : b[4] = "OPEN" /\ bill' = (bill \ {b}) \cup {[b EXCEPT ![4] = "PAID"]}
    BY <1>3
  <2>2. [b EXCEPT ![4] = "PAID"] \in (DOMAIN ticket) \X FeeTypes \X (0 .. MaxRevisions) \X {"OPEN", "PAID"}
    <3>1. PICK x \in DOMAIN ticket, y \in FeeTypes, z \in 0 .. MaxRevisions, s \in {"OPEN", "PAID"} :
            b = <<x, y, z, s>>
      BY <1>0
    <3>2. [b EXCEPT ![4] = "PAID"] = <<x, y, z, "PAID">>
      BY <3>1
    <3> QED BY <3>2
  <2> QED BY <1>0, <2>1, <2>2
<1> QED BY <1>1, <1>2, <1>3

LEMMA TypeInit == Init => TypeInv
<1> SUFFICES ASSUME Init PROVE TypeInv
  OBVIOUS
<1>1. Rows
  BY DEF Init, Rows
<1>2. Around
  <2>1. minting \in [Desk -> 0 .. Len(link)]
    BY DEF Init
  <2> QED BY <2>1 DEF Init, Around
<1>3. FormsOK
  BY DEF Init, FormsOK
<1>4. DevicesOK
  <2>1. passed = {} /\ raced = FALSE
    BY DEF Init
  <2> QED BY <2>1, Zenon DEF DevicesOK
<1> QED BY <1>1, <1>2, <1>3, <1>4 DEF TypeInv

LEMMA TypeStep == TypeInv /\ [Next]_vars => TypeInv'
<1> SUFFICES ASSUME TypeInv, [Next]_vars PROVE TypeInv'
  OBVIOUS
<1>0. Rows /\ Around /\ FormsOK /\ DevicesOK
  BY DEF TypeInv
<1>f. form = [d \in Device |-> form[d]]
  BY <1>0 DEF FormsOK
<1>p. passed \subseteq Device /\ raced \in BOOLEAN /\ \A d \in passed : form[d] # None
  BY <1>0 DEF DevicesOK
<1>1. CASE Handle
  <2>1. PICK o : Due(o)
    BY <1>1, HandleIs
  <2>2. UNCHANGED <<around, form, passed, raced>>
    BY <1>1, HandleIs
  <2>3. Rows' /\ Grow
    BY <2>1, DueGrows
  <2>4. Around'
    BY <1>0, <2>2, <2>3, AroundGrows DEF around
  <2>5. FormsOK' /\ DevicesOK'
    BY <1>0, <1>f, <2>2, <2>3, FormsGrow DEF around, DevicesOK
  <2> QED BY <2>3, <2>4, <2>5 DEF TypeInv
<1>2. ASSUME NEW d \in Desk, CreateApprovalLink(d) PROVE TypeInv'
  <2>0. PICK kind \in {"SAMPLE", "DUMMY", "MOU"} : \E row \in TableOf(kind), r \in LinkRow :
          link' = Append(link, r) /\ r.kind = kind /\ r.row = row
    BY <1>2, LinkMade
  <2>1. PICK row \in TableOf(kind), r \in LinkRow : link' = Append(link, r) /\ r.kind = kind /\ r.row = row
    BY <2>0
  <2>2. UNCHANGED <<rows, bill, quota, form, passed, raced>> /\ minting' = [minting EXCEPT ![d] = Len(link) + 1]
    BY <1>2 DEF CreateApprovalLink
  <2>3. Rows' /\ Grow
    BY <1>0, <2>2, RowsStay
  <2>4. /\ link' \in Seq(LinkRow) /\ Len(link') = Len(link) + 1
        /\ DOMAIN link' = DOMAIN link \cup {Len(link) + 1} /\ Len(link) + 1 \notin DOMAIN link
        /\ link'[Len(link) + 1] = r /\ \A j \in DOMAIN link : link'[j] = link[j]
    BY <1>0, <2>1, Add DEF Around
  <2>5. minting' \in [Desk -> 0 .. Len(link')]
    <3>1. Len(link) \in Nat /\ minting \in [Desk -> 0 .. Len(link)]
      BY <1>0, LenProperties DEF Around
    <3>2. 0 .. Len(link) \subseteq 0 .. Len(link') /\ Len(link) + 1 \in 0 .. Len(link')
      BY <2>4, <3>1
    <3> QED BY <2>2, <3>1, <3>2
  <2>6. (\A l \in DOMAIN link : link[l].row \in TableOf(link[l].kind))'
    <3>1. \A k \in {"SAMPLE", "DUMMY", "MOU"} : TableOf(k)' = TableOf(k)
      BY <2>2 DEF rows, TableOf
    <3>2. \A l \in DOMAIN link : link[l].kind \in {"SAMPLE", "DUMMY", "MOU"}
      BY <1>0, LinkTypes
    <3> QED BY <1>0, <2>1, <2>4, <3>1, <3>2 DEF Around
  <2>7. Around'
    BY <1>0, <2>2, <2>4, <2>5, <2>6 DEF Around, rows
  <2>8. FormsOK' /\ DevicesOK'
    BY <1>0, <1>f, <2>2, <2>3, FormsGrow DEF DevicesOK
  <2> QED BY <2>3, <2>7, <2>8 DEF TypeInv
<1>l. ASSUME link' \in Seq(LinkRow), DOMAIN link' = DOMAIN link, Len(link') = Len(link), Grow, bill' = bill,
             quota' = quota, minting' \in [Desk -> 0 .. Len(link)],
             \A k \in DOMAIN link : link'[k].kind = link[k].kind /\ link'[k].row = link[k].row
      PROVE  Around'
  <2>1. \A k \in DOMAIN link : link[k].kind \in {"SAMPLE", "DUMMY", "MOU"}
    BY <1>0, LinkTypes
  <2>2. \A k \in DOMAIN link : link[k].row \in TableOf(link[k].kind)'
    BY <1>0, <1>l, <2>1, TablesGrow DEF Around
  <2>3. bill \subseteq (DOMAIN ticket') \X FeeTypes \X (0 .. MaxRevisions) \X {"OPEN", "PAID"}
    BY <1>0, <1>l, RowsGrow DEF Around, Grow
  <2>4. (\A k \in DOMAIN link : link[k].row \in TableOf(link[k].kind))'
    BY <1>l, <2>2
  <2> QED BY <1>0, <1>l, <2>3, <2>4 DEF Around
<1>3. ASSUME NEW d \in Desk, RevokeOthers(d) PROVE TypeInv'
  <2>1. /\ link' \in Seq(LinkRow) /\ DOMAIN link' = DOMAIN link /\ Len(link') = Len(link)
        /\ \A k \in DOMAIN link : link'[k].kind = link[k].kind /\ link'[k].row = link[k].row
    BY <1>3, LinksRevoked
  <2>2. UNCHANGED <<rows, bill, quota, form, passed, raced>> /\ minting' = [minting EXCEPT ![d] = 0]
    BY <1>3 DEF RevokeOthers
  <2>3. minting' \in [Desk -> 0 .. Len(link)]
    <3>1. Len(link) \in Nat /\ minting \in [Desk -> 0 .. Len(link)]
      BY <1>0, LenProperties DEF Around
    <3> QED BY <2>2, <3>1
  <2>4. Rows' /\ Grow
    BY <1>0, <2>2, RowsStay
  <2>5. Around'
    BY <1>l, <2>1, <2>2, <2>3, <2>4
  <2>6. FormsOK' /\ DevicesOK'
    BY <1>0, <1>f, <2>2, <2>4, FormsGrow DEF DevicesOK
  <2> QED BY <2>4, <2>5, <2>6 DEF TypeInv
<1>4. ASSUME NEW d \in Device, Fill(d) PROVE TypeInv'
  <2>1. PICK b \in Drafts : Guard(Filled(b)) /\ form' = [form EXCEPT ![d] = Filled(b)]
    BY <1>4 DEF Fill
  <2>2. FormOK(Filled(b), ticket, design, mou) /\ FeesOK(Filled(b), bill)
    BY <1>0, <2>1, DraftIs, FilledOK DEF Guard
  <2>3. UNCHANGED <<rows, around, passed, raced>> /\ form[d] = None
    BY <1>4 DEF Fill
  <2>4. Rows' /\ Grow
    BY <1>0, <2>3, RowsStay
  <2>5. Around'
    BY <1>0, <2>3, <2>4, AroundGrows DEF around
  <2> HIDE DEF Filled
  <2>6. FormsOK'
    <3>1. \A e \in Device : form'[e] = IF e = d THEN Filled(b) ELSE form[e]
      BY <1>f, <2>1
    <3>2. form' = [e \in Device |-> form'[e]]
      BY <1>f, <2>1
    <3>3. \A e \in Device : form'[e] # None => FormOK(form'[e], ticket, design, mou) /\ FeesOK(form'[e], bill)
      BY <1>0, <2>2, <3>1 DEF FormsOK
    <3> QED BY <2>3, <3>2, <3>3 DEF FormsOK, rows, around
  <2>7. DevicesOK'
    BY <1>f, <1>p, <2>1, <2>3 DEF DevicesOK
  <2> QED BY <2>4, <2>5, <2>6, <2>7 DEF TypeInv
<1>5. ASSUME NEW d \in Device, Refuse(d) \/ Pass(d) PROVE TypeInv'
  <2>1. UNCHANGED <<rows, around, raced>>
    BY <1>5 DEF Refuse, Pass
  <2>2. Rows' /\ Grow
    BY <1>0, <2>1, RowsStay
  <2>3. Around'
    BY <1>0, <2>1, <2>2, AroundGrows DEF around
  <2>4. /\ form' = [e \in Device |-> form'[e]] /\ \A e \in Device : form'[e] \in {form[e], None}
        /\ \A e \in Device : e # d => form'[e] = form[e]
    BY <1>5, <1>f DEF Refuse, Pass
  <2>5. FormsOK'
    BY <1>0, <2>1, <2>2, <2>4, FormsGrow DEF around
  <2>6. passed' \subseteq Device /\ \A e \in passed' : form'[e] # None
    BY <1>5, <1>f, <1>p DEF Refuse, Pass
  <2> QED BY <1>p, <2>1, <2>2, <2>3, <2>5, <2>6 DEF TypeInv, DevicesOK
<1>6. ASSUME NEW d \in Device, Commit(d) PROVE TypeInv'
  <2>1. /\ Due(form[d]) /\ raced' \in BOOLEAN /\ passed' = passed \ {d} /\ form' = [form EXCEPT ![d] = None]
        /\ UNCHANGED around
    BY <1>6, CommitIs
  <2>2. Rows' /\ Grow
    BY <2>1, DueGrows
  <2>3. Around'
    BY <1>0, <2>1, <2>2, AroundGrows DEF around
  <2>4. /\ form' = [e \in Device |-> form'[e]] /\ \A e \in Device : form'[e] \in {form[e], None}
        /\ \A e \in Device : e # d => form'[e] = form[e]
    BY <1>f, <2>1
  <2>5. FormsOK'
    BY <1>0, <2>1, <2>2, <2>4, FormsGrow DEF around
  <2>6. DevicesOK'
    BY <1>p, <2>1, <2>4 DEF DevicesOK
  <2> QED BY <2>2, <2>3, <2>5, <2>6 DEF TypeInv
<1>7. ASSUME NEW l \in DOMAIN link, RespondApproval(l) PROVE TypeInv'
  <2>1. PICK o : Due(o)
    BY <1>7, RespondIs
  <2>2. link' = [link EXCEPT ![l].state = "USED"] /\ UNCHANGED <<bill, quota, minting, form, passed, raced>>
    BY <1>7, RespondIs
  <2>3. Rows' /\ Grow
    BY <2>1, DueGrows
  <2>4. /\ link' \in Seq(LinkRow) /\ DOMAIN link' = DOMAIN link /\ Len(link') = Len(link)
        /\ \A k \in DOMAIN link : link'[k].kind = link[k].kind /\ link'[k].row = link[k].row
    BY <1>0, <2>2, LinkPut
  <2>5. minting' \in [Desk -> 0 .. Len(link)]
    BY <1>0, <2>2 DEF Around
  <2>6. Around'
    BY <1>l, <2>2, <2>3, <2>4, <2>5
  <2>7. FormsOK' /\ DevicesOK'
    BY <1>0, <1>f, <2>2, <2>3, FormsGrow DEF DevicesOK
  <2> QED BY <2>3, <2>6, <2>7 DEF TypeInv
<1>8. ASSUME NEW l \in DOMAIN link, LinkExpires(l) PROVE TypeInv'
  <2>1. link' = [link EXCEPT ![l].state = "EXPIRED"] /\ UNCHANGED <<rows, bill, quota, minting, form, passed, raced>>
    BY <1>8 DEF LinkExpires
  <2>2. Rows' /\ Grow
    BY <1>0, <2>1, RowsStay
  <2>3. /\ link' \in Seq(LinkRow) /\ DOMAIN link' = DOMAIN link /\ Len(link') = Len(link)
        /\ \A k \in DOMAIN link : link'[k].kind = link[k].kind /\ link'[k].row = link[k].row
    BY <1>0, <2>1, LinkPut
  <2>4. minting' \in [Desk -> 0 .. Len(link)]
    BY <1>0, <2>1 DEF Around
  <2>5. Around'
    BY <1>l, <2>1, <2>2, <2>3, <2>4
  <2>6. FormsOK' /\ DevicesOK'
    BY <1>0, <1>f, <2>1, <2>2, FormsGrow DEF DevicesOK
  <2> QED BY <2>2, <2>5, <2>6 DEF TypeInv
<1>9. CASE FeeMoves
  <2>1. UNCHANGED <<rows, link, quota, minting, form, passed, raced>>
    BY <1>9 DEF FeeMoves
  <2>2. /\ bill' \subseteq (DOMAIN ticket) \X FeeTypes \X (0 .. MaxRevisions) \X {"OPEN", "PAID"}
        /\ \A x \in bill : x[4] = "PAID" => x \in bill'
    BY <1>9, FeesGrow
  <2>3. Rows' /\ Grow
    BY <1>0, <2>1, RowsStay
  <2>4. Around'
    BY <1>0, <2>1, <2>2 DEF rows, Around, TableOf
  <2>5. FormsOK'
    <3>1. \A o : FeesOK(o, bill) => FeesOK(o, bill')
      BY <2>2 DEF FeesOK
    <3> QED BY <1>0, <2>1, <3>1 DEF rows, FormsOK
  <2>6. DevicesOK'
    BY <1>p, <2>1 DEF DevicesOK
  <2> QED BY <2>3, <2>4, <2>5, <2>6 DEF TypeInv
<1>10. CASE QuotaChanges
  <2>1. quota' \in Quotas /\ UNCHANGED <<rows, bill, link, minting, form, passed, raced>>
    BY <1>10 DEF QuotaChanges
  <2>2. Rows' /\ Grow
    BY <1>0, <2>1, RowsStay
  <2>3. Around'
    BY <1>0, <2>1 DEF rows, Around, TableOf
  <2>4. FormsOK' /\ DevicesOK'
    BY <1>0, <1>f, <2>1, <2>2, FormsGrow DEF DevicesOK
  <2> QED BY <2>2, <2>3, <2>4 DEF TypeInv
<1>11. CASE UNCHANGED vars
  <2>1. UNCHANGED <<rows, around, form, passed, raced>>
    BY <1>11 DEF vars
  <2>2. Rows' /\ Grow
    BY <1>0, <2>1, RowsStay
  <2>3. Around'
    BY <1>0, <2>1, <2>2, AroundGrows DEF around
  <2>4. FormsOK' /\ DevicesOK'
    BY <1>0, <1>f, <2>1, <2>2, FormsGrow DEF DevicesOK, around
  <2> QED BY <2>2, <2>3, <2>4 DEF TypeInv
<1> QED BY <1>1, <1>2, <1>3, <1>4, <1>5, <1>6, <1>7, <1>8, <1>9, <1>10, <1>11 DEF Next, ApprovePage

\* Every state is well typed: no iteration passes the last, fees and answers are of
\* tickets that exist, and links are for rows that exist.
THEOREM TypeCorrect == Spec => []TypeOK
BY TypeInit, TypeStep, TypeIs, PTL DEF Spec

---------------------------------------------------------------------------
(* Every step, for what is kept of tickets and their answers *)

\* A step whose guard holds when it is written is taken.
LEMMA StepTaken ==
  ASSUME TypeInv, NEW o, Due(o), Guard(o), o.op \in TicketSteps
  PROVE  /\ o.row \in DOMAIN ticket /\ o.base = <<ticket[o.row].status, ticket[o.row].revision_index>>
         /\ StepTo(o, ticket[o.row], ticket'[o.row])
         /\ ticket'[o.row].revision_index = IF o.op = "CLIENT_REVISE" THEN ticket[o.row].revision_index + 1
                                            ELSE ticket[o.row].revision_index
<1> DEFINE old == ticket[o.row]
           free == o.base[2] + 1 <= quota
           r == Stepped(o, old, free)
<1>1. o.row \in DOMAIN ticket /\ o.arg \in BOOLEAN /\ <<o.op, o.base[1]>> \in TicketMoves
  BY OpsApart DEF Due, FormOK, TicketOps
<1>2. o.base = Base(o) /\ Base(o) = <<old.status, old.revision_index>>
  BY BaseIs DEF Guard
<1>3. RecordSampleStep(o)
  BY OpsApart DEF Due, Write
<1>4. ticket' = [ticket EXCEPT ![o.row] = r]
  BY <1>2, <1>3 DEF RecordSampleStep, Stepped
<1>5. free \in BOOLEAN /\ old \in TicketRow /\ <<o.op, old.status>> \in TicketMoves
  BY <1>1, <1>2, RowTypes DEF TypeInv
<1>6. /\ StepTo(o, old, r)
      /\ r.revision_index = IF o.op = "CLIENT_REVISE" THEN old.revision_index + 1 ELSE old.revision_index
  <2> HIDE DEF free
  <2> QED BY <1>1, <1>5, SteppedTo
<1>7. ticket'[o.row] = r
  BY <1>1, <1>4
<1> QED BY <1>1, <1>2, <1>6, <1>7

LEMMA StepIs ==
  ASSUME TypeInv, [Next]_vars
  PROVE  /\ raced => raced'
         /\ \/ (\E o : Due(o) /\ (~ raced' => Guard(o))) /\ bill' = bill
            \/ UNCHANGED rows /\ \A x \in bill : x[4] = "PAID" => x \in bill'
<1>1. CASE Handle
  BY <1>1, HandleIs DEF around
<1>2. CASE \E d \in Desk : CreateApprovalLink(d) \/ RevokeOthers(d)
  BY <1>2 DEF CreateApprovalLink, RevokeOthers
<1>3. CASE \E d \in Device : Fill(d) \/ Refuse(d) \/ Pass(d)
  BY <1>3 DEF Fill, Refuse, Pass, around
<1>4. ASSUME NEW d \in Device, Commit(d)
      PROVE  Due(form[d]) /\ (~ raced' => Guard(form[d])) /\ (raced => raced') /\ bill' = bill
  BY <1>4, CommitIs DEF around
<1>5. ASSUME NEW l \in DOMAIN link, RespondApproval(l)
      PROVE  (\E o : Due(o) /\ Guard(o)) /\ bill' = bill /\ raced' = raced
  BY <1>5, RespondIs
<1>6. CASE \E l \in DOMAIN link : LinkExpires(l)
  BY <1>6 DEF LinkExpires
<1>7. CASE FeeMoves
  <2>1. UNCHANGED <<rows, raced>>
    BY <1>7 DEF FeeMoves
  <2> QED BY <1>7, <2>1, FeesGrow
<1>8. CASE QuotaChanges \/ UNCHANGED vars
  BY <1>8 DEF QuotaChanges, vars, around
<1> QED BY <1>1, <1>2, <1>3, <1>4, <1>5, <1>6, <1>7, <1>8 DEF Next, ApprovePage

---------------------------------------------------------------------------
(* Fees *)

\* Ticket t with row r and the invoices b: nothing is billable before the first work, and
\* what was worked on or is worked on was paid.
FeesOf(t, r, b) ==
  /\ r.status \in {"DRAFT", "RND_REVIEW", "RND_ACCEPTED", "WAITING_SAMPLE_PAYMENT"} => r.is_billable = FALSE
  /\ (r.status \in Working \cup {"PENDING_FEE_ASSESSMENT", "WAITING_REVISION_PAYMENT"} /\ r.wish.is_paid_sample)
       => <<t, "SAMPLE_FEE", 0, "PAID">> \in b
  /\ (r.status \in Working /\ r.is_billable) => <<t, "REVISION_FEE", r.revision_index, "PAID">> \in b

FeesInv == \A t \in DOMAIN ticket : FeesOf(t, ticket[t], bill)

LEMMA FeesKept ==
  ASSUME NEW o, NEW t \in DOMAIN ticket, NEW new, FeesOK(o, bill), FeesOf(t, ticket[t], bill), TicketBy(o, t, new)
  PROVE  FeesOf(t, new, bill)
<1> DEFINE old == ticket[t]
<1>0. FeesOf(t, old, bill)
  OBVIOUS
<1>1. CASE /\ new.status = old.status /\ new.is_billable = old.is_billable
           /\ new.revision_index = old.revision_index /\ (new.wish = old.wish \/ old.status = "DRAFT")
  BY <1>0, <1>1 DEF FeesOf, Working
<1>2. CASE /\ o.op \in TicketSteps /\ t = o.row /\ o.base = <<old.status, old.revision_index>>
           /\ StepTo(o, old, new) /\ new.wish = old.wish
           /\ new.revision_index = IF o.op = "CLIENT_REVISE" THEN old.revision_index + 1
                                   ELSE old.revision_index
  <2> HIDE DEF old
  <2>1. CASE o.op \in {"SUBMIT_TO_RND", "RND_ACCEPT", "RND_REJECT", "CANCEL"}
    BY <1>0, <1>2, <2>1 DEF StepTo, FeesOf, Working
  <2>2. CASE o.op = "PROCEED"
    BY <1>0, <1>2, <2>2 DEF StepTo, FeesOf, Working
  <2>3. CASE o.op = "PAYMENT_RECEIVED"
    <3>1. /\ old.status \in {"WAITING_SAMPLE_PAYMENT", "WAITING_REVISION_PAYMENT"} /\ new.status = "IN_RND"
          /\ new.is_billable = old.is_billable /\ new.revision_index = old.revision_index
      BY <1>2, <2>3 DEF StepTo
    <3>2. o.base[1] = old.status /\ o.base[2] = old.revision_index /\ o.row = t
      BY <1>2
    <3>3. CASE old.status = "WAITING_SAMPLE_PAYMENT"
      BY <1>0, <1>2, <2>3, <3>1, <3>2, <3>3 DEF FeesOf, FeesOK, Working
    <3>4. CASE old.status = "WAITING_REVISION_PAYMENT"
      BY <1>0, <1>2, <2>3, <3>1, <3>2, <3>4 DEF FeesOf, FeesOK, Working
    <3> QED BY <3>1, <3>3, <3>4
  <2>4. CASE o.op \in {"SAMPLE_READY", "SAMPLE_SENT", "CLIENT_ACC", "CLIENT_REJECT"}
    BY <1>0, <1>2, <2>4 DEF StepTo, FeesOf, Working
  <2>5. CASE o.op \in {"SET_REVISION_FEE", "CLIENT_REVISE"}
    BY <1>0, <1>2, <2>5 DEF StepTo, FeesOf, Working
  <2> QED BY <1>2, <2>1, <2>2, <2>3, <2>4, <2>5, TicketStepsAre
<1> QED BY <1>1, <1>2 DEF TicketBy

LEMMA FeesStep == TypeInv /\ FeesInv /\ [Next]_vars => FeesInv'
<1> SUFFICES ASSUME TypeInv, FeesInv, [Next]_vars PROVE FeesInv'
  OBVIOUS
<1>1. CASE (\E o : Due(o) /\ (~ raced' => Guard(o))) /\ bill' = bill
  <2>1. PICK o : Due(o)
    BY <1>1
  <2>2. TicketRows(o) /\ FeesOK(o, bill)
    BY <2>1, WriteIs DEF Due
  <2>3. ASSUME NEW t \in DOMAIN ticket PROVE FeesOf(t, ticket'[t], bill)
    BY <2>2, <2>3, FeesKept DEF FeesInv, TicketRows
  <2>4. ASSUME o.op = "create" PROVE FeesOf(Len(ticket) + 1, ticket'[Len(ticket) + 1], bill)
    BY <2>2, <2>4 DEF TicketRows, FeesOf, Working
  <2>5. \A t \in DOMAIN ticket' : FeesOf(t, ticket'[t], bill)
    BY <2>2, <2>3, <2>4 DEF TicketRows
  <2> QED BY <1>1, <2>5 DEF FeesInv
<1>2. CASE UNCHANGED rows /\ \A x \in bill : x[4] = "PAID" => x \in bill'
  <2>1. \A t, type, n : <<t, type, n, "PAID">> \in bill => <<t, type, n, "PAID">> \in bill'
    BY <1>2
  <2>2. ASSUME NEW t \in DOMAIN ticket PROVE FeesOf(t, ticket[t], bill')
    BY <2>1 DEF FeesInv, FeesOf
  <2> QED BY <1>2, <2>2 DEF FeesInv, rows
<1> QED BY <1>1, <1>2, StepIs

\* Paid samples, and revisions beyond the quota, are worked on only once paid, in every
\* state: also where an event was written after its guard had ceased to hold.
THEOREM WorkIsPaid == Spec => []PaidBeforeWork
<1>1. Init => FeesInv
  BY DEF Init, FeesInv
<1>2. FeesInv => PaidBeforeWork
  BY DEF FeesInv, FeesOf, PaidBeforeWork, Paid, Billed
<1> QED BY <1>1, <1>2, TypeInit, TypeStep, FeesStep, PTL DEF Spec

---------------------------------------------------------------------------
(* Answers of the client *)

Ended(r) == IF r.status \in {"CLIENT_ACC", "CLIENT_REJECT"} THEN 1 ELSE 0

Answers(t) == {i \in DOMAIN feedback : feedback[i][1] = t}

\* The answers of a ticket are for iterations of their own, none for one that is
\* still to come, and as many as its revisions and its end call for.
AnswerInv ==
  /\ \A i, j \in DOMAIN feedback : feedback[i][1] = feedback[j][1] /\ feedback[i][2] = feedback[j][2] => i = j
  /\ \A i \in DOMAIN feedback :
       feedback[i][2] <= ticket[feedback[i][1]].revision_index + Ended(ticket[feedback[i][1]])
  /\ \A t \in DOMAIN ticket : Cardinality(Answers(t)) = ticket[t].revision_index + Ended(ticket[t])

\* Only an answer moves a ticket in its rounds or ends it.
LEMMA RoundStays ==
  ASSUME NEW o, o.op \notin Decisions, NEW t \in DOMAIN ticket, NEW new, TicketBy(o, t, new)
  PROVE  new.revision_index = ticket[t].revision_index /\ Ended(new) = Ended(ticket[t])
<1> DEFINE old == ticket[t]
<1>1. CASE new.status = old.status /\ new.revision_index = old.revision_index
  BY <1>1 DEF Ended
<1>2. CASE /\ StepTo(o, old, new)
           /\ new.revision_index = IF o.op = "CLIENT_REVISE" THEN old.revision_index + 1 ELSE old.revision_index
  <2> HIDE DEF old
  <2>1. old.status \notin {"CLIENT_ACC", "CLIENT_REJECT"}
    BY <1>2 DEF StepTo, Terminal, Closed
  <2>2. new.status \notin {"CLIENT_ACC", "CLIENT_REJECT"}
    BY <1>2 DEF StepTo, Decisions
  <2>3. o.op # "CLIENT_REVISE"
    BY DEF Decisions
  <2> QED BY <1>2, <2>1, <2>2, <2>3 DEF Ended, old
<1> QED BY <1>1, <1>2 DEF TicketBy

\* A ticket that no form names keeps its round and its end.
LEMMA OthersStay ==
  ASSUME NEW o, NEW t \in DOMAIN ticket, t # o.row, NEW new, TicketBy(o, t, new)
  PROVE  new.revision_index = ticket[t].revision_index /\ Ended(new) = Ended(ticket[t])
BY DEF TicketBy, Ended

LEMMA AnswerWritten ==
  ASSUME TypeInv, AnswerInv, NEW o, Due(o), Guard(o), o.op \in Decisions
  PROVE  AnswerInv'
<1>0. Rows /\ TicketRows(o) /\ FeedbackRows(o)
  BY WriteIs DEF TypeInv, Due
<1> DEFINE t == o.row
           n == Len(feedback) + 1
           x == <<t, ticket[t].revision_index + 1, o.op>>
<1>1. /\ t \in DOMAIN ticket /\ o.base[2] = ticket[t].revision_index
      /\ StepTo(o, ticket[t], ticket'[t])
      /\ ticket'[t].revision_index = IF o.op = "CLIENT_REVISE" THEN ticket[t].revision_index + 1
                                     ELSE ticket[t].revision_index
  BY StepTaken, DecisionsAre
<1>2. \A u \in DOMAIN ticket : ticket[u].revision_index \in Nat
  BY <1>0, RowTypes DEF TicketRow
<1>3. Ended(ticket[t]) = 0 /\ ticket'[t].revision_index + Ended(ticket'[t]) = ticket[t].revision_index + 1
  <2>1. ticket[t].status = "SAMPLE_SENT"
    BY <1>1 DEF StepTo, Decisions
  <2>2. CASE o.op = "CLIENT_REVISE"
    <3>1. ticket'[t].status \in {"IN_RND", "PENDING_FEE_ASSESSMENT"}
      BY <1>1, <2>2 DEF StepTo
    <3> QED BY <1>1, <1>2, <2>1, <2>2, <3>1 DEF Ended
  <2>3. CASE o.op \in {"CLIENT_ACC", "CLIENT_REJECT"}
    <3>1. ticket'[t].status = o.op
      BY <1>1, <2>3 DEF StepTo
    <3> QED BY <1>1, <1>2, <2>1, <2>3, <3>1 DEF Ended
  <2> QED BY <2>2, <2>3 DEF Decisions
<1>4. ASSUME NEW u \in DOMAIN ticket, u # t
      PROVE  ticket'[u].revision_index = ticket[u].revision_index /\ Ended(ticket'[u]) = Ended(ticket[u])
  BY <1>0, <1>4, OthersStay DEF TicketRows
<1>5. o.op # "create"
  BY DecisionsAre, OpsApart
<1>6. /\ DOMAIN feedback' = DOMAIN feedback \cup {n} /\ n \notin DOMAIN feedback
      /\ feedback'[n] = x /\ \A i \in DOMAIN feedback : feedback'[i] = feedback[i]
  <2>1. x \in (DOMAIN ticket) \X (1 .. MaxRevisions + 1) \X Decisions
    <3>1. ticket[t].revision_index \in Nat /\ ticket[t].revision_index <= MaxRevisions
      BY <1>0, <1>1, <1>2 DEF Rows
    <3>2. ticket[t].revision_index + 1 \in 1 .. MaxRevisions + 1
      BY <3>1, Constants
    <3> QED BY <1>1, <3>2
  <2>2. feedback' = Append(feedback, x)
    BY <1>0, <1>1 DEF FeedbackRows
  <2> HIDE DEF x
  <2> QED BY <1>0, <2>1, <2>2, Add DEF Rows
<1>7. x[1] = t /\ x[2] = ticket[t].revision_index + 1
  OBVIOUS
<1> HIDE DEF x, n
<1>8. \A i \in DOMAIN feedback : feedback[i][1] \in DOMAIN ticket /\ feedback[i][2] \in Nat
  BY <1>0, RowTypes, Constants
<1>9. \A i \in DOMAIN feedback : feedback[i][1] = t => feedback[i][2] # x[2]
  BY <1>1, <1>2, <1>3, <1>7, <1>8 DEF AnswerInv
<1>10. \A i, j \in DOMAIN feedback' :
         feedback'[i][1] = feedback'[j][1] /\ feedback'[i][2] = feedback'[j][2] => i = j
  BY <1>6, <1>7, <1>9 DEF AnswerInv
<1>11. ASSUME NEW i \in DOMAIN feedback'
       PROVE  feedback'[i][2] <= ticket'[feedback'[i][1]].revision_index + Ended(ticket'[feedback'[i][1]])
  <2>1. CASE i = n
    BY <1>1, <1>2, <1>3, <1>6, <1>7, <2>1
  <2>2. CASE i \in DOMAIN feedback
    <3>1. feedback'[i] = feedback[i]
      BY <1>6, <2>2
    <3>2. feedback[i][2] <= ticket[feedback[i][1]].revision_index + Ended(ticket[feedback[i][1]])
      BY <2>2 DEF AnswerInv
    <3>3. CASE feedback[i][1] = t
      BY <1>1, <1>2, <1>3, <1>8, <2>2, <3>1, <3>2, <3>3
    <3>4. CASE feedback[i][1] # t
      BY <1>4, <1>8, <2>2, <3>1, <3>2, <3>4
    <3> QED BY <3>3, <3>4
  <2> QED BY <1>6, <1>11, <2>1, <2>2
<1>12. ASSUME NEW u \in DOMAIN ticket
       PROVE  Cardinality({i \in DOMAIN feedback' : feedback'[i][1] = u}) =
                ticket'[u].revision_index + Ended(ticket'[u])
  <2> DEFINE S == {i \in DOMAIN feedback' : feedback'[i][1] = u}
  <2>1. Cardinality(Answers(u)) = ticket[u].revision_index + Ended(ticket[u])
    BY DEF AnswerInv
  <2>2. CASE u # t
    <3>1. S = Answers(u)
      BY <1>6, <1>7, <2>2 DEF Answers
    <3> QED BY <1>4, <2>1, <2>2, <3>1
  <2>3. CASE u = t
    <3>1. S = Answers(t) \cup {n} /\ n \notin Answers(t)
      BY <1>6, <1>7, <2>3 DEF Answers
    <3>2. IsFiniteSet(Answers(t))
      <4>1. DOMAIN feedback = 1 .. Len(feedback) /\ Len(feedback) \in Nat
        BY <1>0, LenProperties DEF Rows
      <4>2. IsFiniteSet(DOMAIN feedback)
        BY <4>1, FS_Interval
      <4>3. Answers(t) \in SUBSET DOMAIN feedback
        BY DEF Answers
      <4> QED BY <4>2, <4>3, FS_Subset
    <3>3. Cardinality(S) = Cardinality(Answers(t)) + 1
      BY <3>1, <3>2, FS_AddElement
    <3> QED BY <1>1, <1>2, <1>3, <2>1, <2>3, <3>3
  <2> QED BY <2>2, <2>3
<1>13. DOMAIN ticket' = DOMAIN ticket
  BY <1>0, <1>5 DEF TicketRows
<1> QED BY <1>10, <1>11, <1>12, <1>13 DEF AnswerInv, Answers

LEMMA AnswersStay ==
  ASSUME TypeInv, AnswerInv, NEW o, Due(o), o.op \notin Decisions
  PROVE  AnswerInv'
<1>1. Rows /\ TicketRows(o) /\ feedback' = feedback
  BY WriteIs DEF TypeInv, Due, FeedbackRows
<1>2. \A t \in DOMAIN ticket : /\ ticket'[t].revision_index = ticket[t].revision_index
                               /\ Ended(ticket'[t]) = Ended(ticket[t])
  BY <1>1, RoundStays DEF TicketRows
<1>3. \A i \in DOMAIN feedback : feedback[i][1] \in DOMAIN ticket
  BY <1>1, RowTypes
<1>4. ASSUME NEW t \in DOMAIN ticket'
      PROVE  Cardinality(Answers(t)) = ticket'[t].revision_index + Ended(ticket'[t])
  <2>1. CASE t \in DOMAIN ticket
    BY <1>2, <2>1 DEF AnswerInv
  <2>2. CASE t \notin DOMAIN ticket
    <3>1. ticket'[t].revision_index = 0 /\ ticket'[t].status = "DRAFT"
      BY <1>1, <1>4, <2>2 DEF TicketRows
    <3>2. Answers(t) = {}
      BY <1>3, <2>2 DEF Answers
    <3> QED BY <3>1, <3>2, FS_EmptySet DEF Ended
  <2> QED BY <2>1, <2>2
<1>5. \A i \in DOMAIN feedback' :
        feedback'[i][2] <= ticket'[feedback'[i][1]].revision_index + Ended(ticket'[feedback'[i][1]])
  BY <1>1, <1>2, <1>3 DEF AnswerInv
<1> QED BY <1>1, <1>4, <1>5 DEF AnswerInv, Answers

LEMMA AnswerStep == TypeInv /\ (~ raced => AnswerInv) /\ [Next]_vars => (~ raced' => AnswerInv')
<1> SUFFICES ASSUME TypeInv, ~ raced => AnswerInv, [Next]_vars, ~ raced' PROVE AnswerInv'
  OBVIOUS
<1>0. AnswerInv
  BY StepIs
<1>1. CASE (\E o : Due(o) /\ (~ raced' => Guard(o))) /\ bill' = bill
  <2>1. PICK o : Due(o) /\ Guard(o)
    BY <1>1
  <2> QED BY <1>0, <2>1, AnswerWritten, AnswersStay
<1>2. CASE UNCHANGED rows
  BY <1>0, <1>2 DEF rows, AnswerInv, Answers
<1> QED BY <1>1, <1>2, StepIs

\* Every iteration has at most one answer of the client, and a ticket as many as its
\* revisions and its end: whoever answers, in any order, while no event is written
\* after its guard has ceased to hold.
THEOREM OneAnswer == Spec => []OneAnswerPerIteration
<1>1. Init => AnswerInv
  BY DEF Init, AnswerInv
<1>2. (~ raced => AnswerInv) => OneAnswerPerIteration
  BY DEF AnswerInv, OneAnswerPerIteration, Answers, Ended
<1>3. Init => (~ raced => AnswerInv)
  BY <1>1
<1> QED BY <1>2, <1>3, TypeInit, TypeStep, AnswerStep, PTL DEF Spec

---------------------------------------------------------------------------
(* Links *)

\* The round is over: the ticket is past it, or has ended in it.
Past(r, ticketRow) ==
  \/ ticketRow.revision_index > r.revision
  \/ ticketRow.revision_index = r.revision /\ ticketRow.status \in Terminal

PricesIn(pp, t, n) == {p \in DOMAIN pp : pp[p] = <<t, n>>}

\* A link r for a sample is for a round that is over, or for one that waits for its
\* answer and shows what was shown; the count of a dummy is its round.
LinkOf(r, tt, pp) ==
  /\ r.kind = "DUMMY" => r.made_for = r.revision
  /\ r.kind = "SAMPLE" =>
       \/ Past(r, tt[r.row])
       \/ /\ tt[r.row].status = "SAMPLE_SENT" /\ tt[r.row].revision_index = r.revision
          /\ r.made_for = Cardinality(PricesIn(pp, r.row, r.revision + 1))

LinkInv == \A l \in DOMAIN link : LinkOf(link[l], ticket, price)

\* A round that is over stays over.
LEMMA PastStays ==
  ASSUME NEW o, NEW t \in DOMAIN ticket, ticket[t] \in TicketRow, NEW new, TicketBy(o, t, new),
         NEW r \in LinkRow, Past(r, ticket[t])
  PROVE  Past(r, new)
<1> DEFINE old == ticket[t]
<1>0. old.revision_index \in Nat /\ r.revision \in Nat /\ Past(r, old)
  BY DEF TicketRow, LinkRow
<1>1. CASE new.status = old.status /\ new.revision_index = old.revision_index
  BY <1>0, <1>1 DEF Past
<1>2. CASE /\ StepTo(o, old, new)
           /\ new.revision_index = IF o.op = "CLIENT_REVISE" THEN old.revision_index + 1 ELSE old.revision_index
  <2> HIDE DEF old
  <2>1. old.status \notin Terminal
    BY <1>2 DEF StepTo, Terminal, Closed
  <2> QED BY <1>0, <1>2, <2>1 DEF Past
<1> QED BY <1>1, <1>2 DEF TicketBy

\* What waits for its answer goes on waiting, or its round is over.
LEMMA SentStays ==
  ASSUME NEW o, NEW t \in DOMAIN ticket, ticket[t] \in TicketRow, NEW new, TicketBy(o, t, new),
         NEW r \in LinkRow, ticket[t].status = "SAMPLE_SENT", ticket[t].revision_index = r.revision
  PROVE  Past(r, new) \/ (new.status = "SAMPLE_SENT" /\ new.revision_index = r.revision)
<1> DEFINE old == ticket[t]
<1>0. old.revision_index \in Nat /\ old.status = "SAMPLE_SENT" /\ old.revision_index = r.revision
  BY DEF TicketRow
<1>1. CASE new.status = old.status /\ new.revision_index = old.revision_index
  BY <1>0, <1>1
<1>2. CASE /\ StepTo(o, old, new)
           /\ new.revision_index = IF o.op = "CLIENT_REVISE" THEN old.revision_index + 1 ELSE old.revision_index
  <2> HIDE DEF old
  <2>1. o.op \in {"CLIENT_ACC", "CLIENT_REJECT", "CLIENT_REVISE", "CANCEL"}
    BY <1>0, <1>2 DEF StepTo
  <2>2. CASE o.op = "CLIENT_REVISE"
    BY <1>0, <1>2, <2>2 DEF Past
  <2>3. CASE o.op \in {"CLIENT_ACC", "CLIENT_REJECT", "CANCEL"}
    <3>1. new.status \in {"CLIENT_ACC", "CLIENT_REJECT", "CANCELLED"}
      BY <1>2, <2>3 DEF StepTo
    <3> QED BY <1>0, <1>2, <2>3, <3>1 DEF Past, Terminal, Closed
  <2> QED BY <2>1, <2>2, <2>3
<1> QED BY <1>1, <1>2 DEF TicketBy

\* Prices are recorded before the sample is sent: of one that waits for its answer they stay.
LEMMA PricesStay ==
  ASSUME TypeInv, NEW o, Due(o), Guard(o), NEW t \in DOMAIN ticket, ticket[t].status = "SAMPLE_SENT", NEW n
  PROVE  PricesIn(price', t, n) = PricesIn(price, t, n)
<1>1. CASE o.op # "price"
  <2>1. price' = price
    BY <1>1, WriteIs DEF Due
  <2> QED BY <2>1 DEF PricesIn
<1>2. CASE o.op = "price"
  <2> DEFINE x == <<o.row, o.base[2] + 1>>
  <2>1. ticket[o.row].status = "SAMPLE_READY"
    BY <1>2, RuleIs DEF Guard
  <2>2. price' = Append(price, x)
    BY <1>2, OpsApart DEF Due, Write, RecordSamplePrice
  <2>3. x \in (DOMAIN ticket) \X (1 .. MaxRevisions + 1)
    <3>1. o.row \in DOMAIN ticket
      BY <1>2, OpsApart DEF Due, FormOK, TicketOps
    <3>2. o.base[2] \in 0 .. MaxRevisions
      BY <1>2 DEF Due, FormOK
    <3> QED BY <3>1, <3>2, Constants
  <2>4. x[1] # t
    BY <2>1
  <2> HIDE DEF x
  <2>5. /\ DOMAIN price' = DOMAIN price \cup {Len(price) + 1} /\ price'[Len(price) + 1] = x
        /\ \A i \in DOMAIN price : price'[i] = price[i]
    BY <2>2, <2>3, Add DEF TypeInv, Rows
  <2>6. x # <<t, n>>
    BY <2>4
  <2> QED BY <2>5, <2>6 DEF PricesIn
<1> QED BY <1>1, <1>2

\* A step in time keeps what is known of a link.
LEMMA LinkKept ==
  ASSUME TypeInv, NEW o, Due(o), Guard(o), NEW r \in LinkRow, LinkOf(r, ticket, price),
         r.row \in TableOf(r.kind)
  PROVE  LinkOf(r, ticket', price')
<1> DEFINE t == r.row
<1>1. CASE r.kind = "SAMPLE" /\ Past(r, ticket[t])
  <2>1. t \in DOMAIN ticket
    BY <1>1 DEF TableOf
  <2>2. ticket[t] \in TicketRow /\ TicketBy(o, t, ticket'[t])
    BY <2>1, RowTypes, WriteIs DEF TypeInv, Due, TicketRows
  <2>3. Past(r, ticket'[t])
    BY <1>1, <2>1, <2>2, PastStays
  <2> QED BY <1>1, <2>3 DEF LinkOf
<1>2. CASE /\ r.kind = "SAMPLE" /\ ticket[t].status = "SAMPLE_SENT" /\ ticket[t].revision_index = r.revision
           /\ r.made_for = Cardinality(PricesIn(price, t, r.revision + 1))
  <2>1. t \in DOMAIN ticket
    BY <1>2 DEF TableOf
  <2>2. ticket[t] \in TicketRow /\ TicketBy(o, t, ticket'[t])
    BY <2>1, RowTypes, WriteIs DEF TypeInv, Due, TicketRows
  <2>3. Past(r, ticket'[t]) \/ (ticket'[t].status = "SAMPLE_SENT" /\ ticket'[t].revision_index = r.revision)
    BY <1>2, <2>1, <2>2, SentStays
  <2>4. PricesIn(price', t, r.revision + 1) = PricesIn(price, t, r.revision + 1)
    BY <1>2, <2>1, PricesStay
  <2> QED BY <1>2, <2>3, <2>4 DEF LinkOf
<1>3. CASE r.kind # "SAMPLE"
  BY <1>3 DEF LinkOf
<1> QED BY <1>1, <1>2, <1>3 DEF LinkOf

\* What a link is made for is what it will be compared with.
LEMMA LinkStarts ==
  ASSUME TypeInv, NEW kind \in {"SAMPLE", "DUMMY", "MOU"}, NEW row \in TableOf(kind), ClientApproval(kind, row),
         NEW r \in LinkRow, r.kind = kind, r.row = row,
         r.revision = LinkTarget(kind, row)[2], r.made_for = Shown(kind, row)
  PROVE  LinkOf(r, ticket, price)
<1>1. CASE kind = "SAMPLE"
  BY <1>1 DEF ClientApproval, LinkTarget, Shown, Prices, PricesIn, LinkOf
<1>2. CASE kind = "DUMMY"
  BY <1>2 DEF LinkTarget, Shown, LinkOf
<1> QED BY <1>1, <1>2 DEF LinkOf

LEMMA LinkStep == TypeInv /\ (~ raced => LinkInv) /\ [Next]_vars => (~ raced' => LinkInv')
<1> SUFFICES ASSUME TypeInv, ~ raced => LinkInv, [Next]_vars, ~ raced' PROVE LinkInv'
  OBVIOUS
<1>0. LinkInv
  BY StepIs
<1>t. \A l \in DOMAIN link : link[l] \in LinkRow /\ link[l].row \in TableOf(link[l].kind)
  BY LinkTypes DEF TypeInv, Around
<1>o. ASSUME NEW o, Due(o), Guard(o)
      PROVE  \A l \in DOMAIN link : LinkOf(link[l], ticket', price')
  BY <1>0, <1>t, <1>o, LinkKept DEF LinkInv
<1>l. ASSUME \A l \in DOMAIN link : LinkOf(link[l], ticket', price'), DOMAIN link' = DOMAIN link,
             \A k \in DOMAIN link : /\ link'[k].kind = link[k].kind /\ link'[k].row = link[k].row
                                    /\ link'[k].revision = link[k].revision /\ link'[k].made_for = link[k].made_for
      PROVE  LinkInv'
  BY <1>l DEF LinkInv, LinkOf, Past
<1>s. ASSUME UNCHANGED <<ticket, price>>
      PROVE  \A l \in DOMAIN link : LinkOf(link[l], ticket', price')
  BY <1>0, <1>s DEF LinkInv
<1>1. CASE Handle
  <2>1. (\E o : Due(o) /\ Guard(o)) /\ link' = link
    BY <1>1, HandleIs DEF around
  <2> QED BY <1>o, <2>1 DEF LinkInv
<1>2. ASSUME NEW d \in Desk, CreateApprovalLink(d) PROVE LinkInv'
  <2>1. PICK kind \in {"SAMPLE", "DUMMY", "MOU"} : \E row \in TableOf(kind) : \E r \in LinkRow :
           /\ link' = Append(link, r) /\ r.kind = kind /\ r.row = row
           /\ ClientApproval(kind, row)
           /\ r.revision = LinkTarget(kind, row)[2] /\ r.made_for = Shown(kind, row) /\ r.state = "LIVE"
    BY <1>2, LinkMade
  <2>2. PICK r \in LinkRow : link' = Append(link, r) /\ LinkOf(r, ticket, price)
    BY <2>1, LinkStarts
  <2>3. UNCHANGED <<ticket, price>>
    BY <1>2 DEF CreateApprovalLink, rows
  <2>4. /\ DOMAIN link' = DOMAIN link \cup {Len(link) + 1}
        /\ link'[Len(link) + 1] = r /\ \A j \in DOMAIN link : link'[j] = link[j]
    BY <2>2, Add DEF TypeInv, Around
  <2> QED BY <1>0, <2>2, <2>3, <2>4 DEF LinkInv
<1>3. ASSUME NEW d \in Desk, RevokeOthers(d) PROVE LinkInv'
  <2>1. UNCHANGED <<ticket, price>>
    BY <1>3 DEF RevokeOthers, rows
  <2> QED BY <1>3, <1>l, <1>s, <2>1, LinksRevoked
<1>4. CASE \E d \in Device : Fill(d) \/ Refuse(d) \/ Pass(d)
  BY <1>0, <1>4 DEF Fill, Refuse, Pass, rows, around, LinkInv
<1>5. ASSUME NEW d \in Device, Commit(d) PROVE LinkInv'
  <2>1. Due(form[d]) /\ Guard(form[d]) /\ link' = link
    BY <1>5, CommitIs DEF around
  <2> QED BY <1>o, <2>1 DEF LinkInv
<1>6. ASSUME NEW l \in DOMAIN link, RespondApproval(l) PROVE LinkInv'
  <2>1. (\E o : Due(o) /\ Guard(o)) /\ link' = [link EXCEPT ![l].state = "USED"]
    BY <1>6, RespondIs
  <2>2. /\ DOMAIN link' = DOMAIN link
        /\ \A k \in DOMAIN link : /\ link'[k].kind = link[k].kind /\ link'[k].row = link[k].row
                                  /\ link'[k].revision = link[k].revision /\ link'[k].made_for = link[k].made_for
    BY <2>1, LinkPut DEF TypeInv
  <2> QED BY <1>o, <1>l, <2>1, <2>2
<1>7. ASSUME NEW l \in DOMAIN link, LinkExpires(l) PROVE LinkInv'
  <2>1. link' = [link EXCEPT ![l].state = "EXPIRED"] /\ UNCHANGED <<ticket, price>>
    BY <1>7 DEF LinkExpires, rows
  <2>2. /\ DOMAIN link' = DOMAIN link
        /\ \A k \in DOMAIN link : /\ link'[k].kind = link[k].kind /\ link'[k].row = link[k].row
                                  /\ link'[k].revision = link[k].revision /\ link'[k].made_for = link[k].made_for
    BY <2>1, LinkPut DEF TypeInv
  <2> QED BY <1>s, <1>l, <2>1, <2>2
<1>8. CASE FeeMoves \/ QuotaChanges \/ UNCHANGED vars
  BY <1>0, <1>8 DEF FeeMoves, QuotaChanges, vars, rows, around, LinkInv
<1> QED BY <1>1, <1>2, <1>3, <1>4, <1>5, <1>6, <1>7, <1>8 DEF Next, ApprovePage

\* The link that is used is the one answered through.
LEMMA LinkUsed ==
  ASSUME TypeInv, [Next]_vars, NEW k \in DOMAIN link, link'[k].state = "USED", link[k].state # "USED"
  PROVE  LinkTarget(link[k].kind, link[k].row) = <<link[k].status, link[k].revision>>
<1>1. CASE \E d \in Desk : CreateApprovalLink(d)
  <2>1. PICK d \in Desk : CreateApprovalLink(d)
    BY <1>1
  <2>2. PICK r \in LinkRow : link' = Append(link, r)
    BY <2>1, LinkMade
  <2>3. link'[k] = link[k]
    BY <2>2, Add DEF TypeInv, Around
  <2> QED BY <2>3
<1>2. CASE \E d \in Desk : RevokeOthers(d)
  <2>1. link'[k].state \in {link[k].state, "REVOKED"}
    BY <1>2, LinksRevoked
  <2> QED BY <2>1
<1>3. ASSUME NEW l \in DOMAIN link, RespondApproval(l)
      PROVE  LinkTarget(link[k].kind, link[k].row) = <<link[k].status, link[k].revision>>
  <2>1. /\ LinkTarget(link[l].kind, link[l].row) = <<link[l].status, link[l].revision>>
        /\ link' = [link EXCEPT ![l].state = "USED"]
    BY <1>3, RespondIs
  <2>2. k = l
    BY <2>1, LinkPut DEF TypeInv
  <2> QED BY <2>1, <2>2
<1>4. CASE \E l \in DOMAIN link : LinkExpires(l)
  <2>1. PICK l \in DOMAIN link : LinkExpires(l)
    BY <1>4
  <2>2. link' = [link EXCEPT ![l].state = "EXPIRED"]
    BY <2>1 DEF LinkExpires
  <2>3. link[l] \in LinkRow
    BY LinkTypes DEF TypeInv
  <2> QED BY <2>2, <2>3 DEF LinkRow
<1>5. CASE Handle \/ FeeMoves \/ QuotaChanges \/ UNCHANGED vars \/ \E d \in Device : Fill(d) \/ Refuse(d) \/ Pass(d) \/ Commit(d)
  BY <1>5 DEF Handle, FeeMoves, QuotaChanges, vars, around, Fill, Refuse, Pass, Commit
<1> QED BY <1>1, <1>2, <1>3, <1>4, <1>5 DEF Next, ApprovePage

LEMMA AnswerFits ==
  ASSUME TypeInv, ~ raced => LinkInv, [Next]_vars
  PROVE  \A l \in DOMAIN link : link[l].kind # "MOU" /\ link'[l].state = "USED" /\ link[l].state # "USED"
           => raced \/ link[l].made_for = Shown(link[l].kind, link[l].row)
<1> SUFFICES ASSUME NEW l \in DOMAIN link, link[l].kind # "MOU", link'[l].state = "USED", link[l].state # "USED",
                    ~ raced
             PROVE  link[l].made_for = Shown(link[l].kind, link[l].row)
  BY Zenon
<1>1. LinkTarget(link[l].kind, link[l].row) = <<link[l].status, link[l].revision>>
  BY LinkUsed
<1>2. link[l] \in LinkRow /\ LinkOf(link[l], ticket, price)
  BY LinkTypes DEF TypeInv, LinkInv
<1>3. CASE link[l].kind = "SAMPLE"
  <2> DEFINE t == link[l].row
  <2>1. ticket[t].status = link[l].status /\ ticket[t].revision_index = link[l].revision
    BY <1>1, <1>3 DEF LinkTarget
  <2>2. link[l].status \in {"SAMPLE_SENT", "DUMMY_SENT", "SENT"} /\ link[l].revision \in Nat
    BY <1>2 DEF LinkRow
  <2>3. ~ Past(link[l], ticket[t])
    BY <2>1, <2>2 DEF Past, Terminal, Closed
  <2>4. link[l].made_for = Cardinality(PricesIn(price, t, link[l].revision + 1))
    BY <1>2, <1>3, <2>3 DEF LinkOf
  <2> QED BY <1>3, <2>1, <2>4 DEF Shown, Prices, PricesIn
<1>4. CASE link[l].kind = "DUMMY"
  BY <1>1, <1>2, <1>4 DEF LinkTarget, LinkOf, Shown
<1> QED BY <1>2, <1>3, <1>4 DEF LinkRow

\* An answer through a link for a sample or a dummy is recorded for the prices, or the
\* round of the dummy, that were there when the link was made.
THEOREM LinkAnswers == Spec => LinkAnswersWhatWasSent
<1>1. Init => (~ raced => LinkInv)
  BY DEF Init, LinkInv
<1>2. TypeInv /\ (~ raced => LinkInv) /\ [Next]_vars =>
        [\A l \in DOMAIN link : link[l].kind # "MOU" /\ link'[l].state = "USED" /\ link[l].state # "USED"
           => raced \/ link[l].made_for = Shown(link[l].kind, link[l].row)]_vars
  BY AnswerFits, Zenon
<1> QED BY <1>1, <1>2, TypeInit, TypeStep, LinkStep, PTL DEF Spec, LinkAnswersWhatWasSent
=============================================================================
