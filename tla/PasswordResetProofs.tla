------------------------- MODULE PasswordResetProofs -------------------------
(* Proofs about PasswordReset, for every number of accounts, tabs, requests and codes. *)
EXTENDS PasswordReset, FiniteSetTheorems, TLAPS

---------------------------------------------------------------------------
(* Rows and statements *)

RequestRows == [status : Rows \cup {"None", "Deleted"}, operator : Operators,
                delivery : {"", "Awaiting Approval", "Approved", "Sent", "Failed"},
                expired : BOOLEAN, token : BOOLEAN,
                attempts : 0 .. MaxAttempts, swaps : 0 .. MaxSwaps]
AccountRows == [password : Nat \ {0}, codes : SUBSET Codes, sheets : 1 .. MaxSheets]
SessionRows == [password : Nat, late : BOOLEAN]

AccountJobs == [step : {"cancel", "insert", "password", "revoke"}, operator : Operators]
RequestJobs == [step : {"swap", "verdict", "mail", "approve", "expire", "consume"}, request : Requests]
ReceiptJobs == [step : {"receipt"}, request : Requests, delivered : BOOLEAN]
RecodeJobs == [step : {"recode"}, operator : Operators, code : Codes, left : SUBSET Codes]
SignInJobs == [step : {"sign-in"}, operator : Operators, password : Nat]

Typed ==
  /\ account \in [Operators -> AccountRows]
  /\ request \in [Requests -> RequestRows]
  /\ session \in [Operators -> SessionRows]
  /\ challenge \in [Tabs -> 0 .. MaxRequests]
  /\ job \in [Tabs -> Jobs]
  /\ held \subseteq Requests /\ revived \subseteq Requests
  /\ uses \in [Requests -> Nat]
  /\ spent \subseteq Operators \X Codes /\ putBack \subseteq Operators \X Codes
  /\ cut \subseteq Operators

LEMMA TypedIs == Typed <=> TypeOK
BY DEF Typed, TypeOK, RequestRows, AccountRows, SessionRows

LEMMA JobsAre == Jobs = {Idle} \cup AccountJobs \cup RequestJobs \cup ReceiptJobs \cup RecodeJobs \cup SignInJobs
BY DEF Jobs, AccountJobs, RequestJobs, ReceiptJobs, RecodeJobs, SignInJobs

LEMMA Bounds ==
  /\ MaxRequests \in Nat /\ MaxRequests >= 1 /\ MaxSheets \in Nat /\ MaxSheets >= 1
  /\ SheetSize \in Nat /\ MaxAttempts \in Nat /\ MaxAttempts >= 1 /\ MaxSwaps \in Nat
<1>1. /\ MaxRequests \in Nat \ {0} /\ MaxSheets \in Nat \ {0} /\ SheetSize \in Nat \ {0}
      /\ MaxAttempts \in Nat \ {0} /\ MaxSwaps \in Nat
  BY PasswordResetAssumption
<1> QED BY <1>1

LEMMA NoRowIs ==
  /\ NoRow \in RequestRows
  /\ NoRow.status = "None" /\ NoRow.attempts = 0 /\ NoRow.swaps = 0
<1>1. (CHOOSE o \in Operators : TRUE) \in Operators
  BY PasswordResetAssumption
<1>2. 0 \in 0 .. MaxAttempts /\ 0 \in 0 .. MaxSwaps
  BY Bounds
<1> QED BY <1>1, <1>2 DEF NoRow, RequestRows

\* What a step name says of the record that carries it.
LEMMA JobOf ==
  ASSUME Typed, NEW t \in Tabs
  PROVE  /\ At(t, "cancel") \/ At(t, "insert") \/ At(t, "password") \/ At(t, "revoke")
              => job[t] \in AccountJobs /\ job[t].operator \in Operators
         /\ At(t, "swap") \/ At(t, "verdict") \/ At(t, "mail") \/ At(t, "approve")
              \/ At(t, "expire") \/ At(t, "consume")
              => job[t] \in RequestJobs /\ job[t].request \in Requests
         /\ At(t, "receipt") => job[t] \in ReceiptJobs /\ job[t].request \in Requests
         /\ At(t, "recode") => job[t] \in RecodeJobs /\ job[t].operator \in Operators
         /\ At(t, "sign-in") => job[t] \in SignInJobs /\ job[t].operator \in Operators
<1> DEFINE j == job[t]
<1>1. j \in {Idle} \cup AccountJobs \cup RequestJobs \cup ReceiptJobs \cup RecodeJobs \cup SignInJobs
  BY JobsAre DEF Typed
<1>2. /\ j = Idle => j.step = "idle"
      /\ j \in AccountJobs => j.step \in {"cancel", "insert", "password", "revoke"} /\ j.operator \in Operators
      /\ j \in RequestJobs => /\ j.step \in {"swap", "verdict", "mail", "approve", "expire", "consume"}
                              /\ j.request \in Requests
  BY DEF Idle, AccountJobs, RequestJobs
<1>3. /\ j \in ReceiptJobs => j.step = "receipt" /\ j.request \in Requests
      /\ j \in RecodeJobs => j.step = "recode" /\ j.operator \in Operators
      /\ j \in SignInJobs => j.step = "sign-in" /\ j.operator \in Operators
  BY DEF ReceiptJobs, RecodeJobs, SignInJobs
<1> HIDE DEF j
<1>4. /\ j.step \in {"cancel", "insert", "password", "revoke"} =>
           j \in AccountJobs /\ j.operator \in Operators
      /\ j.step \in {"swap", "verdict", "mail", "approve", "expire", "consume"} =>
           j \in RequestJobs /\ j.request \in Requests
  BY <1>1, <1>2, <1>3
<1>5. /\ j.step = "receipt" => j \in ReceiptJobs /\ j.request \in Requests
      /\ j.step = "recode" => j \in RecodeJobs /\ j.operator \in Operators
      /\ j.step = "sign-in" => j \in SignInJobs /\ j.operator \in Operators
  BY <1>1, <1>2, <1>3
<1> QED BY <1>4, <1>5 DEF At, j

\* The records a handler goes on with.
LEMMA Records ==
  /\ Idle \in Jobs /\ Idle.step = "idle"
  /\ \A o \in Operators, name \in {"cancel", "insert", "password", "revoke"} :
        StepOf(name, o) \in Jobs /\ StepOf(name, o).step = name /\ StepOf(name, o).operator = o
  /\ \A r \in Requests, name \in {"swap", "verdict", "mail", "approve", "expire", "consume"} :
        Step(name, r) \in Jobs /\ Step(name, r).step = name /\ Step(name, r).request = r
  /\ \A r \in Requests, d \in BOOLEAN : [step |-> "receipt", request |-> r, delivered |-> d] \in Jobs
  /\ \A o \in Operators, c \in Codes, left \in SUBSET Codes :
        [step |-> "recode", operator |-> o, code |-> c, left |-> left] \in Jobs
  /\ \A o \in Operators, p \in Nat : [step |-> "sign-in", operator |-> o, password |-> p] \in Jobs
<1>1. Idle \in Jobs /\ Idle.step = "idle"
  BY JobsAre DEF Idle
<1>2. \A o \in Operators, name \in {"cancel", "insert", "password", "revoke"} :
        StepOf(name, o) \in AccountJobs /\ StepOf(name, o).step = name /\ StepOf(name, o).operator = o
  BY DEF StepOf, AccountJobs
<1>3. \A r \in Requests, name \in {"swap", "verdict", "mail", "approve", "expire", "consume"} :
        Step(name, r) \in RequestJobs /\ Step(name, r).step = name /\ Step(name, r).request = r
  BY DEF Step, RequestJobs
<1>4. \A r \in Requests, d \in BOOLEAN : [step |-> "receipt", request |-> r, delivered |-> d] \in ReceiptJobs
  BY DEF ReceiptJobs
<1>5. \A o \in Operators, c \in Codes, left \in SUBSET Codes :
        [step |-> "recode", operator |-> o, code |-> c, left |-> left] \in RecodeJobs
  BY DEF RecodeJobs
<1>6. \A o \in Operators, p \in Nat : [step |-> "sign-in", operator |-> o, password |-> p] \in SignInJobs
  BY DEF SignInJobs
<1> QED BY <1>1, <1>2, <1>3, <1>4, <1>5, <1>6, JobsAre

LEMMA JobStep ==
  ASSUME Typed, NEW t \in Tabs, NEW j, Go(t, j)
  PROVE  /\ job'[t] = j
         /\ \A u \in Tabs : u # t => job'[u] = job[u]
         /\ j \in Jobs => job' \in [Tabs -> Jobs]
BY DEF Typed, Go

LEMMA Updated ==
  ASSUME Typed, NEW r \in Requests, NEW states, NEW row, Update(r, states, row)
  PROVE  /\ \A q \in Requests : q # r => request'[q] = request[q]
         /\ request[r].status \in states => request'[r] = row
         /\ request[r].status \notin states => request'[r] = request[r]
         /\ row \in RequestRows => request' \in [Requests -> RequestRows]
BY DEF Typed, Update

---------------------------------------------------------------------------
(* What the statements do to a request *)

Closed == Finished \cup {"Deleted"}

\* A request is neither created nor forgotten, and keeps its counters.
Known(a, b) == a.status = "None" <=> b.status = "None"
Counted(a, b) == b.attempts = a.attempts /\ b.swaps = a.swaps
\* A closed request is not opened.
Shut(a, b) == a.status \in Closed => b.status \notin Open

\* A tab that shows the challenge of a request, or has sent the recording for it.
Claims(t, r) == challenge[t] = r \/ (At(t, "verdict") /\ job[t].request = r)

\* One recording is sent for a request, by the tab that opened it; and a
\* replacement is written by the tab that still shows the challenge.
ClaimInv ==
  /\ \A r \in Requests : \A t, u \in Tabs : Claims(t, r) /\ Claims(u, r) => t = u
  /\ \A r \in Requests : \A t \in Tabs : Claims(t, r) =>
        request[r].status # "None" /\ request[r].attempts = 0
  /\ \A t \in Tabs : At(t, "swap") =>
        challenge[t] = job[t].request /\ request[job[t].request].swaps < MaxSwaps
  /\ \A t \in Tabs : At(t, "verdict") => challenge[t] = 0

LEMMA RowFields ==
  ASSUME NEW a \in RequestRows
  PROVE  /\ \A s \in Rows \cup {"Deleted"} :
              /\ [a EXCEPT !.status = s] \in RequestRows
              /\ [a EXCEPT !.status = s].status = s
              /\ Counted(a, [a EXCEPT !.status = s])
         /\ [a EXCEPT !.expired = TRUE] \in RequestRows
         /\ [a EXCEPT !.expired = TRUE].status = a.status
         /\ Counted(a, [a EXCEPT !.expired = TRUE])
         /\ LET b == [a EXCEPT !.status = "Sent", !.delivery = "Approved", !.token = TRUE,
                               !.expired = FALSE]
            IN  b \in RequestRows /\ b.status = "Sent" /\ Counted(a, b)
<1>1. ASSUME NEW s \in Rows \cup {"Deleted"}
      PROVE  /\ [a EXCEPT !.status = s] \in RequestRows
             /\ [a EXCEPT !.status = s].status = s
             /\ Counted(a, [a EXCEPT !.status = s])
  BY DEF RequestRows, Counted
<1>2. /\ [a EXCEPT !.expired = TRUE] \in RequestRows
      /\ [a EXCEPT !.expired = TRUE].status = a.status
      /\ Counted(a, [a EXCEPT !.expired = TRUE])
  BY DEF RequestRows, Counted
<1> DEFINE b == [a EXCEPT !.status = "Sent", !.delivery = "Approved", !.token = TRUE, !.expired = FALSE]
<1>3. b \in RequestRows /\ b.status = "Sent" /\ Counted(a, b)
  BY DEF RequestRows, Counted, Rows, Open
<1> HIDE DEF b
<1> QED BY <1>1, <1>2, <1>3 DEF b

\* Receipts: the status is set whatever it was.
LEMMA ReceiptFields ==
  ASSUME NEW a \in RequestRows
  PROVE  /\ [a EXCEPT !.status = "Sent", !.delivery = "Sent"] \in RequestRows
         /\ [a EXCEPT !.status = "Sent", !.delivery = "Sent"].status = "Sent"
         /\ Counted(a, [a EXCEPT !.status = "Sent", !.delivery = "Sent"])
         /\ [a EXCEPT !.status = "Cancelled", !.delivery = "Failed"] \in RequestRows
         /\ [a EXCEPT !.status = "Cancelled", !.delivery = "Failed"].status = "Cancelled"
         /\ Counted(a, [a EXCEPT !.status = "Cancelled", !.delivery = "Failed"])
BY DEF RequestRows, Counted, Rows, Open, Finished

\* Statements that count: a replaced challenge, a verdict.
LEMMA CountFields ==
  ASSUME NEW a \in RequestRows
  PROVE  /\ a.swaps < MaxSwaps =>
              /\ [a EXCEPT !.swaps = @ + 1] \in RequestRows
              /\ [a EXCEPT !.swaps = @ + 1].status = a.status
              /\ [a EXCEPT !.swaps = @ + 1].attempts = a.attempts
         /\ a.attempts = 0 =>
              /\ LET b == [a EXCEPT !.attempts = a.attempts + 1,
                                    !.status = IF a.attempts + 1 >= MaxAttempts THEN "Cancelled" ELSE @]
                 IN  a.status \in Rows => b \in RequestRows /\ b.swaps = a.swaps
                                            /\ b.status \in {a.status, "Cancelled"}
              /\ LET b == [a EXCEPT !.delivery = "Awaiting Approval", !.expired = FALSE, !.attempts = @ + 1]
                 IN  b \in RequestRows /\ b.swaps = a.swaps /\ b.status = a.status
              /\ LET b == [a EXCEPT !.status = "Sent", !.token = TRUE, !.expired = FALSE, !.attempts = @ + 1]
                 IN  b \in RequestRows /\ b.swaps = a.swaps /\ b.status = "Sent"
<1>1. ASSUME a.swaps < MaxSwaps
      PROVE  /\ [a EXCEPT !.swaps = @ + 1] \in RequestRows
             /\ [a EXCEPT !.swaps = @ + 1].status = a.status
             /\ [a EXCEPT !.swaps = @ + 1].attempts = a.attempts
  <2>1. a.swaps + 1 \in 0 .. MaxSwaps
    <3>1. a.swaps \in 0 .. MaxSwaps
      BY DEF RequestRows
    <3> QED BY <1>1, <3>1, Bounds
  <2> QED BY <2>1 DEF RequestRows
<1>2. ASSUME a.attempts = 0
      PROVE  a.attempts + 1 = 1 /\ 1 \in 0 .. MaxAttempts
  BY <1>2, Bounds
<1>3. ASSUME a.attempts = 0, a.status \in Rows
      PROVE  LET b == [a EXCEPT !.attempts = a.attempts + 1,
                                !.status = IF a.attempts + 1 >= MaxAttempts THEN "Cancelled" ELSE @]
             IN  b \in RequestRows /\ b.swaps = a.swaps /\ b.status \in {a.status, "Cancelled"}
  BY <1>2, <1>3 DEF RequestRows, Rows, Finished
<1>4. ASSUME a.attempts = 0
      PROVE  LET b == [a EXCEPT !.delivery = "Awaiting Approval", !.expired = FALSE, !.attempts = @ + 1]
             IN  b \in RequestRows /\ b.swaps = a.swaps /\ b.status = a.status
  BY <1>2, <1>4 DEF RequestRows
<1>5. ASSUME a.attempts = 0
      PROVE  LET b == [a EXCEPT !.status = "Sent", !.token = TRUE, !.expired = FALSE, !.attempts = @ + 1]
             IN  b \in RequestRows /\ b.swaps = a.swaps /\ b.status = "Sent"
  BY <1>2, <1>5 DEF RequestRows, Rows, Open
<1> QED BY <1>1, <1>3, <1>4, <1>5

Quiet(q) == Known(request[q], request'[q]) /\ Counted(request[q], request'[q])
              /\ Shut(request[q], request'[q])

LEMMA StatusSets ==
  /\ \A s \in Rows \cup {"Deleted"} : s # "None"
  /\ \A s \in Closed : s \notin Open /\ s # "Pending Verification" /\ s # "Sent"
  /\ Open \subseteq Rows /\ "Pending Verification" \in Open /\ "Sent" \in Open
  /\ Finished \subseteq Rows /\ {"Used", "Expired", "Cancelled"} = Finished
  /\ "Deleted" \notin Open /\ "Deleted" \in Closed /\ Finished \subseteq Closed
BY DEF Rows, Open, Finished, Closed

\* One row is written, and only while its status allows it.
LEMMA OneRowQuiet ==
  ASSUME Typed, NEW r \in Requests, NEW states, states \subseteq Rows, NEW row,
         Update(r, states, row),
         request[r].status \in states =>
           row \in RequestRows /\ Counted(request[r], row)
             /\ row.status \in Rows /\ Shut(request[r], row)
  PROVE  request' \in [Requests -> RequestRows] /\ \A q \in Requests : Quiet(q)
<1>1. \A q \in Requests : Counted(request[q], request[q]) /\ Known(request[q], request[q])
                            /\ Shut(request[q], request[q])
  BY StatusSets DEF Counted, Known, Shut
<1>2. CASE request[r].status \in states
  <2>1. Known(request[r], row)
    BY <1>2, StatusSets DEF Known
  <2> QED BY <1>1, <1>2, <2>1, Updated DEF Quiet
<1>3. CASE request[r].status \notin states
  <2>1. request' = request
    BY <1>3 DEF Update
  <2> QED BY <1>1, <2>1 DEF Quiet, Typed
<1> QED BY <1>2, <1>3

LEMMA QuietSteps ==
  ASSUME Typed,
         \/ \E t \in Tabs : \/ MarkExpired(t) \/ CancelEarlier(t) \/ WriteApproval(t)
                           \/ ConsumeToken(t)
         \/ \E r \in Requests : DeletePasswordResetHistory(r) \/ PurgePasswordResetHistory(r)
         \/ \E r \in Requests : TimePasses(r)
  PROVE  request' \in [Requests -> RequestRows] /\ \A q \in Requests : Quiet(q)
<1>t. request \in [Requests -> RequestRows]
  BY DEF Typed
<1>1. ASSUME NEW t \in Tabs, MarkExpired(t)
      PROVE  request' \in [Requests -> RequestRows] /\ \A q \in Requests : Quiet(q)
  <2>1. job[t].request \in Requests
    BY <1>1, JobOf DEF MarkExpired
  <2>2. "Expired" \in Rows /\ "Expired" \notin Open
    BY StatusSets
  <2> DEFINE r == job[t].request
             row == [request[r] EXCEPT !.status = "Expired"]
  <2>3. row \in RequestRows /\ Counted(request[r], row) /\ row.status = "Expired"
    BY <1>t, <2>1, <2>2, RowFields
  <2>4. Update(r, Rows, row)
    BY <1>1 DEF MarkExpired
  <2> HIDE DEF row, r
  <2> QED BY <2>1, <2>2, <2>3, <2>4, OneRowQuiet DEF r, Shut
<1>2. ASSUME NEW t \in Tabs, CancelEarlier(t)
      PROVE  request' \in [Requests -> RequestRows] /\ \A q \in Requests : Quiet(q)
  <2>1. \A q \in Requests : request'[q] = request[q]
          \/ (request[q].status \in Open /\ request'[q] = [request[q] EXCEPT !.status = "Cancelled"])
    BY <1>2, Zenon DEF CancelEarlier
  <2>2. \A q \in Requests : LET b == [request[q] EXCEPT !.status = "Cancelled"]
                            IN  b \in RequestRows /\ b.status = "Cancelled" /\ Counted(request[q], b)
    BY <1>t, StatusSets, RowFields
  <2>3. ASSUME NEW q \in Requests PROVE request'[q] \in RequestRows /\ Quiet(q)
    <3>1. CASE request'[q] = request[q]
      BY <1>t, <3>1, StatusSets DEF Quiet, Known, Counted, Shut
    <3>2. CASE request[q].status \in Open /\ request'[q] = [request[q] EXCEPT !.status = "Cancelled"]
      BY <2>2, <3>2, StatusSets DEF Quiet, Known, Shut
    <3> QED BY <2>1, <3>1, <3>2
  <2>4. request' = [q \in Requests |-> request'[q]]
    BY <1>2 DEF CancelEarlier
  <2> QED BY <2>3, <2>4
<1>3. ASSUME NEW t \in Tabs, WriteApproval(t)
      PROVE  request' \in [Requests -> RequestRows] /\ \A q \in Requests : Quiet(q)
  <2>1. job[t].request \in Requests
    BY <1>3, JobOf DEF WriteApproval
  <2> DEFINE r == job[t].request
             row == [request[r] EXCEPT !.status = "Sent", !.delivery = "Approved",
                                       !.token = TRUE, !.expired = FALSE]
  <2>2. row \in RequestRows /\ Counted(request[r], row) /\ row.status = "Sent"
    BY <1>t, <2>1, RowFields
  <2>3. Update(r, {"Pending Verification"}, row)
    BY <1>3 DEF WriteApproval
  <2>4. request[r].status = "Pending Verification" => Shut(request[r], row)
    BY StatusSets DEF Shut
  <2>5. {"Pending Verification"} \subseteq Rows /\ "Sent" \in Rows
    BY StatusSets
  <2> HIDE DEF row, r
  <2> QED BY <2>1, <2>2, <2>3, <2>4, <2>5, OneRowQuiet DEF r
<1>4. ASSUME NEW t \in Tabs, ConsumeToken(t)
      PROVE  request' \in [Requests -> RequestRows] /\ \A q \in Requests : Quiet(q)
  <2>1. job[t].request \in Requests
    BY <1>4, JobOf DEF ConsumeToken
  <2> DEFINE r == job[t].request
             row == [request[r] EXCEPT !.status = "Used"]
  <2>2. {"Sent"} \subseteq Rows /\ "Used" \in Rows /\ "Used" \notin Open
    BY StatusSets
  <2>3. row \in RequestRows /\ Counted(request[r], row) /\ row.status = "Used"
    BY <1>t, <2>1, <2>2, RowFields
  <2>4. Update(r, {"Sent"}, row)
    BY <1>4 DEF ConsumeToken
  <2> HIDE DEF row, r
  <2> QED BY <2>1, <2>2, <2>3, <2>4, OneRowQuiet DEF r, Shut
<1>5. ASSUME NEW r \in Requests, DeletePasswordResetHistory(r) \/ PurgePasswordResetHistory(r)
      PROVE  request' \in [Requests -> RequestRows] /\ \A q \in Requests : Quiet(q)
  <2>1. \A q \in Requests : request'[q] = request[q]
          \/ (request[q].status \in Rows /\ request'[q] = [request[q] EXCEPT !.status = "Deleted"])
    BY <1>5, <1>t, StatusSets DEF DeletePasswordResetHistory, PurgePasswordResetHistory
  <2>2. \A q \in Requests : LET b == [request[q] EXCEPT !.status = "Deleted"]
                            IN  b \in RequestRows /\ b.status = "Deleted" /\ Counted(request[q], b)
    BY <1>t, RowFields
  <2>3. ASSUME NEW q \in Requests PROVE request'[q] \in RequestRows /\ Quiet(q)
    <3>1. CASE request'[q] = request[q]
      BY <1>t, <3>1, StatusSets DEF Quiet, Known, Counted, Shut
    <3>2. CASE request[q].status \in Rows /\ request'[q] = [request[q] EXCEPT !.status = "Deleted"]
      BY <2>2, <3>2, StatusSets DEF Quiet, Known, Shut
    <3> QED BY <2>1, <3>1, <3>2
  <2>4. request' = [q \in Requests |-> request'[q]]
    BY <1>5, <1>t DEF DeletePasswordResetHistory, PurgePasswordResetHistory
  <2> QED BY <2>3, <2>4
<1>6. ASSUME NEW r \in Requests, TimePasses(r)
      PROVE  request' \in [Requests -> RequestRows] /\ \A q \in Requests : Quiet(q)
  <2> DEFINE row == [request[r] EXCEPT !.expired = TRUE]
  <2>1. row \in RequestRows /\ row.status = request[r].status /\ Counted(request[r], row)
    BY <1>t, RowFields
  <2>2. request' = [request EXCEPT ![r] = row]
    BY <1>6, <1>t DEF TimePasses
  <2> HIDE DEF row
  <2>3. \A q \in Requests : Counted(request[q], request[q]) /\ Known(request[q], request[q])
                              /\ Shut(request[q], request[q])
    BY StatusSets DEF Counted, Known, Shut
  <2>4. Known(request[r], row) /\ Shut(request[r], row)
    BY <2>1, <2>3 DEF Known, Shut
  <2> QED BY <1>t, <2>1, <2>2, <2>3, <2>4 DEF Quiet
<1> QED BY <1>1, <1>2, <1>3, <1>4, <1>5, <1>6

\* A late receipt may open a closed request: revived notes it.
LEMMA ReceiptStep ==
  ASSUME Typed, NEW t \in Tabs, WriteReceipt(t)
  PROVE  /\ request' \in [Requests -> RequestRows] /\ revived \subseteq revived' /\ revived' \subseteq Requests
         /\ \A q \in Requests : /\ Known(request[q], request'[q]) /\ Counted(request[q], request'[q])
                                /\ q \notin revived' => Shut(request[q], request'[q])
<1> DEFINE r == job[t].request
           d == job[t].delivered
           row == [request[r] EXCEPT !.status = IF d THEN "Sent" ELSE "Cancelled",
                                     !.delivery = IF d THEN "Sent" ELSE "Failed"]
<1>1. r \in Requests /\ d \in BOOLEAN
  BY JobOf DEF WriteReceipt, ReceiptJobs
<1>2. request \in [Requests -> RequestRows]
  BY DEF Typed
<1>3. /\ row \in RequestRows /\ Counted(request[r], row)
      /\ d => row.status = "Sent"
      /\ ~ d => row.status = "Cancelled"
  <2>1. request[r] \in RequestRows
    BY <1>1, <1>2
  <2>2. d => row = [request[r] EXCEPT !.status = "Sent", !.delivery = "Sent"]
    OBVIOUS
  <2>3. ~ d => row = [request[r] EXCEPT !.status = "Cancelled", !.delivery = "Failed"]
    OBVIOUS
  <2> HIDE DEF row, r, d
  <2> QED BY <1>1, <2>1, <2>2, <2>3, ReceiptFields
<1>4. Update(r, Rows, row) /\ revived' = IF d /\ request[r].status \in Finished
                                         THEN revived \cup {r} ELSE revived
  BY DEF WriteReceipt
<1> HIDE DEF row, r, d
<1>5. /\ \A q \in Requests : q # r => request'[q] = request[q]
      /\ request[r].status \in Rows => request'[r] = row
      /\ request[r].status \notin Rows => request'[r] = request[r]
      /\ request' \in [Requests -> RequestRows]
  BY <1>1, <1>3, <1>4, Updated
<1>6. \A q \in Requests : request'[q] = request[q] =>
        Known(request[q], request'[q]) /\ Counted(request[q], request'[q]) /\ Shut(request[q], request'[q])
  BY StatusSets DEF Counted, Known, Shut
<1>7. request[r].status \in Rows =>
        /\ Known(request[r], row) /\ Counted(request[r], row)
        /\ r \notin revived' => Shut(request[r], row)
  <2> SUFFICES ASSUME request[r].status \in Rows
               PROVE  /\ Known(request[r], row) /\ Counted(request[r], row)
                      /\ r \notin revived' => Shut(request[r], row)
    OBVIOUS
  <2>1. CASE d
    <3>1. request[r].status \in Finished => r \in revived'
      BY <1>4, <2>1
    <3>2. request[r].status \notin Finished => request[r].status \notin Closed
      BY DEF Rows, Open, Closed, Finished
    <3> QED BY <1>3, <2>1, <3>1, <3>2, StatusSets DEF Known, Shut
  <2>2. CASE ~ d
    BY <1>3, <2>2, StatusSets DEF Known, Shut
  <2> QED BY <1>1, <2>1, <2>2
<1>8. revived \subseteq revived' /\ revived' \subseteq Requests
  BY <1>1, <1>4 DEF Typed
<1> QED BY <1>1, <1>5, <1>6, <1>7, <1>8

\* A replaced challenge is counted, no other counter moves.
LEMMA SwapStep ==
  ASSUME Typed, ClaimInv, NEW t \in Tabs, WriteSwap(t)
  PROVE  /\ request' \in [Requests -> RequestRows]
         /\ \A q \in Requests : /\ Known(request[q], request'[q]) /\ Shut(request[q], request'[q])
                                /\ request'[q].attempts = request[q].attempts
                                /\ q # job[t].request => request'[q] = request[q]
<1> DEFINE r == job[t].request
           row == [request[r] EXCEPT !.swaps = @ + 1]
<1>1. r \in Requests /\ request[r].swaps < MaxSwaps
  BY JobOf DEF WriteSwap, ClaimInv
<1>2. request \in [Requests -> RequestRows]
  BY DEF Typed
<1>3. row \in RequestRows /\ row.status = request[r].status /\ row.attempts = request[r].attempts
  BY <1>1, <1>2, CountFields
<1>4. Update(r, {"Pending Verification"}, row)
  BY DEF WriteSwap
<1> HIDE DEF row, r
<1>5. /\ \A q \in Requests : q # r => request'[q] = request[q]
      /\ request'[r] = row \/ request'[r] = request[r]
      /\ request' \in [Requests -> RequestRows]
  BY <1>1, <1>3, <1>4, Updated
<1>6. \A q \in Requests : request'[q].status = request[q].status /\ request'[q].attempts = request[q].attempts
  BY <1>1, <1>3, <1>5
<1>7. \A q \in Requests : Known(request[q], request'[q]) /\ Shut(request[q], request'[q])
  BY <1>6, StatusSets DEF Known, Shut
<1> QED BY <1>5, <1>6, <1>7 DEF r

\* A verdict is counted on its request; on an open one only it changes the status.
LEMMA VerdictStep ==
  ASSUME Typed, ClaimInv, NEW t \in Tabs, VerdictFails(t) \/ AwaitApproval(t) \/ StoreToken(t)
  PROVE  /\ request' \in [Requests -> RequestRows]
         /\ \A q \in Requests : /\ Known(request[q], request'[q]) /\ Shut(request[q], request'[q])
                                /\ request'[q].swaps = request[q].swaps
                                /\ q # job[t].request => request'[q] = request[q]
<1> DEFINE r == job[t].request
<1>t. request \in [Requests -> RequestRows]
  BY DEF Typed
<1>1. r \in Requests /\ request[r].attempts = 0
  <2>1. At(t, "verdict")
    BY DEF VerdictFails, AwaitApproval, StoreToken
  <2> QED BY <2>1, JobOf DEF ClaimInv, Claims
<1>2. PICK states \in SUBSET Rows, row \in RequestRows \cup {request[r]} :
        /\ Update(r, states, row)
        /\ request[r].status \in states => /\ row \in RequestRows /\ row.swaps = request[r].swaps
                                           /\ \/ row.status \in {request[r].status, "Cancelled"}
                                              \/ request[r].status \in Open /\ row.status = "Sent"
  <2>1. CASE VerdictFails(t)
    <3> DEFINE b == [request[r] EXCEPT !.attempts = request[r].attempts + 1,
                       !.status = IF request[r].attempts + 1 >= MaxAttempts THEN "Cancelled" ELSE @]
    <3>1. request[r].status \in Rows =>
            b \in RequestRows /\ b.swaps = request[r].swaps /\ b.status \in {request[r].status, "Cancelled"}
      BY <1>t, <1>1, CountFields
    <3>2. Update(r, Rows, b)
      BY <2>1 DEF VerdictFails
    <3>3. CASE request[r].status \in Rows
      <4> HIDE DEF b, r
      <4> QED BY <3>1, <3>2, <3>3
    <3>4. CASE request[r].status \notin Rows
      <4>1. Update(r, Rows, request[r])
        BY <3>2, <3>4 DEF Update
      <4> HIDE DEF b, r
      <4> QED BY <3>4, <4>1
    <3> QED BY <3>3, <3>4
  <2>2. CASE AwaitApproval(t)
    <3> DEFINE b == [request[r] EXCEPT !.delivery = "Awaiting Approval", !.expired = FALSE, !.attempts = @ + 1]
    <3>1. b \in RequestRows /\ b.swaps = request[r].swaps /\ b.status = request[r].status
      BY <1>t, <1>1, CountFields
    <3>2. Update(r, {"Pending Verification"}, b)
      BY <2>2 DEF AwaitApproval
    <3>3. {"Pending Verification"} \in SUBSET Rows
      BY StatusSets
    <3> HIDE DEF b, r
    <3> QED BY <3>1, <3>2, <3>3
  <2>3. CASE StoreToken(t)
    <3> DEFINE b == [request[r] EXCEPT !.status = "Sent", !.token = TRUE, !.expired = FALSE, !.attempts = @ + 1]
    <3>1. b \in RequestRows /\ b.swaps = request[r].swaps /\ b.status = "Sent"
      BY <1>t, <1>1, CountFields
    <3>2. Update(r, {"Pending Verification"}, b)
      BY <2>3 DEF StoreToken
    <3>3. {"Pending Verification"} \in SUBSET Rows /\ "Pending Verification" \in Open
      BY StatusSets
    <3> HIDE DEF b, r
    <3> QED BY <3>1, <3>2, <3>3
  <2> QED BY <2>1, <2>2, <2>3
<1> HIDE DEF r
<1>3. \A q \in Requests : q # r => request'[q] = request[q]
  BY <1>1, <1>2, Updated
<1>4. request'[r] \in RequestRows /\ request'[r].swaps = request[r].swaps
        /\ Known(request[r], request'[r]) /\ Shut(request[r], request'[r])
  <2>1. CASE request[r].status \in states
    <3>1. request'[r] = row
      BY <1>1, <1>2, <2>1, Updated
    <3> QED BY <1>2, <2>1, <3>1, StatusSets DEF Known, Shut
  <2>2. CASE request[r].status \notin states
    <3>1. request'[r] = request[r]
      BY <1>1, <1>2, <2>2, Updated
    <3> QED BY <1>t, <1>1, <3>1, StatusSets DEF Known, Shut
  <2> QED BY <2>1, <2>2
<1>5. \A q \in Requests : request'[q] = request[q] => Known(request[q], request'[q]) /\ Shut(request[q], request'[q])
  BY StatusSets DEF Known, Shut
<1>6. request' \in [Requests -> RequestRows]
  <2>1. row \in RequestRows
    BY <1>t, <1>1, <1>2
  <2> QED BY <1>1, <1>2, <2>1, Updated
<1> QED BY <1>3, <1>4, <1>5, <1>6 DEF r

---------------------------------------------------------------------------
(* The steps *)

\* The statements that only begin a handler.
Opens(t) ==
  \/ SwapResetChallenge(t)
  \/ VerifyResetLiveness(t)
  \/ \E o \in Operators : \/ ConfirmResetAccount(t, o) \/ SignIn(t, o)
                          \/ \E c \in Codes : RecoverWithRecoveryCode(t, o, c)
  \/ \E r \in Requests : \/ InspectResetToken(t, r) \/ CompletePasswordReset(t, r)
                         \/ ApprovePasswordReset(t, r)

\* What a handler that begins has read: s is its first statement.
Begins(t, s) ==
  /\ s \in Jobs
  /\ s.step \in {"cancel", "insert"} => Fits
  /\ s.step = "verdict" => /\ s.request = challenge[t] /\ challenge[t] \in Requests
                           /\ challenge'[t] = 0
  /\ s.step = "swap" => /\ s.request = challenge[t] /\ challenge'[t] = challenge[t]
                        /\ request[challenge[t]].swaps < MaxSwaps
  /\ s.step = "recode" => /\ s.code \notin s.left
                          /\ s.left \cup {s.code} \subseteq account[s.operator].codes

\* Statements of which Begins asks nothing but their type.
LEMMA BeginsPlain ==
  ASSUME NEW t \in Tabs, NEW s \in Jobs, s.step \notin {"cancel", "insert", "verdict", "swap", "recode"}
  PROVE  Begins(t, s)
BY DEF Begins

LEMMA OpensFrame ==
  ASSUME Typed, NEW t \in Tabs, Opens(t)
  PROVE  /\ UNCHANGED << account, request, session, held, uses, revived, spent, putBack, cut >>
         /\ At(t, "idle") /\ Begins(t, job'[t])
         /\ job' \in [Tabs -> Jobs]
         /\ \A u \in Tabs : u # t => job'[u] = job[u] /\ challenge'[u] = challenge[u]
         /\ challenge' \in [Tabs -> 0 .. MaxRequests]
         /\ challenge'[t] = 0 \/ challenge'[t] = challenge[t]
<1>t. /\ challenge \in [Tabs -> 0 .. MaxRequests] /\ account \in [Operators -> AccountRows]
      /\ challenge[t] # 0 => challenge[t] \in Requests
  <2>1. challenge \in [Tabs -> 0 .. MaxRequests] /\ account \in [Operators -> AccountRows]
    BY DEF Typed
  <2>2. MaxRequests \in Nat /\ challenge[t] \in 0 .. MaxRequests
    BY <2>1, Bounds
  <2> QED BY <2>1, <2>2 DEF Requests
<1>0. 0 \in 0 .. MaxRequests
  BY Bounds
<1>f. \A j : Go(t, j) => job'[t] = j /\ (\A u \in Tabs : u # t => job'[u] = job[u])
                          /\ (j \in Jobs => job' \in [Tabs -> Jobs])
  BY JobStep
<1> DEFINE Opened == At(t, "idle") /\ Begins(t, job'[t]) /\ job' \in [Tabs -> Jobs]
                       /\ \A u \in Tabs : u # t => job'[u] = job[u]
<1>e. \A j : Go(t, j) /\ Begins(t, j) /\ At(t, "idle") => Opened
  <2> SUFFICES ASSUME NEW j, Go(t, j), Begins(t, j), At(t, "idle") PROVE Opened
    OBVIOUS
  <2>1. j \in Jobs
    BY DEF Begins
  <2>2. job'[t] = j /\ (\A u \in Tabs : u # t => job'[u] = job[u]) /\ job' \in [Tabs -> Jobs]
    BY <1>f, <2>1
  <2> QED BY <2>2
<1>s. /\ Idle \in Jobs /\ Idle.step = "idle" /\ Begins(t, Idle)
      /\ \A r \in Requests : Step("expire", r) \in Jobs /\ Step("expire", r).step = "expire"
                               /\ Begins(t, Step("expire", r))
  BY Records, BeginsPlain
<1>1. ASSUME SwapResetChallenge(t) PROVE Opened
  <2> DEFINE r == challenge[t]
             j == IF request[r].swaps < MaxSwaps THEN Step("swap", r) ELSE Idle
  <2>1. r \in Requests /\ At(t, "idle") /\ challenge' = challenge
    BY <1>1, <1>t DEF SwapResetChallenge
  <2>2. Step("swap", r) \in Jobs /\ Step("swap", r).step = "swap" /\ Step("swap", r).request = r
    BY <2>1, Records
  <2>3. Begins(t, j)
    BY <1>s, <2>1, <2>2 DEF Begins
  <2>4. Go(t, AfterLoad(r, j))
    BY <1>1 DEF SwapResetChallenge
  <2> HIDE DEF j
  <2>5. AfterLoad(r, j) \in {Idle, Step("expire", r), j}
    BY DEF AfterLoad
  <2>6. Begins(t, AfterLoad(r, j))
    BY <1>s, <2>1, <2>3, <2>5
  <2> QED BY <1>e, <2>1, <2>4, <2>6
<1>2. ASSUME VerifyResetLiveness(t) PROVE Opened
  <2> DEFINE r == challenge[t]
             j == Step("verdict", r)
  <2>1. r \in Requests /\ At(t, "idle") /\ challenge'[t] = 0
    BY <1>2, <1>t DEF VerifyResetLiveness
  <2>2. j \in Jobs /\ j.step = "verdict" /\ j.request = r
    BY <2>1, Records
  <2>3. Go(t, AfterLoad(r, j))
    BY <1>2 DEF VerifyResetLiveness
  <2> HIDE DEF j
  <2>4. Begins(t, j)
    BY <2>1, <2>2 DEF Begins
  <2>5. AfterLoad(r, j) \in {Idle, Step("expire", r), j}
    BY DEF AfterLoad
  <2>6. Begins(t, AfterLoad(r, j))
    BY <1>s, <2>1, <2>4, <2>5
  <2> QED BY <1>e, <2>1, <2>3, <2>6
<1>3. ASSUME NEW o \in Operators, ConfirmResetAccount(t, o) PROVE Opened
  <2> DEFINE j == StepOf("cancel", o)
  <2>1. j \in Jobs /\ j.step = "cancel"
    BY Records
  <2>2. Go(t, j) /\ Fits /\ At(t, "idle")
    BY <1>3 DEF ConfirmResetAccount
  <2> HIDE DEF j
  <2>3. Begins(t, j)
    BY <2>1, <2>2 DEF Begins
  <2> QED BY <1>e, <2>2, <2>3
<1>4. ASSUME NEW o \in Operators, SignIn(t, o) PROVE Opened
  <2> DEFINE j == [step |-> "sign-in", operator |-> o, password |-> account[o].password]
  <2>1. account[o].password \in Nat
    BY <1>t DEF AccountRows
  <2>2. j \in Jobs /\ j.step = "sign-in"
    BY <2>1, Records
  <2>3. Go(t, j) /\ At(t, "idle")
    BY <1>4, Zenon DEF SignIn
  <2> HIDE DEF j
  <2> QED BY <1>e, <2>2, <2>3, BeginsPlain
<1>5. ASSUME NEW o \in Operators, NEW c \in Codes, RecoverWithRecoveryCode(t, o, c) PROVE Opened
  <2> DEFINE j == [step |-> "recode", operator |-> o, code |-> c, left |-> account[o].codes \ {c}]
  <2>1. account[o].codes \in SUBSET Codes /\ c \in account[o].codes
    BY <1>t, <1>5 DEF AccountRows, RecoverWithRecoveryCode
  <2>2. account[o].codes \ {c} \in SUBSET Codes
    BY <2>1
  <2>3. j \in Jobs
    BY <2>2, Records
  <2>4. /\ j.step = "recode" /\ j.operator = o /\ j.code = c
        /\ j.left = account[o].codes \ {c}
    OBVIOUS
  <2>5. Go(t, j) /\ At(t, "idle")
    BY <1>5, Zenon DEF RecoverWithRecoveryCode
  <2> HIDE DEF j
  <2>6. Begins(t, j)
    BY <2>1, <2>3, <2>4 DEF Begins
  <2> QED BY <1>e, <2>5, <2>6
<1>6. ASSUME NEW r \in Requests,
             InspectResetToken(t, r) \/ CompletePasswordReset(t, r) \/ ApprovePasswordReset(t, r)
      PROVE  Opened
  <2>1. PICK name \in {"expire", "consume", "approve"} : Go(t, Step(name, r)) /\ At(t, "idle")
    BY <1>6 DEF InspectResetToken, CompletePasswordReset, ApprovePasswordReset
  <2>2. Step(name, r) \in Jobs /\ Step(name, r).step = name
    BY Records
  <2> QED BY <1>e, <2>1, <2>2, BeginsPlain
<1>7. /\ UNCHANGED << account, request, session, held, uses, revived, spent, putBack, cut >>
      /\ challenge' = challenge \/ challenge' = [challenge EXCEPT ![t] = 0]
  BY DEF Opens, history, SwapResetChallenge, VerifyResetLiveness, ConfirmResetAccount, SignIn,
         RecoverWithRecoveryCode, InspectResetToken, CompletePasswordReset, ApprovePasswordReset
<1>8. /\ challenge' \in [Tabs -> 0 .. MaxRequests]
      /\ \A u \in Tabs : u # t => challenge'[u] = challenge[u]
      /\ challenge'[t] = 0 \/ challenge'[t] = challenge[t]
  BY <1>7, <1>t, <1>0
<1>9. Opened
  BY <1>1, <1>2, <1>3, <1>4, <1>5, <1>6, Zenon DEF Opens
<1> QED BY <1>7, <1>8, <1>9

\* Every step of the program is one of these.
LEMMA Steps ==
  ASSUME Next
  PROVE  \/ \E t \in Tabs : Opens(t) \/ Handlers(t)
         \/ \E r \in Requests : \/ DeletePasswordResetHistory(r) \/ PurgePasswordResetHistory(r)
                                \/ TimePasses(r)
         \/ \E o \in Operators : IssuePasswordRecoveryCodes(o)
<1>1. \A t \in Tabs : ForgotPasswordPage(t) \/ ResetPasswordForm(t) => Opens(t)
  BY Zenon DEF ForgotPasswordPage, ResetPasswordForm, Opens
<1>2. \A t \in Tabs, o \in Operators : SignIn(t, o) => Opens(t)
  BY Zenon DEF Opens
<1>3. \A t \in Tabs, r \in Requests : ApprovePasswordReset(t, r) => Opens(t)
  BY Zenon DEF Opens
<1> QED BY <1>1, <1>2, <1>3, Zenon DEF Next, PasswordResetHistoryPage

---------------------------------------------------------------------------
(* The requests are numbered in order, and no more are begun than fit *)

Starting == {t \in Tabs : job[t].step \in {"cancel", "insert"}}
Numbers(n) == \A r \in Requests : request[r].status # "None" <=> r <= n
Numbered == \E n \in 0 .. MaxRequests : Numbers(n) /\ n + Cardinality(Starting) <= MaxRequests

TypeInv == Typed /\ Numbered /\ ClaimInv

LEMMA IssuedIs ==
  ASSUME NEW n \in 0 .. MaxRequests, Numbers(n)
  PROVE  Issued = n
<1>1. MaxRequests \in Nat /\ n \in Nat /\ n <= MaxRequests
  BY Bounds
<1>2. {r \in Requests : request[r].status # "None"} = 1 .. n
  BY <1>1 DEF Numbers, Requests
<1>3. Cardinality(1 .. n) = n
  BY <1>1, FS_Interval
<1> QED BY <1>2, <1>3 DEF Issued

LEMMA StartingFinite ==
  /\ IsFiniteSet(Starting) /\ Cardinality(Starting) \in Nat
  /\ IsFiniteSet(Starting') /\ Cardinality(Starting') \in Nat
<1>1. Starting \subseteq Tabs /\ Starting' \subseteq Tabs
  BY DEF Starting
<1>2. IsFiniteSet(Tabs)
  BY PasswordResetAssumption
<1> QED BY <1>1, <1>2, FS_Subset, FS_CardinalityType

\* A step that begins no request and creates none.
LEMMA NumberedKept ==
  ASSUME Numbered, \A q \in Requests : Known(request[q], request'[q]), Starting' \subseteq Starting
  PROVE  Numbered'
<1>1. PICK n \in 0 .. MaxRequests : Numbers(n) /\ n + Cardinality(Starting) <= MaxRequests
  BY DEF Numbered
<1>2. \A q \in Requests : request'[q].status # "None" <=> q <= n
  BY <1>1 DEF Numbers, Known
<1>3. Cardinality(Starting') <= Cardinality(Starting)
  BY StartingFinite, FS_Subset
<1>4. n + Cardinality(Starting') <= MaxRequests
  BY <1>1, <1>3, StartingFinite, Bounds
<1> QED BY <1>1, <1>2, <1>4 DEF Numbered, Numbers

\* A handler begins with a request, where one more fits.
LEMMA NumberedBegins ==
  ASSUME Numbered, NEW t \in Tabs, request' = request, Starting' \subseteq Starting \cup {t}, Fits
  PROVE  Numbered'
<1>1. PICK n \in 0 .. MaxRequests : Numbers(n) /\ n + Cardinality(Starting) <= MaxRequests
  BY DEF Numbered
<1>2. Issued = n
  BY <1>1, IssuedIs
<1>3. n + Cardinality(Starting) < MaxRequests
  BY <1>2 DEF Fits, Starting
<1>4. /\ IsFiniteSet(Starting \cup {t})
      /\ Cardinality(Starting \cup {t}) <= Cardinality(Starting) + 1
      /\ Cardinality(Starting \cup {t}) \in Nat
  <2>1. IsFiniteSet(Starting) /\ Cardinality(Starting) \in Nat
    BY StartingFinite
  <2>2. /\ IsFiniteSet(Starting \cup {t})
        /\ Cardinality(Starting \cup {t}) \in {Cardinality(Starting), Cardinality(Starting) + 1}
    BY <2>1, FS_AddElement
  <2> QED BY <2>1, <2>2
<1>5. Cardinality(Starting') <= Cardinality(Starting \cup {t})
  BY <1>4, FS_Subset
<1>6. n + Cardinality(Starting') <= MaxRequests
  BY <1>1, <1>3, <1>4, <1>5, StartingFinite, Bounds
<1>7. \A r \in Requests : request'[r].status # "None" <=> r <= n
  BY <1>1 DEF Numbers
<1> QED BY <1>6, <1>7 DEF Numbered, Numbers

\* A request takes the next number, which is free.
LEMMA InsertStep ==
  ASSUME TypeInv, NEW t \in Tabs, InsertRequest(t)
  PROVE  \E r \in Requests :
           /\ request[r].status = "None" /\ challenge' = [challenge EXCEPT ![t] = r]
           /\ request'[r] \in RequestRows /\ request'[r].status = "Pending Verification"
           /\ request'[r].attempts = 0
           /\ \A q \in Requests : q # r => request'[q] = request[q]
           /\ request' \in [Requests -> RequestRows]
           /\ Numbered'
<1>1. PICK n \in 0 .. MaxRequests : Numbers(n) /\ n + Cardinality(Starting) <= MaxRequests
  BY DEF TypeInv, Numbered
<1>2. t \in Starting
  BY DEF InsertRequest, At, Starting
<1>3. Starting' = Starting \ {t}
  <2>1. \A u \in Tabs : job'[u] = IF u = t THEN Idle ELSE job[u]
    BY DEF InsertRequest, Go, TypeInv, Typed
  <2>2. Idle.step = "idle"
    BY Records
  <2> QED BY <2>1, <2>2 DEF Starting
<1>4. Cardinality(Starting') = Cardinality(Starting) - 1
  BY <1>2, <1>3, StartingFinite, FS_RemoveElement
<1>5. /\ n + 1 \in Requests /\ n + 1 \in 0 .. MaxRequests
      /\ (n + 1) + Cardinality(Starting') <= MaxRequests
  BY <1>1, <1>4, StartingFinite, Bounds DEF Requests
<1> DEFINE r == n + 1
           row == [NoRow EXCEPT !.status = "Pending Verification", !.operator = job[t].operator]
<1>6. r \in Requests /\ request[r].status = "None"
  BY <1>1, <1>5 DEF Numbers, Requests
<1>7. row \in RequestRows /\ row.status = "Pending Verification" /\ row.attempts = 0
  <2>1. job[t].operator \in Operators
    BY JobOf DEF TypeInv, InsertRequest
  <2>2. "Pending Verification" \in Rows
    BY StatusSets
  <2> QED BY <2>1, <2>2, NoRowIs DEF RequestRows
<1>8. request' = [request EXCEPT ![r] = row] /\ challenge' = [challenge EXCEPT ![t] = r]
  <2>1. Issued = n
    BY <1>1, IssuedIs
  <2> QED BY <2>1 DEF InsertRequest
<1>9. request \in [Requests -> RequestRows]
  BY DEF TypeInv, Typed
<1> HIDE DEF row
<1>10. /\ request'[r] = row
       /\ \A q \in Requests : q # r => request'[q] = request[q]
       /\ request' \in [Requests -> RequestRows]
  BY <1>6, <1>7, <1>8, <1>9
<1>11. Numbered'
  <2>1. ASSUME NEW q \in Requests PROVE request'[q].status # "None" <=> q <= n + 1
    <3>1. CASE q = r
      <4>1. n + 1 <= n + 1
        BY <1>1, Bounds
      <4>2. request'[q].status # "None"
        BY <1>7, <1>10, <3>1
      <4> QED BY <4>1, <4>2, <3>1
    <3>2. CASE q # r
      <4>1. request'[q].status # "None" <=> q <= n
        BY <1>1, <1>10, <3>2 DEF Numbers
      <4> QED BY <4>1, <3>2, <1>1, Bounds DEF Requests
    <3> QED BY <3>1, <3>2
  <2> QED BY <2>1, <1>5 DEF Numbered, Numbers
<1> QED BY <1>6, <1>7, <1>8, <1>10, <1>11

---------------------------------------------------------------------------
(* Type correctness *)

\* Where a handler's next statement stands, and what it leaves of the other tabs.
LEMMA HandlerFrame ==
  ASSUME Typed, NEW t \in Tabs, Handlers(t)
  PROVE  /\ job' \in [Tabs -> Jobs] /\ ~ At(t, "idle")
         /\ \A u \in Tabs : u # t => job'[u] = job[u]
         /\ job'[t].step \notin {"cancel", "verdict", "swap", "recode"}
         /\ job'[t].step = "insert" => At(t, "cancel")
         /\ challenge' = challenge \/ InsertRequest(t)
<1>t. request \in [Requests -> RequestRows]
  BY DEF Typed
<1>o. \A r \in Requests : request[r].operator \in Operators
  BY <1>t DEF RequestRows
<1>1. PICK j : Go(t, j) /\ j \in Jobs /\ ~ At(t, "idle")
                 /\ j.step \notin {"cancel", "verdict", "swap", "recode"}
                 /\ (j.step = "insert" => At(t, "cancel"))
  <2>1. ASSUME Go(t, Idle), ~ At(t, "idle")
        PROVE  \E j : Go(t, j) /\ j \in Jobs /\ ~ At(t, "idle")
                        /\ j.step \notin {"cancel", "verdict", "swap", "recode"}
                        /\ (j.step = "insert" => At(t, "cancel"))
    <3>1. Idle \in Jobs /\ Idle.step = "idle"
      BY Records
    <3> HIDE DEF Idle
    <3> QED BY <2>1, <3>1 DEF Idle
  <2>2. ASSUME NEW o \in Operators, NEW name \in {"insert", "password", "revoke"},
               Go(t, StepOf(name, o)), ~ At(t, "idle"), name = "insert" => At(t, "cancel")
        PROVE  \E j : Go(t, j) /\ j \in Jobs /\ ~ At(t, "idle")
                        /\ j.step \notin {"cancel", "verdict", "swap", "recode"}
                        /\ (j.step = "insert" => At(t, "cancel"))
    <3>1. StepOf(name, o) \in Jobs /\ StepOf(name, o).step = name
      BY Records
    <3> QED BY <2>2, <3>1
  <2>3. CASE CancelEarlier(t)
    <3>1. job[t].operator \in Operators
      BY <2>3, JobOf DEF CancelEarlier
    <3>2. Go(t, StepOf("insert", job[t].operator)) /\ At(t, "cancel")
      BY <2>3 DEF CancelEarlier
    <3> QED BY <3>1, <3>2, <2>2 DEF At
  <2>4. CASE StoreToken(t)
    <3>1. job[t].request \in Requests
      BY <2>4, JobOf DEF StoreToken
    <3>2. Go(t, Step("mail", job[t].request)) /\ At(t, "verdict")
      BY <2>4 DEF StoreToken
    <3>3. Step("mail", job[t].request) \in Jobs /\ Step("mail", job[t].request).step = "mail"
      BY <3>1, Records
    <3> QED BY <3>2, <3>3 DEF At
  <2>5. ASSUME NEW d \in BOOLEAN, SendMail(t, d)
        PROVE  \E j : Go(t, j) /\ j \in Jobs /\ ~ At(t, "idle")
                        /\ j.step \notin {"cancel", "verdict", "swap", "recode"}
                        /\ (j.step = "insert" => At(t, "cancel"))
    <3>1. job[t].request \in Requests
      BY <2>5, JobOf DEF SendMail
    <3> DEFINE j == [step |-> "receipt", request |-> job[t].request, delivered |-> d]
    <3>2. Go(t, j) /\ At(t, "mail")
      BY <2>5, Zenon DEF SendMail
    <3>3. j \in Jobs
      BY <3>1, Records
    <3>4. j.step = "receipt"
      OBVIOUS
    <3> HIDE DEF j
    <3> QED BY <3>2, <3>3, <3>4 DEF At
  <2>6. CASE ConsumeToken(t)
    <3>1. job[t].request \in Requests
      BY <2>6, JobOf DEF ConsumeToken
    <3>2. /\ Go(t, Idle) \/ Go(t, StepOf("password", request[job[t].request].operator))
          /\ At(t, "consume")
      BY <2>6, Zenon DEF ConsumeToken
    <3> QED BY <1>o, <2>1, <2>2, <3>1, <3>2 DEF At
  <2>7. CASE WriteRemainingCodes(t)
    <3>1. job[t].operator \in Operators
      BY <2>7, JobOf DEF WriteRemainingCodes
    <3>2. Go(t, StepOf("password", job[t].operator)) /\ At(t, "recode")
      BY <2>7, Zenon DEF WriteRemainingCodes
    <3> QED BY <2>2, <3>1, <3>2 DEF At
  <2>8. CASE WritePassword(t)
    <3>1. job[t].operator \in Operators
      BY <2>8, JobOf DEF WritePassword
    <3>2. Go(t, StepOf("revoke", job[t].operator)) /\ At(t, "password")
      BY <2>8, Zenon DEF WritePassword
    <3> QED BY <2>2, <3>1, <3>2 DEF At
  <2>9. CASE \/ MarkExpired(t) \/ InsertRequest(t) \/ WriteSwap(t) \/ VerdictFails(t)
             \/ AwaitApproval(t) \/ WriteReceipt(t) \/ WriteApproval(t)
             \/ RevokeOperatorSessions(t) \/ CreateSession(t) \/ HandlerDies(t)
    <3>1. Go(t, Idle)
      BY <2>9, Zenon DEF MarkExpired, InsertRequest, WriteSwap, VerdictFails, AwaitApproval,
         WriteReceipt, WriteApproval, RevokeOperatorSessions, CreateSession, HandlerDies
    <3>2. ~ At(t, "idle")
      BY <2>9 DEF At, MarkExpired, InsertRequest, WriteSwap, VerdictFails, AwaitApproval,
         WriteReceipt, WriteApproval, RevokeOperatorSessions, CreateSession, HandlerDies
    <3> QED BY <2>1, <3>1, <3>2
  <2> QED BY <2>3, <2>4, <2>5, <2>6, <2>7, <2>8, <2>9, Zenon DEF Handlers
<1>2. job'[t] = j /\ (\A u \in Tabs : u # t => job'[u] = job[u]) /\ job' \in [Tabs -> Jobs]
  BY <1>1, JobStep
<1>3. challenge' = challenge \/ InsertRequest(t)
  BY Zenon DEF Handlers, MarkExpired, CancelEarlier, WriteSwap, VerdictFails, AwaitApproval,
     StoreToken, SendMail, WriteReceipt, WriteApproval, ConsumeToken, WriteRemainingCodes,
     WritePassword, RevokeOperatorSessions, CreateSession, HandlerDies
<1> QED BY <1>1, <1>2, <1>3

\* What a statement other than the insertion does to the requests.
LEMMA HandlerRows ==
  ASSUME Typed, ClaimInv, NEW t \in Tabs, Handlers(t), ~ InsertRequest(t)
  PROVE  /\ request' \in [Requests -> RequestRows]
         /\ \A q \in Requests :
              /\ Known(request[q], request'[q])
              /\ q \notin revived' => Shut(request[q], request'[q])
              /\ request'[q].attempts = request[q].attempts
                   \/ (At(t, "verdict") /\ q = job[t].request)
              /\ request'[q].swaps = request[q].swaps
                   \/ (At(t, "swap") /\ q = job[t].request)
<1>t. request \in [Requests -> RequestRows]
  BY DEF Typed
<1>1. CASE MarkExpired(t) \/ CancelEarlier(t) \/ WriteApproval(t) \/ ConsumeToken(t)
  <2>1. request' \in [Requests -> RequestRows] /\ \A q \in Requests : Quiet(q)
    BY <1>1, QuietSteps
  <2> QED BY <2>1 DEF Quiet, Counted
<1>2. CASE WriteReceipt(t)
  <2>1. /\ request' \in [Requests -> RequestRows]
        /\ \A q \in Requests : /\ Known(request[q], request'[q]) /\ Counted(request[q], request'[q])
                               /\ q \notin revived' => Shut(request[q], request'[q])
    BY <1>2, ReceiptStep
  <2> QED BY <2>1 DEF Counted
<1>3. CASE WriteSwap(t)
  <2>1. At(t, "swap")
    BY <1>3 DEF WriteSwap
  <2> QED BY <1>3, <2>1, SwapStep
<1>4. CASE VerdictFails(t) \/ AwaitApproval(t) \/ StoreToken(t)
  <2>1. At(t, "verdict")
    BY <1>4 DEF VerdictFails, AwaitApproval, StoreToken
  <2> QED BY <1>4, <2>1, VerdictStep
<1>5. CASE \/ \E d \in BOOLEAN : SendMail(t, d)
           \/ WriteRemainingCodes(t) \/ WritePassword(t)
           \/ RevokeOperatorSessions(t) \/ CreateSession(t) \/ HandlerDies(t)
  <2>1. request' = request
    BY <1>5 DEF SendMail, WriteRemainingCodes, WritePassword, RevokeOperatorSessions,
       CreateSession, HandlerDies
  <2> QED BY <1>t, <2>1, StatusSets DEF Known, Shut
<1> QED BY <1>1, <1>2, <1>3, <1>4, <1>5, Zenon DEF Handlers

LEMMA SheetCodes ==
  ASSUME NEW n \in 1 .. MaxSheets
  PROVE  Sheet(n) \in SUBSET Codes
BY DEF Sheet, Codes

\* An account's codes and password.
LEMMA AccountStep ==
  ASSUME Typed,
         \/ \E t \in Tabs : WriteRemainingCodes(t) \/ WritePassword(t)
         \/ \E o \in Operators : IssuePasswordRecoveryCodes(o)
  PROVE  account' \in [Operators -> AccountRows]
<1>t. account \in [Operators -> AccountRows] /\ job \in [Tabs -> Jobs]
  BY DEF Typed
<1>1. ASSUME NEW t \in Tabs, WriteRemainingCodes(t) PROVE account' \in [Operators -> AccountRows]
  <2>1. job[t].operator \in Operators /\ job[t].left \in SUBSET Codes
    BY <1>1, JobOf DEF WriteRemainingCodes, RecodeJobs
  <2>2. account' = [account EXCEPT ![job[t].operator].codes = job[t].left]
    BY <1>1 DEF WriteRemainingCodes
  <2> QED BY <1>t, <2>1, <2>2 DEF AccountRows
<1>2. ASSUME NEW t \in Tabs, WritePassword(t) PROVE account' \in [Operators -> AccountRows]
  <2> DEFINE o == job[t].operator
  <2>1. o \in Operators
    BY <1>2, JobOf DEF WritePassword
  <2>2. account' = [account EXCEPT ![o].password = @ + 1]
    BY <1>2 DEF WritePassword
  <2>3. account[o].password + 1 \in Nat \ {0}
    <3>1. account[o].password \in Nat \ {0}
      BY <1>t, <2>1 DEF AccountRows
    <3> QED BY <3>1
  <2> QED BY <1>t, <2>1, <2>2, <2>3 DEF AccountRows
<1>3. ASSUME NEW o \in Operators, IssuePasswordRecoveryCodes(o)
      PROVE  account' \in [Operators -> AccountRows]
  <2> DEFINE n == account[o].sheets + 1
  <2>1. n \in 1 .. MaxSheets
    <3>1. account[o].sheets \in 1 .. MaxSheets
      BY <1>t DEF AccountRows
    <3>2. account[o].sheets < MaxSheets
      BY <1>3 DEF IssuePasswordRecoveryCodes
    <3> QED BY <3>1, <3>2, Bounds
  <2>2. Sheet(n) \in SUBSET Codes
    BY <2>1, SheetCodes
  <2>3. account' = [account EXCEPT ![o] = [account[o] EXCEPT !.codes = Sheet(n), !.sheets = n]]
    BY <1>3, <1>t DEF IssuePasswordRecoveryCodes
  <2> HIDE DEF n
  <2> QED BY <1>t, <2>1, <2>2, <2>3 DEF AccountRows
<1> QED BY <1>1, <1>2, <1>3

\* The rest of the state that a statement writes.
LEMMA OtherStep ==
  ASSUME Typed, NEW t \in Tabs, Handlers(t)
  PROVE  /\ account' \in [Operators -> AccountRows]
         /\ session' \in [Operators -> SessionRows]
         /\ held' \subseteq Requests /\ revived' \subseteq Requests
         /\ uses' \in [Requests -> Nat]
         /\ spent' \subseteq Operators \X Codes /\ putBack' \subseteq Operators \X Codes
         /\ cut' \subseteq Operators
<1>t. /\ account \in [Operators -> AccountRows] /\ session \in [Operators -> SessionRows]
      /\ held \subseteq Requests /\ revived \subseteq Requests /\ uses \in [Requests -> Nat]
      /\ spent \subseteq Operators \X Codes /\ putBack \subseteq Operators \X Codes
      /\ cut \subseteq Operators
  BY DEF Typed
<1>1. account' \in [Operators -> AccountRows]
  <2>1. WriteRemainingCodes(t) \/ WritePassword(t) \/ account' = account
    BY Zenon DEF Handlers, MarkExpired, CancelEarlier, InsertRequest, WriteSwap, VerdictFails,
       AwaitApproval, StoreToken, SendMail, WriteReceipt, WriteApproval, ConsumeToken,
       RevokeOperatorSessions, CreateSession, HandlerDies
  <2> QED BY <1>t, <2>1, AccountStep
<1>2. session' \in [Operators -> SessionRows]
  <2>1. CASE RevokeOperatorSessions(t)
    <3>1. NoSession \in SessionRows
      BY DEF NoSession, SessionRows
    <3> QED BY <1>t, <2>1, <3>1 DEF RevokeOperatorSessions
  <2>2. CASE CreateSession(t)
    <3>1. job[t].operator \in Operators /\ job[t].password \in Nat
      BY <2>2, JobOf DEF CreateSession, SignInJobs
    <3> DEFINE o == job[t].operator
               new == [password |-> job[t].password, late |-> job[t].password # account[o].password]
    <3>2. new \in SessionRows
      BY <3>1 DEF SessionRows
    <3>3. session' = [session EXCEPT ![o] = new]
      BY <2>2 DEF CreateSession
    <3> HIDE DEF new
    <3> QED BY <1>t, <3>1, <3>2, <3>3
  <2>3. RevokeOperatorSessions(t) \/ CreateSession(t) \/ session' = session
    BY Zenon DEF Handlers, MarkExpired, CancelEarlier, InsertRequest, WriteSwap, VerdictFails,
       AwaitApproval, StoreToken, SendMail, WriteReceipt, WriteApproval, ConsumeToken,
       WriteRemainingCodes, WritePassword, HandlerDies
  <2> QED BY <1>t, <2>1, <2>2, <2>3
<1>3. held' \subseteq Requests
  <2>1. CASE (\E d \in BOOLEAN : SendMail(t, d)) \/ WriteApproval(t)
    <3>1. job[t].request \in Requests
      BY <2>1, JobOf DEF SendMail, WriteApproval
    <3>2. held' \in {held, held \cup {job[t].request}}
      BY <2>1 DEF SendMail, WriteApproval
    <3> QED BY <1>t, <3>1, <3>2
  <2>2. \/ (\E d \in BOOLEAN : SendMail(t, d)) \/ WriteApproval(t)
        \/ held' = held
    BY Zenon DEF Handlers, MarkExpired, CancelEarlier, InsertRequest, WriteSwap, VerdictFails,
       AwaitApproval, StoreToken, WriteReceipt, ConsumeToken, RevokeOperatorSessions,
       CreateSession, WriteRemainingCodes, WritePassword, HandlerDies
  <2> QED BY <1>t, <2>1, <2>2
<1>4. revived' \subseteq Requests
  <2>1. WriteReceipt(t) \/ revived' = revived
    BY Zenon DEF Handlers, MarkExpired, CancelEarlier, InsertRequest, WriteSwap, VerdictFails,
       AwaitApproval, StoreToken, SendMail, WriteApproval, ConsumeToken, RevokeOperatorSessions,
       CreateSession, WriteRemainingCodes, WritePassword, HandlerDies, history
  <2> QED BY <1>t, <2>1, ReceiptStep
<1>5. uses' \in [Requests -> Nat]
  <2>1. CASE ConsumeToken(t)
    <3>1. job[t].request \in Requests
      BY <2>1, JobOf DEF ConsumeToken
    <3>2. uses' = uses \/ uses' = [uses EXCEPT ![job[t].request] = @ + 1]
      BY <2>1, Zenon DEF ConsumeToken
    <3> QED BY <1>t, <3>1, <3>2
  <2>2. ConsumeToken(t) \/ uses' = uses
    BY Zenon DEF Handlers, MarkExpired, CancelEarlier, InsertRequest, WriteSwap, VerdictFails,
       AwaitApproval, StoreToken, SendMail, WriteReceipt, WriteApproval, RevokeOperatorSessions,
       CreateSession, WriteRemainingCodes, WritePassword, HandlerDies, history
  <2> QED BY <1>t, <2>1, <2>2
<1>6. spent' \subseteq Operators \X Codes /\ putBack' \subseteq Operators \X Codes
  <2>1. CASE WriteRemainingCodes(t)
    <3>1. job[t].operator \in Operators /\ job[t].left \in SUBSET Codes /\ job[t].code \in Codes
      BY <2>1, JobOf DEF WriteRemainingCodes, RecodeJobs
    <3> QED BY <1>t, <2>1, <3>1 DEF WriteRemainingCodes
  <2>2. WriteRemainingCodes(t) \/ (spent' = spent /\ putBack' = putBack)
    BY Zenon DEF Handlers, MarkExpired, CancelEarlier, InsertRequest, WriteSwap, VerdictFails,
       AwaitApproval, StoreToken, SendMail, WriteReceipt, WriteApproval, ConsumeToken,
       RevokeOperatorSessions, CreateSession, WritePassword, HandlerDies, history
  <2> QED BY <1>t, <2>1, <2>2
<1>7. cut' \subseteq Operators
  <2>1. CASE RevokeOperatorSessions(t)
    BY <1>t, <2>1 DEF RevokeOperatorSessions
  <2>2. CASE HandlerDies(t)
    <3>1. At(t, "revoke") => job[t].operator \in Operators
      BY JobOf
    <3> QED BY <1>t, <2>2, <3>1 DEF HandlerDies
  <2>3. RevokeOperatorSessions(t) \/ HandlerDies(t) \/ cut' = cut
    BY Zenon DEF Handlers, MarkExpired, CancelEarlier, InsertRequest, WriteSwap, VerdictFails,
       AwaitApproval, StoreToken, SendMail, WriteReceipt, WriteApproval, ConsumeToken,
       CreateSession, WriteRemainingCodes, WritePassword, history
  <2> QED BY <1>t, <2>1, <2>2, <2>3
<1> QED BY <1>1, <1>2, <1>3, <1>4, <1>5, <1>6, <1>7

LEMMA TypeInit == Init => TypeInv
<1> SUFFICES ASSUME Init PROVE TypeInv
  OBVIOUS
<1>b. 0 \in 0 .. MaxRequests /\ 1 \in 1 .. MaxSheets
  BY Bounds
<1>1. Typed
  <2>1. Sheet(1) \in SUBSET Codes
    BY <1>b, SheetCodes
  <2>2. [password |-> 1, codes |-> Sheet(1), sheets |-> 1] \in AccountRows
    BY <1>b, <2>1 DEF AccountRows
  <2>3. account \in [Operators -> AccountRows]
    BY <2>2, Zenon DEF Init
  <2>4. request \in [Requests -> RequestRows]
    BY NoRowIs DEF Init
  <2>5. NoSession \in SessionRows
    BY DEF NoSession, SessionRows
  <2>6. job \in [Tabs -> Jobs]
    BY Records DEF Init
  <2> QED BY <1>b, <2>3, <2>4, <2>5, <2>6 DEF Init, Typed
<1>2. Numbered
  <2>1. Numbers(0)
    <3>1. \A r \in Requests : ~ (r <= 0)
      BY DEF Requests
    <3> QED BY <3>1, NoRowIs DEF Init, Numbers
  <2>2. Starting = {}
    BY DEF Init, Starting, Idle
  <2>3. Cardinality(Starting) = 0
    BY <2>2, FS_EmptySet
  <2>4. 0 + Cardinality(Starting) <= MaxRequests
    BY <2>3, Bounds
  <2> QED BY <1>b, <2>1, <2>4 DEF Numbered
<1>3. ClaimInv
  <2>1. \A t \in Tabs : challenge[t] = 0 /\ ~ At(t, "verdict") /\ ~ At(t, "swap")
    BY DEF Init, At, Idle
  <2>2. \A r \in Requests : r # 0
    BY DEF Requests
  <2> QED BY <2>1, <2>2 DEF ClaimInv, Claims
<1> QED BY <1>1, <1>2, <1>3 DEF TypeInv

\* The claims of the tabs: a step makes no new one but for a new request.
LEMMA ClaimKept ==
  ASSUME Typed, ClaimInv, NEW t \in Tabs,
         Typed', \A u \in Tabs : u # t => job'[u] = job[u] /\ challenge'[u] = challenge[u],
         challenge'[t] = challenge[t],
         job'[t].step \notin {"verdict", "swap"},
         \A q \in Requests :
              /\ Known(request[q], request'[q])
              /\ request'[q].attempts = request[q].attempts
                   \/ (At(t, "verdict") /\ q = job[t].request)
              /\ request'[q].swaps = request[q].swaps
                   \/ (At(t, "swap") /\ q = job[t].request)
  PROVE  ClaimInv'
<1>1. \A r \in Requests, u \in Tabs : Claims(u, r)' => Claims(u, r)
  BY DEF Claims, At
<1>2. \A r \in Requests : \A u, v \in Tabs : Claims(u, r)' /\ Claims(v, r)' => u = v
  BY <1>1 DEF ClaimInv
<1>3. ASSUME NEW r \in Requests, NEW u \in Tabs, Claims(u, r)'
      PROVE  request'[r].status # "None" /\ request'[r].attempts = 0
  <2>1. Claims(u, r) /\ request[r].status # "None" /\ request[r].attempts = 0
    BY <1>1, <1>3 DEF ClaimInv
  <2>2. ~ (At(t, "verdict") /\ r = job[t].request)
    <3> SUFFICES ASSUME At(t, "verdict"), r = job[t].request PROVE FALSE
      OBVIOUS
    <3>1. Claims(t, r)
      BY DEF Claims
    <3>2. u = t
      BY <2>1, <3>1 DEF ClaimInv
    <3>3. challenge'[t] = 0
      BY DEF ClaimInv
    <3>4. ~ Claims(t, r)'
      BY <3>3 DEF Claims, At, Requests
    <3> QED BY <1>3, <3>2, <3>4
  <2> QED BY <2>1, <2>2 DEF Known
<1>4. ASSUME NEW u \in Tabs, At(u, "swap")'
      PROVE  challenge'[u] = job'[u].request /\ request'[job'[u].request].swaps < MaxSwaps
  <2>1. u # t /\ At(u, "swap") /\ job'[u] = job[u] /\ challenge'[u] = challenge[u]
    BY <1>4 DEF At
  <2>2. challenge[u] = job[u].request /\ request[job[u].request].swaps < MaxSwaps
          /\ job[u].request \in Requests
    BY <2>1, JobOf DEF ClaimInv
  <2>3. ~ (At(t, "swap") /\ job[u].request = job[t].request)
    <3> SUFFICES ASSUME At(t, "swap"), job[u].request = job[t].request PROVE FALSE
      OBVIOUS
    <3>1. Claims(u, job[u].request) /\ Claims(t, job[u].request)
      BY <2>2 DEF Claims, ClaimInv
    <3> QED BY <2>1, <2>2, <3>1 DEF ClaimInv
  <2> QED BY <2>1, <2>2, <2>3
<1>5. \A u \in Tabs : At(u, "verdict")' => challenge'[u] = 0
  BY DEF At, ClaimInv
<1> QED BY <1>2, <1>3, <1>4, <1>5 DEF ClaimInv

LEMMA ClaimBegins ==
  ASSUME Typed, ClaimInv, NEW t \in Tabs, Opens(t)
  PROVE  ClaimInv'
<1>1. /\ request' = request /\ At(t, "idle") /\ Begins(t, job'[t])
      /\ \A u \in Tabs : u # t => job'[u] = job[u] /\ challenge'[u] = challenge[u]
      /\ challenge'[t] = 0 \/ challenge'[t] = challenge[t]
  BY OpensFrame
<1>2. ASSUME NEW r \in Requests, NEW u \in Tabs, Claims(u, r)' PROVE Claims(u, r)
  <2>1. CASE u # t
    BY <1>1, <1>2, <2>1 DEF Claims, At
  <2>2. CASE u = t
    <3>1. challenge'[t] = r => challenge[t] = r
      BY <1>1 DEF Requests
    <3>2. job'[t].step = "verdict" /\ job'[t].request = r => challenge[t] = r
      BY <1>1 DEF Begins
    <3> QED BY <1>2, <2>2, <3>1, <3>2 DEF Claims, At
  <2> QED BY <2>1, <2>2
<1>3. ASSUME NEW u \in Tabs, At(u, "swap")'
      PROVE  challenge'[u] = job'[u].request /\ request'[job'[u].request].swaps < MaxSwaps
  <2>1. CASE u # t
    BY <1>1, <1>3, <2>1 DEF At, ClaimInv
  <2>2. CASE u = t
    BY <1>1, <1>3, <2>2 DEF At, Begins
  <2> QED BY <2>1, <2>2
<1>4. \A u \in Tabs : At(u, "verdict")' => challenge'[u] = 0
  BY <1>1 DEF At, Begins, ClaimInv
<1> QED BY <1>1, <1>2, <1>3, <1>4 DEF ClaimInv

LEMMA ClaimInsert ==
  ASSUME TypeInv, NEW t \in Tabs, InsertRequest(t)
  PROVE  ClaimInv'
<1>1. PICK r \in Requests :
           /\ request[r].status = "None" /\ challenge' = [challenge EXCEPT ![t] = r]
           /\ request'[r].status = "Pending Verification" /\ request'[r].attempts = 0
           /\ \A q \in Requests : q # r => request'[q] = request[q]
  BY InsertStep
<1>2. /\ \A u \in Tabs : u # t => job'[u] = job[u] /\ challenge'[u] = challenge[u]
      /\ challenge'[t] = r /\ job'[t] = Idle
  <2>1. Go(t, Idle) /\ challenge \in [Tabs -> 0 .. MaxRequests]
    BY DEF TypeInv, Typed, InsertRequest
  <2> QED BY <1>1, <2>1, JobStep DEF TypeInv
<1>3. \A u \in Tabs : ~ Claims(u, r)
  BY <1>1 DEF TypeInv, ClaimInv
<1>4. ASSUME NEW q \in Requests, NEW u \in Tabs, Claims(u, q)'
      PROVE  (u = t /\ q = r) \/ (u # t /\ q # r /\ Claims(u, q))
  <2>1. Idle.step = "idle"
    BY Records
  <2>2. CASE u = t
    BY <1>2, <1>4, <2>1, <2>2 DEF Claims, At
  <2>3. CASE u # t
    <3>1. Claims(u, q)
      BY <1>2, <1>4, <2>3 DEF Claims, At
    <3> QED BY <1>3, <2>3, <3>1
  <2> QED BY <2>2, <2>3
<1>5. \A q \in Requests : \A u, v \in Tabs : Claims(u, q)' /\ Claims(v, q)' => u = v
  BY <1>4 DEF TypeInv, ClaimInv
<1>6. ASSUME NEW q \in Requests, NEW u \in Tabs, Claims(u, q)'
      PROVE  request'[q].status # "None" /\ request'[q].attempts = 0
  BY <1>1, <1>4, <1>6 DEF TypeInv, ClaimInv
<1>7. ASSUME NEW u \in Tabs, At(u, "swap")' \/ At(u, "verdict")'
      PROVE  /\ At(u, "swap")' => challenge'[u] = job'[u].request
                                    /\ request'[job'[u].request].swaps < MaxSwaps
             /\ At(u, "verdict")' => challenge'[u] = 0
  <2>1. u # t /\ job'[u] = job[u] /\ challenge'[u] = challenge[u]
    BY <1>2, <1>7, Records DEF At
  <2>2. ASSUME At(u, "swap") PROVE request'[job[u].request] = request[job[u].request]
    <3>1. job[u].request \in Requests /\ Claims(u, job[u].request)
      BY <2>2, JobOf DEF TypeInv, ClaimInv, Claims
    <3> QED BY <1>1, <1>3, <3>1
  <2> QED BY <2>1, <2>2 DEF At, TypeInv, ClaimInv
<1> QED BY <1>5, <1>6, <1>7 DEF ClaimInv

LEMMA TypeStep == TypeInv /\ [Next]_vars => TypeInv'
<1> SUFFICES ASSUME TypeInv, [Next]_vars PROVE TypeInv'
  OBVIOUS
<1>t. Typed /\ Numbered /\ ClaimInv
  BY DEF TypeInv
<1>1. ASSUME NEW t \in Tabs, Opens(t) PROVE TypeInv'
  <2>1. Typed'
    BY <1>t, <1>1, OpensFrame DEF Typed
  <2>2. Numbered'
    <3>1. /\ request' = request /\ Begins(t, job'[t])
          /\ \A u \in Tabs : u # t => job'[u] = job[u]
      BY <1>t, <1>1, OpensFrame
    <3>2. Starting' \subseteq Starting \cup {t}
      BY <3>1 DEF Starting
    <3>3. CASE Fits
      BY <1>t, <3>1, <3>2, <3>3, NumberedBegins
    <3>4. CASE ~ Fits
      <4>1. Starting' \subseteq Starting
        BY <3>1, <3>4 DEF Starting, Begins
      <4> QED BY <1>t, <3>1, <4>1, NumberedKept DEF Known
    <3> QED BY <3>3, <3>4
  <2> QED BY <1>t, <1>1, <2>1, <2>2, ClaimBegins DEF TypeInv
<1>2. ASSUME NEW t \in Tabs, Handlers(t) PROVE TypeInv'
  <2>1. /\ job' \in [Tabs -> Jobs]
        /\ \A u \in Tabs : u # t => job'[u] = job[u]
        /\ job'[t].step \notin {"cancel", "verdict", "swap", "recode"}
        /\ job'[t].step = "insert" => At(t, "cancel")
        /\ challenge' = challenge \/ InsertRequest(t)
    BY <1>t, <1>2, HandlerFrame
  <2>2. CASE InsertRequest(t)
    <3>1. /\ request' \in [Requests -> RequestRows] /\ Numbered'
          /\ challenge' \in [Tabs -> 0 .. MaxRequests]
      <4>1. \A r \in Requests : r \in 0 .. MaxRequests
        BY Bounds DEF Requests
      <4> QED BY <1>t, <2>2, <4>1, InsertStep DEF TypeInv, Typed
    <3>2. Typed'
      BY <1>t, <1>2, <2>1, <3>1, OtherStep DEF Typed
    <3> QED BY <2>2, <3>1, <3>2, ClaimInsert DEF TypeInv
  <2>3. CASE ~ InsertRequest(t)
    <3>1. challenge' = challenge
      BY <2>1, <2>3
    <3>2. request' \in [Requests -> RequestRows]
      BY <1>t, <1>2, <2>3, HandlerRows
    <3>3. Typed'
      BY <1>t, <1>2, <2>1, <3>1, <3>2, OtherStep DEF Typed
    <3>4. \A q \in Requests :
              /\ Known(request[q], request'[q])
              /\ request'[q].attempts = request[q].attempts
                   \/ (At(t, "verdict") /\ q = job[t].request)
              /\ request'[q].swaps = request[q].swaps
                   \/ (At(t, "swap") /\ q = job[t].request)
      BY <1>t, <1>2, <2>3, HandlerRows
    <3>5. Starting' \subseteq Starting
      BY <2>1 DEF Starting, At
    <3>6. ClaimInv'
      BY <1>t, <2>1, <3>1, <3>3, <3>4, ClaimKept
    <3> QED BY <1>t, <3>3, <3>4, <3>5, <3>6, NumberedKept DEF TypeInv
  <2> QED BY <2>2, <2>3
<1>3. ASSUME NEW r \in Requests,
             DeletePasswordResetHistory(r) \/ PurgePasswordResetHistory(r) \/ TimePasses(r)
      PROVE  TypeInv'
  <2>1. UNCHANGED << account, session, challenge, job, held, history >>
    BY <1>3 DEF DeletePasswordResetHistory, PurgePasswordResetHistory, TimePasses
  <2>2. request' \in [Requests -> RequestRows] /\ \A q \in Requests : Quiet(q)
    BY <1>t, <1>3, QuietSteps
  <2>3. \A q \in Requests : Known(request[q], request'[q]) /\ Counted(request[q], request'[q])
    BY <2>2 DEF Quiet
  <2>4. Starting' \subseteq Starting
    BY <2>1 DEF Starting
  <2>5. Typed'
    BY <1>t, <2>1, <2>2 DEF Typed, history
  <2>6. \A u \in Tabs : At(u, "swap") => job[u].request \in Requests
    BY <1>t, JobOf
  <2>7. ClaimInv'
    BY <1>t, <2>1, <2>3, <2>6 DEF ClaimInv, Claims, At, Known, Counted
  <2> QED BY <1>t, <2>3, <2>4, <2>5, <2>7, NumberedKept DEF TypeInv
<1>4. ASSUME NEW o \in Operators, IssuePasswordRecoveryCodes(o) PROVE TypeInv'
  <2>1. UNCHANGED << request, session, challenge, job, held, history >>
    BY <1>4 DEF IssuePasswordRecoveryCodes
  <2>2. account' \in [Operators -> AccountRows]
    BY <1>t, <1>4, AccountStep
  <2>3. Typed'
    BY <1>t, <2>1, <2>2 DEF Typed, history
  <2>4. Numbered' /\ ClaimInv'
    BY <1>t, <2>1 DEF Numbered, Numbers, Starting, ClaimInv, Claims, At
  <2> QED BY <2>3, <2>4 DEF TypeInv
<1>5. CASE UNCHANGED vars
  <2>1. Typed'
    BY <1>t, <1>5 DEF vars, Typed
  <2>2. Numbered' /\ ClaimInv'
    BY <1>t, <1>5 DEF vars, Numbered, Numbers, Starting, ClaimInv, Claims, At
  <2> QED BY <2>1, <2>2 DEF TypeInv
<1> QED BY <1>1, <1>2, <1>3, <1>4, <1>5, Steps

LEMMA TypeAlways == Spec => []TypeInv
<1> QED BY TypeInit, TypeStep, PTL DEF Spec

\* Every table, every statement under way and every record of the history keeps
\* its form: a request is numbered once, a challenge is replaced MAX_CHALLENGE_SWAPS
\* times at most, and one verdict is counted on it.
THEOREM TypeCorrect == Spec => []TypeOK
<1>1. TypeInv => TypeOK
  BY TypedIs DEF TypeInv
<1> QED BY <1>1, TypeAlways, PTL

---------------------------------------------------------------------------
(* Closed requests *)

\* A closed request stays closed through every statement, whatever its handler
\* had read, but for a late delivery receipt.
LEMMA ClosedStep ==
  ASSUME TypeInv, [Next]_vars, NEW r \in Requests
  PROVE  r \notin revived' => Shut(request[r], request'[r])
<1>t. Typed /\ ClaimInv
  BY DEF TypeInv
<1>0. request' = request => Shut(request[r], request'[r])
  BY StatusSets DEF Shut
<1>1. ASSUME NEW t \in Tabs, Opens(t) PROVE request' = request
  BY <1>t, <1>1, OpensFrame
<1>2. ASSUME NEW t \in Tabs, Handlers(t)
      PROVE  r \notin revived' => Shut(request[r], request'[r])
  <2>1. CASE InsertRequest(t)
    <3>1. PICK q \in Requests : /\ request[q].status = "None"
                               /\ \A p \in Requests : p # q => request'[p] = request[p]
      BY <2>1, InsertStep
    <3>2. "None" \notin Closed
      BY DEF Closed, Finished
    <3> QED BY <3>1, <3>2, StatusSets DEF Shut
  <2>2. CASE ~ InsertRequest(t)
    BY <1>t, <1>2, <2>2, HandlerRows
  <2> QED BY <2>1, <2>2
<1>3. ASSUME NEW q \in Requests,
             DeletePasswordResetHistory(q) \/ PurgePasswordResetHistory(q) \/ TimePasses(q)
      PROVE  Shut(request[r], request'[r])
  BY <1>t, <1>3, QuietSteps DEF Quiet
<1>4. ASSUME NEW o \in Operators, IssuePasswordRecoveryCodes(o) PROVE request' = request
  BY <1>4 DEF IssuePasswordRecoveryCodes
<1>5. UNCHANGED vars => request' = request
  BY DEF vars
<1> QED BY <1>0, <1>1, <1>2, <1>3, <1>4, <1>5, Steps

\* A request that was used, cancelled, expired or deleted never opens again,
\* whatever a reviewer, a second challenge or a slow handler does: only a delivery
\* receipt written by id alone (password-reset.ts) reopens it.
THEOREM ClosedRequestsStayClosed == Spec => ClosedStaysClosed
<1>1. TypeInv /\ [Next]_vars =>
        [\A r \in Requests :
           request[r].status \in Finished \cup {"Deleted"} /\ request'[r].status \in Open
             => r \in revived']_vars
  BY ClosedStep DEF Shut, Closed
<1> QED BY <1>1, TypeAlways, PTL DEF Spec, ClosedStaysClosed

---------------------------------------------------------------------------
(* One password per token *)

\* A request that was created is never forgotten.
LEMMA KnownStep ==
  ASSUME TypeInv, [Next]_vars, NEW r \in Requests, request[r].status # "None"
  PROVE  request'[r].status # "None"
<1>t. Typed /\ ClaimInv
  BY DEF TypeInv
<1>1. ASSUME NEW t \in Tabs, Opens(t) PROVE request' = request
  BY <1>t, <1>1, OpensFrame
<1>2. ASSUME NEW t \in Tabs, Handlers(t) PROVE request'[r].status # "None"
  <2>1. CASE InsertRequest(t)
    BY <2>1, InsertStep
  <2>2. CASE ~ InsertRequest(t)
    BY <1>t, <1>2, <2>2, HandlerRows DEF Known
  <2> QED BY <2>1, <2>2
<1>3. ASSUME NEW q \in Requests,
             DeletePasswordResetHistory(q) \/ PurgePasswordResetHistory(q) \/ TimePasses(q)
      PROVE  request'[r].status # "None"
  BY <1>t, <1>3, QuietSteps DEF Quiet, Known
<1>4. ASSUME NEW o \in Operators, IssuePasswordRecoveryCodes(o) PROVE request' = request
  BY <1>4 DEF IssuePasswordRecoveryCodes
<1>5. UNCHANGED vars => request' = request
  BY DEF vars
<1> QED BY <1>1, <1>2, <1>3, <1>4, <1>5, Steps

LEMMA StillClosed ==
  ASSUME TypeInv, [Next]_vars, NEW r \in Requests, request[r].status \in Closed, r \notin revived'
  PROVE  request'[r].status \in Closed
<1>1. request'[r].status \notin Open
  BY ClosedStep DEF Shut
<1>2. request'[r].status # "None"
  BY KnownStep DEF Closed, Finished
<1>3. request'[r].status \in Rows \cup {"None", "Deleted"}
  BY TypeStep DEF TypeInv, Typed, RequestRows
<1> QED BY <1>1, <1>2, <1>3 DEF Rows, Closed

\* The row of a used token is closed, unless a receipt has opened it again.
UseInv ==
  \A r \in Requests : uses[r] > 0 => \/ r \in revived
                                     \/ uses[r] = 1 /\ request[r].status \in Closed

\* uses and revived: who writes them.
LEMMA UsesStep ==
  ASSUME TypeInv, [Next]_vars
  PROVE  /\ revived \subseteq revived'
         /\ uses' = uses \/ \E t \in Tabs : ConsumeToken(t)
<1>t. Typed
  BY DEF TypeInv
<1>1. ASSUME NEW t \in Tabs, Opens(t) PROVE revived' = revived /\ uses' = uses
  BY <1>t, <1>1, OpensFrame
<1>2. ASSUME NEW t \in Tabs, Handlers(t)
      PROVE  revived \subseteq revived' /\ (uses' = uses \/ ConsumeToken(t))
  <2>1. WriteReceipt(t) \/ revived' = revived
    BY <1>2, Zenon DEF Handlers, MarkExpired, CancelEarlier, InsertRequest, WriteSwap, VerdictFails,
       AwaitApproval, StoreToken, SendMail, WriteApproval, ConsumeToken, RevokeOperatorSessions,
       CreateSession, WriteRemainingCodes, WritePassword, HandlerDies, history
  <2>2. ConsumeToken(t) \/ uses' = uses
    BY <1>2, Zenon DEF Handlers, MarkExpired, CancelEarlier, InsertRequest, WriteSwap, VerdictFails,
       AwaitApproval, StoreToken, SendMail, WriteReceipt, WriteApproval, RevokeOperatorSessions,
       CreateSession, WriteRemainingCodes, WritePassword, HandlerDies, history
  <2> QED BY <1>t, <2>1, <2>2, ReceiptStep
<1>3. ASSUME NEW q \in Requests,
             DeletePasswordResetHistory(q) \/ PurgePasswordResetHistory(q) \/ TimePasses(q)
      PROVE  revived' = revived /\ uses' = uses
  BY <1>3 DEF DeletePasswordResetHistory, PurgePasswordResetHistory, TimePasses, history
<1>4. ASSUME NEW o \in Operators, IssuePasswordRecoveryCodes(o)
      PROVE  revived' = revived /\ uses' = uses
  BY <1>4 DEF IssuePasswordRecoveryCodes, history
<1>5. UNCHANGED vars => revived' = revived /\ uses' = uses
  BY DEF vars
<1> QED BY <1>1, <1>2, <1>3, <1>4, <1>5, Steps

LEMMA UseStep == TypeInv /\ UseInv /\ [Next]_vars => UseInv'
<1> SUFFICES ASSUME TypeInv, UseInv, [Next]_vars, NEW r \in Requests, uses'[r] > 0, r \notin revived'
             PROVE  uses'[r] = 1 /\ request'[r].status \in Closed
  BY DEF UseInv
<1>1. r \notin revived
  BY UsesStep
<1>2. uses \in [Requests -> Nat] /\ request \in [Requests -> RequestRows]
  BY DEF TypeInv, Typed
<1>3. CASE uses'[r] = uses[r]
  <2>1. uses[r] = 1 /\ request[r].status \in Closed
    BY <1>1, <1>3 DEF UseInv
  <2> QED BY <1>3, <2>1, StillClosed
<1>4. CASE uses'[r] # uses[r]
  <2>1. PICK t \in Tabs : ConsumeToken(t)
    BY <1>4, UsesStep
  <2>2. job[t].request \in Requests
    BY <2>1, JobOf DEF ConsumeToken, TypeInv
  <2>3. r = job[t].request /\ request[r].status = "Sent" /\ uses' = [uses EXCEPT ![r] = @ + 1]
    BY <1>2, <1>4, <2>1, <2>2 DEF ConsumeToken
  <2>4. request' = [request EXCEPT ![r] = [request[r] EXCEPT !.status = "Used"]]
    BY <2>1, <2>3 DEF ConsumeToken, Update
  <2>5. [request[r] EXCEPT !.status = "Used"].status = "Used"
    BY <1>2, StatusSets, RowFields
  <2>6. request'[r].status = "Used"
    BY <1>2, <2>4, <2>5
  <2>7. uses[r] = 0
    <3>1. request[r].status \notin Closed
      BY <2>3, StatusSets
    <3>2. ~ (uses[r] > 0)
      BY <1>1, <3>1 DEF UseInv
    <3> QED BY <1>2, <3>2
  <2>8. uses'[r] = 1
    BY <1>2, <2>3, <2>7
  <2> QED BY <2>6, <2>8 DEF Closed, Finished
<1> QED BY <1>3, <1>4

\* A token changes the password once, whatever handlers overlap, die or retry;
\* the exception is a request that a late delivery receipt has opened again.
THEOREM OneUsePerToken == Spec => []OneUse
<1>1. Init => UseInv
  BY DEF Init, UseInv
<1>2. TypeInv /\ UseInv => OneUse
  <2> SUFFICES ASSUME TypeInv, UseInv, NEW r \in Requests, uses[r] > 1 PROVE r \in revived
    BY DEF OneUse
  <2>1. uses[r] \in Nat
    BY DEF TypeInv, Typed
  <2> QED BY <2>1 DEF UseInv
<1> QED BY <1>1, <1>2, UseStep, TypeAlways, PTL DEF Spec

---------------------------------------------------------------------------
(* Sessions opened with an earlier password *)

\* Passwords, sessions and interrupted revocations: who writes them.
LEMMA PasswordStep ==
  ASSUME Typed, NEW t \in Tabs, Handlers(t)
  PROVE  \/ WritePassword(t)
         \/ RevokeOperatorSessions(t)
         \/ CreateSession(t)
         \/ HandlerDies(t)
         \/ /\ \A o \in Operators : account'[o].password = account[o].password
            /\ session' = session /\ cut' = cut /\ ~ At(t, "revoke")
<1>1. CASE WriteRemainingCodes(t)
  <2>1. job[t].operator \in Operators
    BY <1>1, JobOf DEF WriteRemainingCodes
  <2>2. account' = [account EXCEPT ![job[t].operator].codes = job[t].left]
    BY <1>1 DEF WriteRemainingCodes
  <2>3. \A o \in Operators : account'[o].password = account[o].password
    BY <2>1, <2>2 DEF Typed, AccountRows
  <2> QED BY <1>1, <2>3 DEF WriteRemainingCodes, At
<1>2. CASE \/ MarkExpired(t) \/ CancelEarlier(t) \/ InsertRequest(t) \/ WriteSwap(t)
           \/ VerdictFails(t) \/ AwaitApproval(t) \/ StoreToken(t)
           \/ (\E d \in BOOLEAN : SendMail(t, d)) \/ WriteReceipt(t) \/ WriteApproval(t)
           \/ ConsumeToken(t)
  <2>1. account' = account /\ session' = session /\ cut' = cut
    BY <1>2, Zenon DEF MarkExpired, CancelEarlier, InsertRequest, WriteSwap, VerdictFails,
       AwaitApproval, StoreToken, SendMail, WriteReceipt, WriteApproval, ConsumeToken, history
  <2>2. ~ At(t, "revoke")
    BY <1>2 DEF At, MarkExpired, CancelEarlier, InsertRequest, WriteSwap, VerdictFails,
       AwaitApproval, StoreToken, SendMail, WriteReceipt, WriteApproval, ConsumeToken
  <2> QED BY <2>1, <2>2
<1> QED BY <1>1, <1>2, Zenon DEF Handlers

LEMMA SessionStep == TypeInv /\ OldSessionsEnd /\ [Next]_vars => OldSessionsEnd'
<1> SUFFICES ASSUME TypeInv, OldSessionsEnd, [Next]_vars,
                    NEW o \in Operators, session'[o] # NoSession,
                    session'[o].password # account'[o].password
             PROVE  \/ session'[o].late
                    \/ o \in cut'
                    \/ \E t \in Tabs : At(t, "revoke")' /\ job'[t].operator = o
  BY DEF OldSessionsEnd
<1>t. /\ Typed /\ account \in [Operators -> AccountRows] /\ session \in [Operators -> SessionRows]
  BY DEF TypeInv, Typed
<1> DEFINE Revoking(u) == At(u, "revoke") /\ job[u].operator = o
<1>0. ASSUME session'[o] = session[o], account'[o].password = account[o].password
      PROVE  session[o].late \/ o \in cut \/ \E u \in Tabs : Revoking(u)
  BY <1>0 DEF OldSessionsEnd
<1>1. ASSUME NEW t \in Tabs, Opens(t)
      PROVE  session'[o].late \/ o \in cut' \/ \E u \in Tabs : Revoking(u)'
  <2>1. /\ account' = account /\ session' = session /\ cut' = cut /\ At(t, "idle")
        /\ \A u \in Tabs : u # t => job'[u] = job[u]
    BY <1>t, <1>1, OpensFrame
  <2>2. \A u \in Tabs : Revoking(u) => Revoking(u)'
    BY <2>1 DEF At
  <2> QED BY <1>0, <2>1, <2>2
<1>2. ASSUME NEW t \in Tabs, Handlers(t)
      PROVE  session'[o].late \/ o \in cut' \/ \E u \in Tabs : Revoking(u)'
  <2>1. \A u \in Tabs : u # t => (Revoking(u) => Revoking(u)')
    BY <1>t, <1>2, HandlerFrame DEF At
  <2>2. CASE WritePassword(t)
    <3>1. job[t].operator \in Operators
      BY <1>t, <2>2, JobOf DEF WritePassword
    <3>2. /\ account' = [account EXCEPT ![job[t].operator].password = @ + 1]
          /\ session' = session /\ cut' = cut /\ ~ At(t, "revoke")
      BY <2>2 DEF WritePassword, history, At
    <3>3. CASE job[t].operator = o
      <4>1. job'[t] = StepOf("revoke", o)
        BY <1>t, <2>2, <3>3, JobStep DEF WritePassword
      <4>2. job'[t].step = "revoke" /\ job'[t].operator = o
        BY <4>1, Records
      <4>3. Revoking(t)'
        BY <4>2 DEF At
      <4> QED BY <4>3
    <3>4. CASE job[t].operator # o
      <4>1. account'[o] = account[o]
        BY <1>t, <3>1, <3>2, <3>4
      <4> QED BY <1>0, <2>1, <3>2, <4>1
    <3> QED BY <3>3, <3>4
  <2>3. CASE RevokeOperatorSessions(t)
    <3>1. /\ account' = account /\ session' = [session EXCEPT ![job[t].operator] = NoSession]
          /\ cut' = cut \ {job[t].operator} /\ job[t].operator \in Operators
      BY <1>t, <2>3, JobOf DEF RevokeOperatorSessions
    <3>2. job[t].operator # o
      BY <1>t, <3>1
    <3>3. session'[o] = session[o]
      BY <1>t, <3>1, <3>2
    <3> QED BY <1>0, <2>1, <3>1, <3>2, <3>3
  <2>4. CASE CreateSession(t)
    <3> DEFINE p == job[t].operator
               new == [password |-> job[t].password, late |-> job[t].password # account[p].password]
    <3>1. /\ account' = account /\ cut' = cut /\ ~ At(t, "revoke") /\ p \in Operators
          /\ session' = [session EXCEPT ![p] = new]
      BY <1>t, <2>4, JobOf DEF CreateSession, history, At
    <3>2. new.password = job[t].password /\ (new.late <=> job[t].password # account[p].password)
      OBVIOUS
    <3> HIDE DEF new
    <3>3. CASE p = o
      BY <1>t, <3>1, <3>2, <3>3
    <3>4. CASE p # o
      <4>1. session'[o] = session[o]
        BY <1>t, <3>1, <3>4
      <4> QED BY <1>0, <2>1, <3>1, <4>1
    <3> QED BY <3>3, <3>4
  <2>5. CASE HandlerDies(t)
    <3>1. /\ account' = account /\ session' = session
          /\ cut' = IF At(t, "revoke") THEN cut \cup {job[t].operator} ELSE cut
      BY <2>5 DEF HandlerDies
    <3> QED BY <1>0, <2>1, <3>1
  <2>6. CASE /\ \A p \in Operators : account'[p].password = account[p].password
             /\ session' = session /\ cut' = cut /\ ~ At(t, "revoke")
    BY <1>0, <2>1, <2>6
  <2> QED BY <1>t, <1>2, <2>2, <2>3, <2>4, <2>5, <2>6, PasswordStep
<1>3. ASSUME NEW r \in Requests,
             DeletePasswordResetHistory(r) \/ PurgePasswordResetHistory(r) \/ TimePasses(r)
      PROVE  UNCHANGED << account, session, job, cut >>
  BY <1>3 DEF DeletePasswordResetHistory, PurgePasswordResetHistory, TimePasses, history
<1>4. ASSUME NEW p \in Operators, IssuePasswordRecoveryCodes(p)
      PROVE  account'[o].password = account[o].password /\ UNCHANGED << session, job, cut >>
  <2>1. account' = [account EXCEPT ![p] = [account[p] EXCEPT !.codes = Sheet(account[p].sheets + 1),
                                                            !.sheets = account[p].sheets + 1]]
    BY <1>t, <1>4 DEF IssuePasswordRecoveryCodes
  <2>2. UNCHANGED << session, job, cut >>
    BY <1>4 DEF IssuePasswordRecoveryCodes, history
  <2> QED BY <1>t, <2>1, <2>2 DEF AccountRows
<1>5. ASSUME UNCHANGED << session, job, cut >>, account'[o].password = account[o].password
      PROVE  session'[o].late \/ o \in cut' \/ \E u \in Tabs : Revoking(u)'
  BY <1>0, <1>5 DEF At
<1>6. UNCHANGED vars => UNCHANGED << account, session, job, cut >>
  BY DEF vars
<1> QED BY <1>1, <1>2, <1>3, <1>4, <1>5, <1>6, Steps

\* After a password change no session opened with an earlier password lives on,
\* but until the handler revokes it or dies, and but one whose sign-in was late.
THEOREM SessionsEndWithPassword == Spec => []OldSessionsEnd
<1>1. Init => OldSessionsEnd
  BY DEF Init, OldSessionsEnd
<1> QED BY <1>1, SessionStep, TypeAlways, PTL DEF Spec

---------------------------------------------------------------------------
(* Recovery codes *)

\* No code is of a sheet still to come; a recovery holds the codes it read, but
\* for the one it takes.
SheetInv ==
  \A o \in Operators :
    /\ \A c \in account[o].codes : c[1] <= account[o].sheets
    /\ \A c \in Codes : << o, c >> \in spent => c[1] <= account[o].sheets
    /\ \A t \in Tabs : At(t, "recode") /\ job[t].operator = o =>
         /\ job[t].code \notin job[t].left
         /\ \A c \in job[t].left \cup {job[t].code} : c[1] <= account[o].sheets
CodeInv == SheetInv /\ DeadCodesStayDead

LEMMA SheetOf ==
  ASSUME NEW n \in 1 .. MaxSheets, NEW c \in Codes
  PROVE  c[1] \in Nat /\ (c \in Sheet(n) <=> c[1] = n)
<1>1. c[1] \in 1 .. MaxSheets /\ c = << c[1], c[2] >> /\ c[2] \in 1 .. SheetSize
  BY DEF Codes
<1>2. c \in Sheet(n) <=> c[1] = n
  BY <1>1 DEF Sheet
<1> QED BY <1>1, <1>2, Bounds

\* A step that leaves the codes and the history of an account alone.
LEMMA CodesKept ==
  ASSUME Typed, CodeInv, NEW o \in Operators,
         account'[o].codes = account[o].codes, account'[o].sheets = account[o].sheets,
         spent' = spent, putBack' = putBack,
         \A u \in Tabs : (At(u, "recode") /\ job[u].operator = o)' =>
            \/ job'[u] = job[u]
            \/ /\ job'[u].code \notin job'[u].left
               /\ job'[u].left \cup {job'[u].code} \subseteq account[o].codes
  PROVE  /\ \A c \in account'[o].codes : c[1] <= account'[o].sheets
         /\ \A c \in Codes : << o, c >> \in spent' => c[1] <= account'[o].sheets
         /\ \A t \in Tabs : At(t, "recode")' /\ job'[t].operator = o =>
              /\ job'[t].code \notin job'[t].left
              /\ \A c \in job'[t].left \cup {job'[t].code} : c[1] <= account'[o].sheets
         /\ \A c \in account'[o].codes :
              << o, c >> \in spent' \/ c \notin Sheet(account'[o].sheets) => << o, c >> \in putBack'
<1>1. \A u \in Tabs : At(u, "recode")' /\ job'[u] = job[u] => At(u, "recode")
  BY DEF At
<1>2. ASSUME NEW t \in Tabs, At(t, "recode")', job'[t].operator = o
      PROVE  /\ job'[t].code \notin job'[t].left
             /\ \A c \in job'[t].left \cup {job'[t].code} : c[1] <= account'[o].sheets
  <2>1. CASE job'[t] = job[t]
    BY <1>1, <1>2, <2>1 DEF CodeInv, SheetInv
  <2>2. CASE job'[t] # job[t]
    <3>1. /\ job'[t].code \notin job'[t].left
          /\ job'[t].left \cup {job'[t].code} \subseteq account[o].codes
      BY <1>2, <2>2
    <3> QED BY <3>1 DEF CodeInv, SheetInv
  <2> QED BY <2>1, <2>2
<1>3. /\ \A c \in account'[o].codes : c[1] <= account'[o].sheets
      /\ \A c \in Codes : << o, c >> \in spent' => c[1] <= account'[o].sheets
  BY DEF CodeInv, SheetInv
<1>4. \A c \in account'[o].codes :
         << o, c >> \in spent' \/ c \notin Sheet(account'[o].sheets) => << o, c >> \in putBack'
  BY DEF CodeInv, DeadCodesStayDead
<1> QED BY <1>2, <1>3, <1>4

LEMMA RecodeStep ==
  ASSUME Typed, CodeInv, NEW t \in Tabs, WriteRemainingCodes(t)
  PROVE  CodeInv'
<1> DEFINE p == job[t].operator
           left == job[t].left
           code == job[t].code
<1>1. /\ p \in Operators /\ left \in SUBSET Codes /\ code \in Codes /\ At(t, "recode")
      /\ account \in [Operators -> AccountRows]
  BY JobOf DEF Typed, WriteRemainingCodes, RecodeJobs
<1>2. /\ account' = [account EXCEPT ![p].codes = left]
      /\ spent' = spent \cup {<< p, code >>}
      /\ putBack' = putBack \cup ({p} \X (left \ account[p].codes))
  BY DEF WriteRemainingCodes
<1>3. /\ \A u \in Tabs : u # t => job'[u] = job[u]
      /\ job'[t].step # "recode"
  BY HandlerFrame DEF Handlers
<1>4. /\ code \notin left
      /\ \A c \in left \cup {code} : c[1] <= account[p].sheets
  BY <1>1 DEF CodeInv, SheetInv
<1> HIDE DEF p, left, code
<1>5. /\ account'[p].codes = left
      /\ \A o \in Operators : o # p => account'[o].codes = account[o].codes
      /\ \A o \in Operators : account'[o].sheets = account[o].sheets
  BY <1>1, <1>2 DEF AccountRows
<1>6. ASSUME NEW o \in Operators
      PROVE  /\ \A c \in account'[o].codes : c[1] <= account'[o].sheets
             /\ \A c \in Codes : << o, c >> \in spent' => c[1] <= account'[o].sheets
  <2>1. \A c \in account'[o].codes : c[1] <= account'[o].sheets
    BY <1>4, <1>5 DEF CodeInv, SheetInv
  <2>2. ASSUME NEW c \in Codes, << o, c >> \in spent' PROVE c[1] <= account'[o].sheets
    <3>1. << o, c >> \in spent \/ (o = p /\ c = code)
      BY <1>2, <2>2
    <3> QED BY <1>4, <1>5, <3>1 DEF CodeInv, SheetInv
  <2> QED BY <2>1, <2>2
<1>7. ASSUME NEW o \in Operators, NEW u \in Tabs, At(u, "recode")', job'[u].operator = o
      PROVE  /\ job'[u].code \notin job'[u].left
             /\ \A c \in job'[u].left \cup {job'[u].code} : c[1] <= account'[o].sheets
  <2>1. u # t /\ job'[u] = job[u] /\ At(u, "recode")
    BY <1>3, <1>7 DEF At
  <2> QED BY <1>5, <1>7, <2>1 DEF CodeInv, SheetInv
<1>8. ASSUME NEW o \in Operators, NEW c \in account'[o].codes,
             << o, c >> \in spent' \/ c \notin Sheet(account'[o].sheets)
      PROVE  << o, c >> \in putBack'
  <2>1. CASE o # p
    <3>1. c \in account[o].codes /\ account'[o].sheets = account[o].sheets
      BY <1>5, <2>1
    <3>2. << o, c >> \in spent' => << o, c >> \in spent
      BY <1>2, <2>1
    <3>3. << o, c >> \in putBack
      BY <1>8, <3>1, <3>2 DEF CodeInv, DeadCodesStayDead
    <3> QED BY <1>2, <3>3
  <2>2. CASE o = p
    <3>1. c \in left /\ c # code
      BY <1>4, <1>5, <2>2
    <3>2. CASE c \in account[p].codes
      <4>1. << o, c >> \in spent' => << o, c >> \in spent
        BY <1>2, <3>1
      <4>2. << o, c >> \in putBack
        BY <1>5, <1>8, <2>2, <3>2, <4>1 DEF CodeInv, DeadCodesStayDead
      <4> QED BY <1>2, <4>2
    <3>3. CASE c \notin account[p].codes
      BY <1>2, <2>2, <3>1, <3>3
    <3> QED BY <3>2, <3>3
  <2> QED BY <2>1, <2>2
<1> QED BY <1>6, <1>7, <1>8 DEF CodeInv, SheetInv, DeadCodesStayDead, At

LEMMA IssueStep ==
  ASSUME Typed, CodeInv, NEW p \in Operators, IssuePasswordRecoveryCodes(p)
  PROVE  CodeInv'
<1> DEFINE n == account[p].sheets + 1
<1>1. account \in [Operators -> AccountRows]
  BY DEF Typed
<1>2. n \in 1 .. MaxSheets /\ n \in Nat /\ account[p].sheets \in Nat /\ account[p].sheets < n
  <2>1. account[p].sheets \in 1 .. MaxSheets
    BY <1>1 DEF AccountRows
  <2>2. account[p].sheets < MaxSheets
    BY DEF IssuePasswordRecoveryCodes
  <2> QED BY <2>1, <2>2, Bounds
<1>3. /\ account' = [account EXCEPT ![p] = [account[p] EXCEPT !.codes = Sheet(n), !.sheets = n]]
      /\ spent' = spent /\ putBack' = putBack /\ job' = job
  BY <1>1 DEF IssuePasswordRecoveryCodes, history
<1> HIDE DEF n
<1>4. /\ account'[p].codes = Sheet(n) /\ account'[p].sheets = n
      /\ \A o \in Operators : o # p => account'[o] = account[o]
  BY <1>1, <1>3 DEF AccountRows
<1>5. \A c \in Codes : c[1] <= account[p].sheets => c[1] <= n /\ c \notin Sheet(n)
  <2> SUFFICES ASSUME NEW c \in Codes, c[1] <= account[p].sheets
               PROVE  c[1] <= n /\ c \notin Sheet(n)
    OBVIOUS
  <2>1. c[1] \in Nat /\ (c \in Sheet(n) <=> c[1] = n)
    BY <1>2, SheetOf
  <2> QED BY <1>2, <2>1
<1>6. \A c \in Sheet(n) : c \in Codes /\ c[1] = n /\ c[1] <= n
  <2>1. Sheet(n) \subseteq Codes
    BY <1>2, SheetCodes
  <2>2. \A c \in Sheet(n) : c[1] = n
    BY <1>2, <2>1, SheetOf
  <2> QED BY <1>2, <2>1, <2>2
<1>7. ASSUME NEW o \in Operators
      PROVE  /\ \A c \in account'[o].codes : c[1] <= account'[o].sheets
             /\ \A c \in Codes : << o, c >> \in spent' => c[1] <= account'[o].sheets
             /\ \A c \in account'[o].codes :
                  << o, c >> \in spent' \/ c \notin Sheet(account'[o].sheets) => << o, c >> \in putBack'
  <2>1. CASE o = p
    <3>1. \A c \in Codes : << o, c >> \in spent => c[1] <= account[p].sheets
      BY <2>1 DEF CodeInv, SheetInv
    <3>2. \A c \in Sheet(n) : << o, c >> \notin spent
      BY <1>5, <1>6, <3>1
    <3> QED BY <1>3, <1>4, <1>5, <1>6, <2>1, <3>1, <3>2
  <2>2. CASE o # p
    <3>1. account'[o] = account[o]
      BY <1>4, <2>2
    <3> QED BY <1>3, <3>1 DEF CodeInv, SheetInv, DeadCodesStayDead
  <2> QED BY <2>1, <2>2
<1>8. ASSUME NEW o \in Operators, NEW u \in Tabs, At(u, "recode"), job[u].operator = o
      PROVE  /\ job[u].code \notin job[u].left
             /\ \A c \in job[u].left \cup {job[u].code} : c[1] <= account'[o].sheets
  <2>1. job[u].left \cup {job[u].code} \subseteq Codes
    BY <1>8, JobOf DEF RecodeJobs
  <2>2. /\ job[u].code \notin job[u].left
        /\ \A c \in job[u].left \cup {job[u].code} : c[1] <= account[o].sheets
    BY <1>8 DEF CodeInv, SheetInv
  <2>3. CASE o = p
    BY <1>4, <1>5, <2>1, <2>2, <2>3
  <2>4. CASE o # p
    BY <1>4, <2>2, <2>4
  <2> QED BY <2>2, <2>3, <2>4
<1> QED BY <1>3, <1>7, <1>8 DEF CodeInv, SheetInv, DeadCodesStayDead, At

LEMMA CodeStep == TypeInv /\ CodeInv /\ [Next]_vars => CodeInv'
<1> SUFFICES ASSUME TypeInv, CodeInv, [Next]_vars PROVE CodeInv'
  OBVIOUS
<1>t. Typed /\ account \in [Operators -> AccountRows]
  BY DEF TypeInv, Typed
<1>1. ASSUME \A o \in Operators : /\ account'[o].codes = account[o].codes
                                  /\ account'[o].sheets = account[o].sheets,
             spent' = spent, putBack' = putBack,
             \A u \in Tabs : At(u, "recode")' =>
                \/ job'[u] = job[u]
                \/ /\ job'[u].code \notin job'[u].left
                   /\ job'[u].left \cup {job'[u].code} \subseteq account[job'[u].operator].codes
      PROVE  CodeInv'
  BY <1>t, <1>1, CodesKept DEF CodeInv, SheetInv, DeadCodesStayDead, At
<1>2. ASSUME NEW t \in Tabs, Opens(t) PROVE CodeInv'
  <2>1. /\ account' = account /\ spent' = spent /\ putBack' = putBack
        /\ Begins(t, job'[t]) /\ \A u \in Tabs : u # t => job'[u] = job[u]
    BY <1>t, <1>2, OpensFrame
  <2> QED BY <1>1, <2>1 DEF Begins, At
<1>3. ASSUME NEW t \in Tabs, Handlers(t) PROVE CodeInv'
  <2>1. /\ \A u \in Tabs : u # t => job'[u] = job[u]
        /\ job'[t].step # "recode"
    BY <1>t, <1>3, HandlerFrame
  <2>2. \A u \in Tabs : At(u, "recode")' => job'[u] = job[u]
    BY <2>1 DEF At
  <2>3. CASE WriteRemainingCodes(t)
    BY <1>t, <2>3, RecodeStep
  <2>4. CASE WritePassword(t)
    <3>1. account' = [account EXCEPT ![job[t].operator].password = @ + 1]
            /\ spent' = spent /\ putBack' = putBack
      BY <2>4 DEF WritePassword, history
    <3>2. \A o \in Operators : /\ account'[o].codes = account[o].codes
                               /\ account'[o].sheets = account[o].sheets
      BY <1>t, <3>1 DEF AccountRows
    <3> QED BY <1>1, <2>2, <3>1, <3>2
  <2>5. CASE account' = account /\ spent' = spent /\ putBack' = putBack
    BY <1>1, <2>2, <2>5
  <2>6. \/ WriteRemainingCodes(t) \/ WritePassword(t)
        \/ account' = account /\ spent' = spent /\ putBack' = putBack
    BY <1>3, Zenon DEF Handlers, MarkExpired, CancelEarlier, InsertRequest, WriteSwap,
       VerdictFails, AwaitApproval, StoreToken, SendMail, WriteReceipt, WriteApproval,
       ConsumeToken, RevokeOperatorSessions, CreateSession, HandlerDies, history
  <2> QED BY <2>3, <2>4, <2>5, <2>6
<1>4. ASSUME NEW r \in Requests,
             DeletePasswordResetHistory(r) \/ PurgePasswordResetHistory(r) \/ TimePasses(r)
      PROVE  UNCHANGED << account, job, spent, putBack >>
  BY <1>4 DEF DeletePasswordResetHistory, PurgePasswordResetHistory, TimePasses, history
<1>5. UNCHANGED vars => UNCHANGED << account, job, spent, putBack >>
  BY DEF vars
<1>6. UNCHANGED << account, job, spent, putBack >> => CodeInv'
  BY <1>1
<1> QED BY <1>t, <1>2, <1>3, <1>4, <1>5, <1>6, IssueStep, Steps

LEMMA CodeInit == Init => CodeInv
<1> SUFFICES ASSUME Init PROVE CodeInv
  OBVIOUS
<1>1. \A o \in Operators : account[o].codes = Sheet(1) /\ account[o].sheets = 1
  BY DEF Init
<1>2. \A c \in Sheet(1) : c[1] = 1
  BY DEF Sheet
<1>3. spent = {} /\ \A t \in Tabs : ~ At(t, "recode")
  BY DEF Init, At, Idle
<1> QED BY <1>1, <1>2, <1>3 DEF CodeInv, SheetInv, DeadCodesStayDead

\* A recovery code that was used, or whose sheet was replaced, is not on the
\* account, unless a recovery that had read the older list wrote it back.
THEOREM DeadCodes == Spec => []DeadCodesStayDead
<1>1. CodeInv => DeadCodesStayDead
  BY DEF CodeInv
<1> QED BY <1>1, CodeInit, CodeStep, TypeAlways, PTL DEF Spec
=============================================================================
