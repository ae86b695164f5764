---------------------------- MODULE PasswordReset ----------------------------
(***************************************************************************)
(* "Forgot password": src/src/lib/server/auth/password-reset.ts behind     *)
(* /api/password-reset, the history that /password-reset-history reviews,  *)
(* and the printed recovery codes.                                         *)
(*                                                                         *)
(* A handler is a chain of statements with an await between any two, so    *)
(* each statement is an action and job[t] says which one tab t's request   *)
(* runs next.  A handler takes what it reads in one step and acts on that  *)
(* snapshot.  It can die between two statements.                           *)
(*                                                                         *)
(* Accounts are active, with an active role and an address: what           *)
(* findOperator asks for (Access models their status).  The challenge is   *)
(* the number of its replacements, the verdict on the recording is free,   *)
(* and the setting that chooses between mail and approval may differ at    *)
(* every read.  The audit line of an approval is left out.                 *)
(***************************************************************************)
EXTENDS Naturals, FiniteSets

CONSTANTS
    Operators,      \* accounts
    Tabs,           \* browser tabs, each with one request under way at most
    MaxRequests,    \* BOUND: reset requests
    MaxSheets,      \* BOUND: sets of recovery codes issued for an account
    SheetSize,      \* codes on a sheet
    MaxSwaps,       \* MAX_CHALLENGE_SWAPS
    MaxAttempts     \* MAX_LIVENESS_ATTEMPTS

ASSUME PasswordResetAssumption ==
    /\ \A n \in {MaxRequests, MaxSheets, SheetSize, MaxAttempts} : n \in Nat \ {0}
    /\ MaxSwaps \in Nat
    /\ Operators # {} /\ IsFiniteSet(Tabs)

VARIABLES
    account,    \* password (a version), codes and number of sheets, per account
    request,    \* password_reset_request, by id in order of creation
    session,    \* the live session of an account: the password it was opened
                \* with, and whether that password was replaced by then
    challenge,  \* the request whose challenge a tab shows, 0 for none
    job,        \* the next statement of a tab's handler
    held,       \* requests whose token has reached a person
    \* history
    uses,       \* password changes made through a request's token
    revived,    \* requests that a late delivery receipt has opened again
    spent,      \* recovery codes that were accepted
    putBack,    \* codes that a write of an older list has restored
    cut         \* accounts whose handler died between password and revocation

vars == << account, request, session, challenge, job, held,
           uses, revived, spent, putBack, cut >>
history == << uses, revived, spent, putBack, cut >>

Requests == 1 .. MaxRequests
Open == {"Pending Verification", "Sent"}
Finished == {"Used", "Expired", "Cancelled"}
Rows == Open \cup Finished
Codes == (1 .. MaxSheets) \X (1 .. SheetSize)
Sheet(n) == {n} \X (1 .. SheetSize)
NoSession == [password |-> 0, late |-> FALSE]
Idle == [step |-> "idle"]
NoRow == [status |-> "None", operator |-> CHOOSE o \in Operators : TRUE,
          delivery |-> "", expired |-> FALSE, token |-> FALSE, attempts |-> 0, swaps |-> 0]

Jobs ==
    {Idle}
    \cup [step : {"cancel", "insert", "password", "revoke"}, operator : Operators]
    \cup [step : {"swap", "verdict", "mail", "approve", "expire", "consume"}, request : Requests]
    \cup [step : {"receipt"}, request : Requests, delivered : BOOLEAN]
    \cup [step : {"recode"}, operator : Operators, code : Codes, left : SUBSET Codes]
    \cup [step : {"sign-in"}, operator : Operators, password : Nat]

TypeOK ==
    /\ account \in [Operators -> [password : Nat \ {0}, codes : SUBSET Codes,
                                  sheets : 1 .. MaxSheets]]
    /\ request \in [Requests -> [status : Rows \cup {"None", "Deleted"}, operator : Operators,
                                 delivery : {"", "Awaiting Approval", "Approved", "Sent", "Failed"},
                                 expired : BOOLEAN, token : BOOLEAN,
                                 attempts : 0 .. MaxAttempts, swaps : 0 .. MaxSwaps]]
    /\ session \in [Operators -> [password : Nat, late : BOOLEAN]]
    /\ challenge \in [Tabs -> 0 .. MaxRequests]
    /\ job \in [Tabs -> Jobs]
    /\ held \subseteq Requests /\ revived \subseteq Requests
    /\ uses \in [Requests -> Nat]
    /\ spent \subseteq Operators \X Codes /\ putBack \subseteq Operators \X Codes
    /\ cut \subseteq Operators

Init ==
    /\ account = [o \in Operators |-> [password |-> 1, codes |-> Sheet(1), sheets |-> 1]]
    /\ request = [r \in Requests |-> NoRow]
    /\ session = [o \in Operators |-> NoSession]
    /\ challenge = [t \in Tabs |-> 0]
    /\ job = [t \in Tabs |-> Idle]
    /\ held = {} /\ revived = {} /\ spent = {} /\ putBack = {} /\ cut = {}
    /\ uses = [r \in Requests |-> 0]

-----------------------------------------------------------------------------
(* Statements.                                                             *)

At(t, step) == job[t].step = step
Go(t, next) == job' = [job EXCEPT ![t] = next]
Step(name, r) == [step |-> name, request |-> r]
StepOf(name, o) == [step |-> name, operator |-> o]

\* UPDATE password_reset_request SET ... WHERE id = r AND status IN states.
Update(r, states, row) ==
    request' = IF request[r].status \in states THEN [request EXCEPT ![r] = row] ELSE request

\* loadPendingRequest: a request past its time is to be marked, a closed one ends the handler.
AfterLoad(r, next) ==
    CASE request[r].status # "Pending Verification" -> Idle
      [] request[r].status = "Pending Verification" /\ request[r].expired -> Step("expire", r)
      [] OTHER -> next

\* Both loads mark the request by its id alone, whatever it has become.
MarkExpired(t) ==
    /\ At(t, "expire")
    /\ LET r == job[t].request
       IN  Update(r, Rows, [request[r] EXCEPT !.status = "Expired"])
    /\ Go(t, Idle)
    /\ UNCHANGED << account, session, challenge, held, history >>

-----------------------------------------------------------------------------
(* The request: account, challenge, verdict, delivery.                     *)

Issued == Cardinality({r \in Requests : request[r].status # "None"})
Fits == Issued + Cardinality({t \in Tabs : job[t].step \in {"cancel", "insert"}}) < MaxRequests

\* confirmResetAccount, after both look-ups found the same account.
ConfirmResetAccount(t, o) ==
    /\ At(t, "idle") /\ Fits
    /\ Go(t, StepOf("cancel", o))
    /\ challenge' = [challenge EXCEPT ![t] = 0]
    /\ UNCHANGED << account, request, session, held, history >>

CancelEarlier(t) ==
    /\ At(t, "cancel")
    /\ LET o == job[t].operator
       IN  /\ request' = [r \in Requests |->
                            IF request[r].operator = o /\ request[r].status \in Open
                            THEN [request[r] EXCEPT !.status = "Cancelled"]
                            ELSE request[r]]
           /\ Go(t, StepOf("insert", o))
    /\ UNCHANGED << account, session, challenge, held, history >>

InsertRequest(t) ==
    /\ At(t, "insert")
    /\ LET r == Issued + 1
       IN  /\ request' = [request EXCEPT ![r] = [NoRow EXCEPT !.status = "Pending Verification",
                                                              !.operator = job[t].operator]]
           /\ challenge' = [challenge EXCEPT ![t] = r]
    /\ Go(t, Idle)
    /\ UNCHANGED << account, session, held, history >>

\* swapResetChallenge: the page keeps its challenge, replaced or not.
SwapResetChallenge(t) ==
    /\ At(t, "idle") /\ challenge[t] # 0
    /\ LET r == challenge[t]
       IN  Go(t, AfterLoad(r, IF request[r].swaps < MaxSwaps THEN Step("swap", r) ELSE Idle))
    /\ UNCHANGED << account, request, session, challenge, held, history >>

WriteSwap(t) ==
    /\ At(t, "swap")
    /\ LET r == job[t].request
       IN  Update(r, {"Pending Verification"}, [request[r] EXCEPT !.swaps = @ + 1])
    /\ Go(t, Idle)
    /\ UNCHANGED << account, session, challenge, held, history >>

\* verifyResetLiveness: the page sends one recording for a challenge and drops it.
VerifyResetLiveness(t) ==
    /\ At(t, "idle") /\ challenge[t] # 0
    /\ Go(t, AfterLoad(challenge[t], Step("verdict", challenge[t])))
    /\ challenge' = [challenge EXCEPT ![t] = 0]
    /\ UNCHANGED << account, request, session, held, history >>

VerdictFails(t) ==
    /\ At(t, "verdict")
    /\ LET r == job[t].request
           tries == request[r].attempts + 1
       IN  Update(r, Rows, [request[r] EXCEPT !.attempts = tries,
                    !.status = IF tries >= MaxAttempts THEN "Cancelled" ELSE @])
    /\ Go(t, Idle)
    /\ UNCHANGED << account, session, challenge, held, history >>

\* The route is "in_app": the request waits for a reviewer.
AwaitApproval(t) ==
    /\ At(t, "verdict")
    /\ LET r == job[t].request
       IN  Update(r, {"Pending Verification"},
                  [request[r] EXCEPT !.delivery = "Awaiting Approval", !.expired = FALSE,
                                     !.attempts = @ + 1])
    /\ Go(t, Idle)
    /\ UNCHANGED << account, session, challenge, held, history >>

\* The route is "email": the token is stored, and its mail is sent even when
\* the request was closed meanwhile and the UPDATE found no row.
StoreToken(t) ==
    /\ At(t, "verdict")
    /\ LET r == job[t].request
       IN  /\ Update(r, {"Pending Verification"},
                     [request[r] EXCEPT !.status = "Sent", !.token = TRUE, !.expired = FALSE,
                                        !.attempts = @ + 1])
           /\ Go(t, Step("mail", r))
    /\ UNCHANGED << account, session, challenge, held, history >>

SendMail(t, delivered) ==
    /\ At(t, "mail")
    /\ LET r == job[t].request
       IN  /\ held' = IF delivered THEN held \cup {r} ELSE held
           /\ Go(t, [step |-> "receipt", request |-> r, delivered |-> delivered])
    /\ UNCHANGED << account, request, session, challenge, history >>

\* The receipt sets the status by id alone: 'Sent' or 'Cancelled'.
WriteReceipt(t) ==
    /\ At(t, "receipt")
    /\ LET r == job[t].request
           delivered == job[t].delivered
       IN  /\ Update(r, Rows, [request[r] EXCEPT
                    !.status = IF delivered THEN "Sent" ELSE "Cancelled",
                    !.delivery = IF delivered THEN "Sent" ELSE "Failed"])
           /\ revived' = IF delivered /\ request[r].status \in Finished
                         THEN revived \cup {r} ELSE revived
    /\ Go(t, Idle)
    /\ UNCHANGED << account, session, challenge, held, uses, spent, putBack, cut >>

-----------------------------------------------------------------------------
(* Review: approval and the history.                                       *)

\* What waits for a reviewer.
AwaitsApproval(r) ==
    request[r].status = "Pending Verification" /\ request[r].delivery = "Awaiting Approval"

ApprovePasswordReset(t, r) ==
    /\ At(t, "idle") /\ AwaitsApproval(r)
    /\ Go(t, IF request[r].expired THEN Step("expire", r) ELSE Step("approve", r))
    /\ UNCHANGED << account, request, session, challenge, held, history >>

\* The slip in which the UPDATE of an approval has no condition on the status.
WriteApprovalOfAny(t) ==
    /\ At(t, "approve")
    /\ LET r == job[t].request
       IN  /\ Update(r, Rows, [request[r] EXCEPT !.status = "Sent", !.delivery = "Approved",
                                                !.token = TRUE, !.expired = FALSE])
           /\ held' = held \cup {r}
    /\ Go(t, Idle)
    /\ UNCHANGED << account, session, challenge, history >>

\* The reviewer reads the token once, from the answer, and only when a row changed.
WriteApproval(t) ==
    /\ At(t, "approve")
    /\ LET r == job[t].request
       IN  /\ Update(r, {"Pending Verification"},
                     [request[r] EXCEPT !.status = "Sent", !.delivery = "Approved",
                                        !.token = TRUE, !.expired = FALSE])
           /\ held' = IF request[r].status = "Pending Verification" THEN held \cup {r} ELSE held
    /\ Go(t, Idle)
    /\ UNCHANGED << account, session, challenge, history >>

DeletePasswordResetHistory(r) ==
    /\ request[r].status \in Rows
    /\ request' = [request EXCEPT ![r].status = "Deleted"]
    /\ UNCHANGED << account, session, challenge, job, held, history >>

\* Requests up to the n-th are older than the days asked for.
PurgePasswordResetHistory(n) ==
    /\ \E r \in 1 .. n : request[r].status \in Finished
    /\ request' = [r \in Requests |-> IF r <= n /\ request[r].status \in Finished
                                      THEN [request[r] EXCEPT !.status = "Deleted"]
                                      ELSE request[r]]
    /\ UNCHANGED << account, session, challenge, job, held, history >>

-----------------------------------------------------------------------------
(* The token, the recovery codes, the new password.                        *)

\* loadTokenRequest for the holder of a stored token.
TokenKnown(r) == r \in held /\ request[r].token /\ request[r].status = "Sent"

InspectResetToken(t, r) ==
    /\ At(t, "idle") /\ TokenKnown(r) /\ request[r].expired
    /\ Go(t, Step("expire", r))
    /\ UNCHANGED << account, request, session, challenge, held, history >>

CompletePasswordReset(t, r) ==
    /\ At(t, "idle") /\ TokenKnown(r) /\ ~ request[r].expired
    /\ Go(t, Step("consume", r))
    /\ UNCHANGED << account, request, session, challenge, held, history >>

\* The slip in which the UPDATE has no condition on the status.
ConsumeTokenTwice(t) ==
    /\ At(t, "consume")
    /\ LET r == job[t].request
       IN  /\ Update(r, Rows, [request[r] EXCEPT !.status = "Used"])
           /\ Go(t, StepOf("password", request[r].operator))
           /\ uses' = [uses EXCEPT ![r] = @ + 1]
    /\ UNCHANGED << account, session, challenge, held, revived, spent, putBack, cut >>

\* The token is consumed first: the handler that finds it used stops here.
ConsumeToken(t) ==
    /\ At(t, "consume")
    /\ LET r == job[t].request
       IN  /\ Update(r, {"Sent"}, [request[r] EXCEPT !.status = "Used"])
           /\ IF request[r].status = "Sent"
              THEN /\ Go(t, StepOf("password", request[r].operator))
                   /\ uses' = [uses EXCEPT ![r] = @ + 1]
              ELSE Go(t, Idle) /\ UNCHANGED uses
    /\ UNCHANGED << account, session, challenge, held, revived, spent, putBack, cut >>

\* recoverWithRecoveryCode: the list without the code is computed from what was read.
RecoverWithRecoveryCode(t, o, c) ==
    /\ At(t, "idle") /\ c \in account[o].codes
    /\ Go(t, [step |-> "recode", operator |-> o, code |-> c, left |-> account[o].codes \ {c}])
    /\ UNCHANGED << account, request, session, challenge, held, history >>

WriteRemainingCodes(t) ==
    /\ At(t, "recode")
    /\ LET o == job[t].operator
           left == job[t].left
       IN  /\ account' = [account EXCEPT ![o].codes = left]
           /\ spent' = spent \cup {<< o, job[t].code >>}
           /\ putBack' = putBack \cup ({o} \X (left \ account[o].codes))
           /\ Go(t, StepOf("password", o))
    /\ UNCHANGED << request, session, challenge, held, uses, revived, cut >>

\* The slip in which the new codes are added to the old ones.
IssueCodesBeside(o) ==
    /\ session[o] # NoSession /\ account[o].sheets < MaxSheets
    /\ LET n == account[o].sheets + 1
       IN  account' = [account EXCEPT ![o].codes = @ \cup Sheet(n), ![o].sheets = n]
    /\ UNCHANGED << request, session, challenge, job, held, history >>

\* issuePasswordRecoveryCodes: the owner, signed in, replaces every code.
IssuePasswordRecoveryCodes(o) ==
    /\ session[o] # NoSession /\ account[o].sheets < MaxSheets
    /\ LET n == account[o].sheets + 1
       IN  account' = [account EXCEPT ![o].codes = Sheet(n), ![o].sheets = n]
    /\ UNCHANGED << request, session, challenge, job, held, history >>

WritePassword(t) ==
    /\ At(t, "password")
    /\ LET o == job[t].operator
       IN  /\ account' = [account EXCEPT ![o].password = @ + 1]
           /\ Go(t, StepOf("revoke", o))
    /\ UNCHANGED << request, session, challenge, held, history >>

\* The slip in which the password changes and the sessions stay.
RevokeNothing(t) ==
    /\ At(t, "revoke") /\ Go(t, Idle)
    /\ cut' = cut \ {job[t].operator}
    /\ UNCHANGED << account, request, session, challenge, held, uses, revived, spent, putBack >>

\* revokeOperatorSessions.
RevokeOperatorSessions(t) ==
    /\ At(t, "revoke")
    /\ session' = [session EXCEPT ![job[t].operator] = NoSession]
    /\ cut' = cut \ {job[t].operator}
    /\ Go(t, Idle)
    /\ UNCHANGED << account, request, challenge, held, uses, revived, spent, putBack >>

-----------------------------------------------------------------------------
(* Sign-in, time and crashes.                                              *)

\* The password is checked, and the session is written in a later statement
\* that ends the account's other sessions.
SignIn(t, o) ==
    /\ At(t, "idle")
    /\ Go(t, [step |-> "sign-in", operator |-> o, password |-> account[o].password])
    /\ UNCHANGED << account, request, session, challenge, held, history >>

CreateSession(t) ==
    /\ At(t, "sign-in")
    /\ LET o == job[t].operator
       IN  session' = [session EXCEPT ![o] = [password |-> job[t].password,
                            late |-> job[t].password # account[o].password]]
    /\ Go(t, Idle)
    /\ UNCHANGED << account, request, challenge, held, history >>

TimePasses(r) ==
    /\ request[r].status \in Open /\ ~ request[r].expired
    /\ request' = [request EXCEPT ![r].expired = TRUE]
    /\ UNCHANGED << account, session, challenge, job, held, history >>

HandlerDies(t) ==
    /\ ~ At(t, "idle")
    /\ Go(t, Idle)
    /\ cut' = IF At(t, "revoke") THEN cut \cup {job[t].operator} ELSE cut
    /\ UNCHANGED << account, request, session, challenge, held, uses, revived, spent, putBack >>

Handlers(t) ==
    \/ MarkExpired(t)
    \/ CancelEarlier(t)
    \/ InsertRequest(t)
    \/ WriteSwap(t)
    \/ VerdictFails(t)
    \/ AwaitApproval(t)
    \/ StoreToken(t)
    \/ \E delivered \in BOOLEAN : SendMail(t, delivered)
    \/ WriteReceipt(t)
    \/ WriteApproval(t)
    \/ ConsumeToken(t)
    \/ WriteRemainingCodes(t)
    \/ WritePassword(t)
    \/ RevokeOperatorSessions(t)
    \/ CreateSession(t)
    \/ HandlerDies(t)

\* The pages: /forgot-password, /forgot-password/reset, /password-reset-history.
ForgotPasswordPage(t) ==
    \/ \E o \in Operators : \/ ConfirmResetAccount(t, o)
                            \/ \E c \in Codes : RecoverWithRecoveryCode(t, o, c)
    \/ SwapResetChallenge(t)
    \/ VerifyResetLiveness(t)

ResetPasswordForm(t) ==
    \E r \in Requests : InspectResetToken(t, r) \/ CompletePasswordReset(t, r)

PasswordResetHistoryPage ==
    \E r \in Requests :
       \/ \E t \in Tabs : ApprovePasswordReset(t, r)
       \/ DeletePasswordResetHistory(r)
       \/ PurgePasswordResetHistory(r)

Next ==
    \/ \E t \in Tabs : Handlers(t) \/ ForgotPasswordPage(t) \/ ResetPasswordForm(t)
    \/ PasswordResetHistoryPage
    \/ \E t \in Tabs, o \in Operators : SignIn(t, o)
    \/ \E o \in Operators : IssuePasswordRecoveryCodes(o)
    \/ \E r \in Requests : TimePasses(r)

Spec == Init /\ [][Next]_vars

-----------------------------------------------------------------------------
(* Properties.                                                             *)

\* A token changes the password once ("dua permintaan paralel dengan token
\* yang sama", password-reset.ts 898-900), whatever handlers overlap, die or
\* retry.  The one exception is the code's own: the delivery receipt, written
\* by id alone, reopens a request whose owner was quicker than the mail provider.
OneUse == \A r \in Requests : uses[r] > 1 => r \in revived

\* A request that was used, cancelled, expired or deleted never opens again,
\* but through that receipt: not through a reviewer, a second challenge, or a
\* handler that read it while it was still open.
ClosedStaysClosed ==
    [][\A r \in Requests :
          request[r].status \in Finished \cup {"Deleted"} /\ request'[r].status \in Open
             => r \in revived']_vars

\* After a password change no session opened with an earlier password lives on
\* ("Seluruh sesi aktif operator ikut dicabut", 881-887), except until the
\* handler reaches its revocation or dies before it, and except one whose
\* sign-in had checked the old password and wrote its session afterwards.
OldSessionsEnd ==
    \A o \in Operators :
       session[o] # NoSession /\ session[o].password # account[o].password
          => \/ session[o].late
             \/ o \in cut
             \/ \E t \in Tabs : At(t, "revoke") /\ job[t].operator = o

\* A code that was used, or that stands on a sheet replaced since ("Menerbitkan
\* ulang MENGGANTI seluruh kode lama", 532-533), is not on the account any
\* more, unless a recovery that had read the older list wrote it back.
DeadCodesStayDead ==
    \A o \in Operators : \A c \in account[o].codes :
       << o, c >> \in spent \/ c \notin Sheet(account[o].sheets) => << o, c >> \in putBack
==============================================================================
