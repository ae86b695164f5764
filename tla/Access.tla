------------------------------- MODULE Access -------------------------------
(***************************************************************************)
(* Who may do what: operators, roles and their permissions, web sessions,  *)
(* and two-step verification (src/src/lib/operators/operator-admin.ts,     *)
(* lib/rbac/role-admin.ts, lib/auth/session-store.ts,                      *)
(* lib/server/auth/two-factor.ts and the routes over them).                *)
(*                                                                         *)
(* A handler reads, then runs its statements one by one with an await      *)
(* before each: every statement is an action, job[t] holds the next one    *)
(* and what was read for it.  Any statement may fail or be the last the    *)
(* handler reaches.  What one handler reads before its first write is      *)
(* taken in one step.                                                      *)
(*                                                                         *)
(* A tab is a browser with a session cookie.  Passwords are right,         *)
(* authenticator codes fit the secret they are checked against, names are  *)
(* unique, and REFERENCES clauses are enforced.  Left out: the attempt     *)
(* limiter, backup codes (PasswordReset has their twin) and the first      *)
(* superadmin's bootstrap.                                                 *)
(***************************************************************************)
EXTENDS Naturals, FiniteSets

CONSTANTS
    Operators,      \* account ids, in use or still free
    Superadmins,    \* accounts that start as superadmin
    Staff,          \* accounts that start in StaffRole
    Roles,          \* role ids, in use or still free
    Super,          \* the superadmin role
    StaffRole,      \* a system role
    Perms,          \* app_permission, without what only superadmins may hold
    Tabs,
    MaxRevision,    \* BOUND: permission revisions
    MaxSecrets      \* BOUND: enrolments of an account

ASSUME AccessAssumption ==
    /\ Super \in Roles /\ StaffRole \in Roles \ {Super}
    /\ Superadmins \subseteq Operators /\ Staff \subseteq Operators \ Superadmins
    /\ IsFiniteSet(Operators) /\ "none" \notin Operators
    /\ MaxRevision \in Nat \ {0} /\ MaxSecrets \in Nat \ {0}

VARIABLES
    role,       \* app_role with its role_permission rows
    operator,   \* master_operator: status and role
    totp,       \* two-step verification of an account; proven is history
    session,    \* the live session of a tab's cookie: its operator, the rows it
                \* was opened under, and whether they had changed by then
    audit,      \* what the last role_permission_audit row says, "" for no row
    author,     \* operators that wrote an audit row
    revision,   \* rbac_revision
    job,        \* the next statement of a tab's handler
    \* history
    cut,        \* operators whose handler died before its revocation
    raced,      \* roles whose permissions were saved by overlapping handlers
    crossed     \* accounts whose secret was replaced or dropped during a confirmation

vars == << role, operator, totp, session, audit, author, revision, job, cut, raced, crossed >>

Statuses == {"Active", "Inactive"}
NoSession == [operator |-> "none"]
Idle == [step |-> "idle"]
OperatorRows == [status : Statuses \cup {"None", "Deleted"}, role : Roles]
RoleRows == [status : Statuses \cup {"None", "Deleted"}, totp : BOOLEAN, grants : SUBSET Perms]

Exists(row) == row.status \in Statuses
ActiveSupers == {o \in Operators : operator[o].status = "Active" /\ operator[o].role = Super}
Holders(r) == {o \in Operators : Exists(operator[o]) /\ operator[o].role = r}

TypeOK ==
    /\ role \in [Roles -> RoleRows]
    /\ operator \in [Operators -> OperatorRows]
    /\ totp \in [Operators -> [secret : 0 .. MaxSecrets, issued : 0 .. MaxSecrets,
                              proven : 0 .. MaxSecrets, on : BOOLEAN]]
    /\ \A t \in Tabs : session[t] = NoSession
                       \/ session[t] \in [operator : Operators, row : OperatorRows,
                                          role : RoleRows, late : BOOLEAN]
    /\ audit \in [Roles -> [Perms -> {"", "granted", "withdrawn"}]]
    /\ author \subseteq Operators /\ cut \subseteq Operators /\ crossed \subseteq Operators
    /\ raced \subseteq Roles
    /\ revision \in 1 .. MaxRevision

Init ==
    /\ role = [r \in Roles |-> [status |-> IF r \in {Super, StaffRole} THEN "Active" ELSE "None",
                                totp |-> FALSE, grants |-> {}]]
    /\ operator = [o \in Operators |->
                     [status |-> IF o \in Superadmins \cup Staff THEN "Active" ELSE "None",
                      role |-> IF o \in Superadmins THEN Super ELSE StaffRole]]
    /\ totp = [o \in Operators |-> [secret |-> 0, issued |-> 0, proven |-> 0, on |-> FALSE]]
    /\ session = [t \in Tabs |-> NoSession]
    /\ audit = [r \in Roles |-> [p \in Perms |-> ""]]
    /\ revision = 1
    /\ job = [t \in Tabs |-> Idle]
    /\ author = {} /\ cut = {} /\ raced = {} /\ crossed = {}

-----------------------------------------------------------------------------
(* Sessions.                                                               *)

At(t, step) == job[t].step = step
Go(t, next) == job' = [job EXCEPT ![t] = next]

\* readSessionRecord: a live session of an active account in an active role.
SignedIn(t) ==
    /\ session[t] # NoSession
    /\ LET row == operator[session[t].operator]
       IN  row.status = "Active" /\ role[row.role].status = "Active"
Actor(t) == session[t].operator

\* requireWebPermission, its superadminOnly form, and a permission that roles may hold.
SuperActs(t) == At(t, "idle") /\ SignedIn(t) /\ operator[Actor(t)].role = Super
May(t, p) ==
    /\ At(t, "idle") /\ SignedIn(t)
    /\ LET r == operator[Actor(t)].role IN r = Super \/ p \in role[r].grants

\* The slip in which the account's other sessions stay, then what the batch does.
SessionsBeside(o, t, opened) == [session EXCEPT ![t] = opened]
SessionsAfter(o, t, opened) ==
    [u \in Tabs |-> IF u = t THEN opened
                    ELSE IF session[u].operator = o THEN NoSession ELSE session[u]]

Without(os) == [u \in Tabs |-> IF session[u].operator \in os THEN NoSession ELSE session[u]]

\* The sign-in page, which a tab with a session leaves.
LoginPage(t) == At(t, "idle") /\ session[t] = NoSession

\* authenticateOperatorWithClient: the rows are read, the gate comes later.
Authenticate(t, o) ==
    /\ LoginPage(t)
    /\ operator[o].status = "Active" /\ role[operator[o].role].status = "Active"
    /\ Go(t, [step |-> "gate", operator |-> o, row |-> operator[o], role |-> role[operator[o].role]])
    /\ UNCHANGED << role, operator, totp, session, audit, author, revision, cut, raced, crossed >>

\* evaluateTwoFactorGate: a role that requires 2FA holds back an account without it.
TwoFactorGate(o) == Exists(operator[o]) /\ (totp[o].on \/ ~ role[operator[o].role].totp)

PassTwoFactorGate(t) ==
    /\ At(t, "gate")
    /\ LET o == job[t].operator
       IN  Go(t, IF TwoFactorGate(o)
                 THEN [job[t] EXCEPT !.step = "session"] ELSE Idle)
    /\ UNCHANGED << role, operator, totp, session, audit, author, revision, cut, raced, crossed >>

\* createSessionRecord: the account's other sessions end in the same batch.
CreateSessionRecord(t) ==
    /\ At(t, "session")
    /\ LET o == job[t].operator
           now == operator[o]
           opened == [operator |-> o, row |-> job[t].row, role |-> job[t].role,
                      late |-> now # job[t].row \/ role[now.role] # job[t].role]
       IN  session' = IF Exists(now) THEN SessionsAfter(o, t, opened) ELSE session
    /\ Go(t, Idle)
    /\ UNCHANGED << role, operator, totp, audit, author, revision, cut, raced, crossed >>

\* revokeSessionRecord on sign-out, and the end of a session's time.
SessionEnds(t) ==
    /\ session[t] # NoSession
    /\ session' = [session EXCEPT ![t] = NoSession]
    /\ UNCHANGED << role, operator, totp, audit, author, revision, job, cut, raced, crossed >>

\* Whom the list of active sessions offers to sign out.
Listed(o) == \E u \in Tabs : session[u].operator = o

\* endSessions: one transaction, for a session or for all of an operator's.
EndSessions(t, o) ==
    /\ May(t, "sessions.manage") /\ Listed(o)
    /\ session' = Without({o})
    /\ UNCHANGED << role, operator, totp, audit, author, revision, job, cut, raced, crossed >>

-----------------------------------------------------------------------------
(* Operators.                                                              *)

OperatorForms == [status : Statuses, role : Roles]

InsertOperator(t, o, row) ==
    /\ SuperActs(t) /\ operator[o].status = "None" /\ Exists(role[row.role])
    /\ operator' = [operator EXCEPT ![o] = row]
    /\ UNCHANGED << role, totp, session, audit, author, revision, job, cut, raced, crossed >>

\* The two refusals that keep a superadmin; the first is the slip that forgets
\* that a change of role removes one too.
KeepsSuperadminIfInactive(o, row) ==
    o \in ActiveSupers /\ row.status # "Active" => Cardinality(ActiveSupers) > 1
KeepsSuperadmin(o, row) ==
    o \in ActiveSupers /\ row # [status |-> "Active", role |-> Super]
       => Cardinality(ActiveSupers) > 1

EditOperator(t, o, row) ==
    /\ SuperActs(t) /\ Exists(operator[o])
    /\ role[row.role].status = "Active"
    /\ KeepsSuperadmin(o, row)
    /\ Go(t, [step |-> "edit", operator |-> o, row |-> row, supers |-> ActiveSupers])
    /\ UNCHANGED << role, operator, totp, session, audit, author, revision, cut, raced, crossed >>

WriteOperator(t) ==
    /\ At(t, "edit")
    /\ LET o == job[t].operator
           row == job[t].row
       IN  IF Exists(role[row.role])
           THEN /\ operator' = IF Exists(operator[o]) THEN [operator EXCEPT ![o] = row] ELSE operator
                /\ Go(t, [step |-> "revoke", of |-> {o}])
           ELSE Go(t, Idle) /\ UNCHANGED operator
    /\ UNCHANGED << role, totp, session, audit, author, revision, cut, raced, crossed >>

\* The table offers every account but one's own.
Removable(t, o) == o # Actor(t) /\ Exists(operator[o])

\* Not the last superadmin, nobody whose name is on the audit trail.
RemoveOperator(t, o) ==
    /\ SuperActs(t) /\ Removable(t, o)
    /\ KeepsSuperadmin(o, [status |-> "Deleted", role |-> Super])
    /\ o \notin author
    /\ Go(t, [step |-> "remove", operator |-> o, supers |-> ActiveSupers])
    /\ UNCHANGED << role, operator, totp, session, audit, author, revision, cut, raced, crossed >>

\* The sessions go with the row.
DeleteOperator(t) ==
    /\ At(t, "remove")
    /\ LET o == job[t].operator
       IN  /\ operator' = [operator EXCEPT ![o] = [status |-> "Deleted", role |-> StaffRole]]
           /\ session' = Without({o})
    /\ Go(t, Idle)
    /\ UNCHANGED << role, totp, audit, author, revision, cut, raced, crossed >>

-----------------------------------------------------------------------------
(* Roles and permissions.                                                  *)

\* insertRole, and the permissions that follow: read in the same handler.
InsertRole(t, r, grants) ==
    /\ SuperActs(t) /\ role[r].status = "None" /\ revision < MaxRevision
    /\ role' = [role EXCEPT ![r].status = "Active"]
    /\ Go(t, [step |-> "grants", role |-> r, before |-> {}, after |-> grants,
              revision |-> revision + 1, actor |-> Actor(t), created |-> TRUE])
    /\ UNCHANGED << operator, totp, session, audit, author, revision, cut, raced, crossed >>

RoleForms == [status : Statuses, totp : BOOLEAN]

EditRole(t, r, form) ==
    /\ SuperActs(t) /\ Exists(role[r]) /\ r # Super
    /\ Go(t, [step |-> "role", role |-> r, status |-> form.status, totp |-> form.totp])
    /\ UNCHANGED << role, operator, totp, session, audit, author, revision, cut, raced, crossed >>

WriteRole(t) ==
    /\ At(t, "role")
    /\ LET r == job[t].role
       IN  /\ role' = IF Exists(role[r])
                      THEN [role EXCEPT ![r].status = job[t].status, ![r].totp = job[t].totp]
                      ELSE role
           /\ Go(t, [step |-> "revokeRole", role |-> r])
    /\ UNCHANGED << operator, totp, session, audit, author, revision, cut, raced, crossed >>

\* revokeRoleSessions: the accounts that have the role now.
RevokeRoleSessions(t) ==
    /\ At(t, "revokeRole")
    /\ session' = Without(Holders(job[t].role))
    /\ cut' = cut \ Holders(job[t].role)
    /\ Go(t, Idle)
    /\ UNCHANGED << role, operator, totp, audit, author, revision, raced, crossed >>

\* The slip in which an edit of an account leaves it signed in.
RevokeNobody(t) ==
    /\ At(t, "revoke") /\ Go(t, Idle)
    /\ UNCHANGED << role, operator, totp, session, audit, author, revision, cut, raced, crossed >>

\* revokeOperatorSessions.
RevokeOperatorSessions(t) ==
    /\ At(t, "revoke")
    /\ session' = Without(job[t].of)
    /\ cut' = cut \ job[t].of
    /\ Go(t, Idle)
    /\ UNCHANGED << role, operator, totp, audit, author, revision, raced, crossed >>

\* The grid offers the roles that are not the system's.
RoleRemovable(r) == Exists(role[r]) /\ r \notin {Super, StaffRole}

RemoveRole(t, r) ==
    /\ SuperActs(t) /\ RoleRemovable(r)
    /\ Holders(r) = {} /\ audit[r] = [p \in Perms |-> ""]
    /\ Go(t, [step |-> "drop", role |-> r])
    /\ UNCHANGED << role, operator, totp, session, audit, author, revision, cut, raced, crossed >>

\* The DELETE fails when an account has taken the role meanwhile.
DeleteRole(t) ==
    /\ At(t, "drop")
    /\ LET r == job[t].role
       IN  role' = IF Holders(r) = {} THEN [role EXCEPT ![r].status = "Deleted", ![r].grants = {}]
                   ELSE role
    /\ Go(t, Idle)
    /\ UNCHANGED << operator, totp, session, audit, author, revision, cut, raced, crossed >>

\* replaceRolePermissions, up to its batch.
ReplaceRolePermissions(t, r, grants) ==
    /\ SuperActs(t) /\ Exists(role[r]) /\ r # Super /\ revision < MaxRevision
    /\ Go(t, [step |-> "grants", role |-> r, before |-> role[r].grants, after |-> grants,
              revision |-> revision + 1, actor |-> Actor(t), created |-> FALSE])
    /\ UNCHANGED << role, operator, totp, session, audit, author, revision, cut, raced, crossed >>

\* The rows a save adds to the trail; the slip records what is granted only.
AuditedGrants(before, after) == after \ before
Audited(before, after) == (before \ after) \cup (after \ before)

\* One transaction: every permission of the catalog, the trail, the revision.
WriteGrants(t) ==
    /\ At(t, "grants")
    /\ LET r == job[t].role
           changed == Audited(job[t].before, job[t].after)
       IN  IF Exists(role[r])
           THEN /\ role' = [role EXCEPT ![r].grants = job[t].after]
                /\ audit' = [audit EXCEPT ![r] = [p \in Perms |->
                       IF p \notin changed THEN @[p]
                       ELSE IF p \in job[t].after THEN "granted" ELSE "withdrawn"]]
                /\ author' = IF changed = {} THEN author ELSE author \cup {job[t].actor}
                /\ revision' = job[t].revision
                /\ raced' = IF \E u \in Tabs \ {t} : At(u, "grants") /\ job[u].role = r
                            THEN raced \cup {r} ELSE raced
                /\ Go(t, [step |-> "revokeRole", role |-> r])
           ELSE Go(t, Idle) /\ UNCHANGED << role, audit, author, revision, raced >>
    /\ UNCHANGED << operator, totp, session, cut, crossed >>

\* A new role whose permissions cannot be written is taken back.
TakeBackRole(t) ==
    /\ At(t, "grants") /\ job[t].created
    /\ LET r == job[t].role
       IN  role' = IF Holders(r) = {} THEN [role EXCEPT ![r].status = "Deleted", ![r].grants = {}]
                   ELSE role
    /\ Go(t, Idle)
    /\ UNCHANGED << operator, totp, session, audit, author, revision, cut, raced, crossed >>

-----------------------------------------------------------------------------
(* Two-step verification.                                                  *)

\* A request of whoever is signed in, about the account itself.
TwoFactorRequest(t) == At(t, "idle") /\ SignedIn(t)
Totp(t) == totp[Actor(t)]

BeginTwoFactorSetup(t) ==
    /\ TwoFactorRequest(t)
    /\ ~ Totp(t).on /\ Totp(t).issued < MaxSecrets
    /\ Go(t, [step |-> "enrol", operator |-> Actor(t)])
    /\ UNCHANGED << role, operator, totp, session, audit, author, revision, cut, raced, crossed >>

\* A write of an account's secret notes a confirmation that is under way.
Crossing(o) ==
    crossed' = IF \E u \in Tabs : At(u, "prove") /\ job[u].operator = o
               THEN crossed \cup {o} ELSE crossed

\* The secret of the enrolment that begins, the next one; on is FALSE in the code.
WithSecret(o, on) ==
    IF Exists(operator[o]) /\ totp[o].issued < MaxSecrets
    THEN [totp EXCEPT ![o] = [@ EXCEPT !.secret = totp[o].issued + 1,
                                       !.issued = totp[o].issued + 1, !.on = on]]
    ELSE totp

\* The slip in which the secret is written already enabled.
WriteSecretEnabled(t) ==
    /\ At(t, "enrol")
    /\ totp' = WithSecret(job[t].operator, TRUE)
    /\ Go(t, Idle)
    /\ UNCHANGED << role, operator, session, audit, author, revision, cut, raced, crossed >>

\* The statement switches 2FA off with the new secret, whatever was confirmed since.
WriteSecret(t) ==
    /\ At(t, "enrol")
    /\ LET o == job[t].operator
       IN  /\ totp' = WithSecret(o, FALSE)
           /\ Crossing(o)
    /\ Go(t, Idle)
    /\ UNCHANGED << role, operator, session, audit, author, revision, cut, raced >>

\* The code fits the secret that is read.
ConfirmTwoFactorSetup(t) ==
    /\ TwoFactorRequest(t) /\ ~ Totp(t).on /\ Totp(t).secret # 0
    /\ Go(t, [step |-> "prove", operator |-> Actor(t), secret |-> Totp(t).secret])
    /\ UNCHANGED << role, operator, totp, session, audit, author, revision, cut, raced, crossed >>

WriteConfirmation(t) ==
    /\ At(t, "prove")
    /\ LET o == job[t].operator
       IN  totp' = IF Exists(operator[o])
                   THEN [totp EXCEPT ![o].on = TRUE, ![o].proven = job[t].secret] ELSE totp
    /\ Go(t, Idle)
    /\ UNCHANGED << role, operator, session, audit, author, revision, cut, raced, crossed >>

\* disableTwoFactor: oneself with a code, another with the permission.
DisableTwoFactor(t, o) ==
    /\ TwoFactorRequest(t)
    /\ o = Actor(t) \/ May(t, "two_factor.reset")
    /\ Exists(operator[o]) /\ totp[o].on
    /\ Go(t, [step |-> "disable", operator |-> o])
    /\ UNCHANGED << role, operator, totp, session, audit, author, revision, cut, raced, crossed >>

WriteDisabled(t) ==
    /\ At(t, "disable")
    /\ totp' = [totp EXCEPT ![job[t].operator].secret = 0, ![job[t].operator].on = FALSE]
    /\ Crossing(job[t].operator)
    /\ Go(t, Idle)
    /\ UNCHANGED << role, operator, session, audit, author, revision, cut, raced >>

\* A statement fails, or the handler ends before it.
HandlerDies(t) ==
    /\ ~ At(t, "idle")
    /\ Go(t, Idle)
    /\ cut' = CASE At(t, "revoke") -> cut \cup job[t].of
                [] At(t, "revokeRole") -> cut \cup Holders(job[t].role)
                [] OTHER -> cut
    /\ UNCHANGED << role, operator, totp, session, audit, author, revision, raced, crossed >>

Handlers(t) ==
    \/ PassTwoFactorGate(t)
    \/ CreateSessionRecord(t)
    \/ WriteOperator(t)
    \/ DeleteOperator(t)
    \/ WriteRole(t)
    \/ RevokeRoleSessions(t)
    \/ RevokeOperatorSessions(t)
    \/ DeleteRole(t)
    \/ WriteGrants(t)
    \/ TakeBackRole(t)
    \/ WriteSecret(t)
    \/ WriteConfirmation(t)
    \/ WriteDisabled(t)
    \/ HandlerDies(t)

\* The two tabs of the page /operators, and the card of one's own account.
OperatorPage(t) ==
    \E o \in Operators :
       \/ RemoveOperator(t, o)
       \/ DisableTwoFactor(t, o)
       \/ \E row \in OperatorForms : InsertOperator(t, o, row) \/ EditOperator(t, o, row)

RolePage(t) ==
    \E r \in Roles :
       \/ RemoveRole(t, r)
       \/ \E form \in RoleForms : EditRole(t, r, form)
       \/ \E grants \in SUBSET Perms : InsertRole(t, r, grants) \/ ReplaceRolePermissions(t, r, grants)

TwoFactorCard(t) ==
    \/ BeginTwoFactorSetup(t)
    \/ ConfirmTwoFactorSetup(t)
    \/ \E o \in Operators : o = Actor(t) /\ DisableTwoFactor(t, o)

Next ==
    \E t \in Tabs :
       \/ Handlers(t)
       \/ OperatorPage(t)
       \/ RolePage(t)
       \/ TwoFactorCard(t)
       \/ SessionEnds(t)
       \/ \E o \in Operators : Authenticate(t, o) \/ EndSessions(t, o)

Spec == Init /\ [][Next]_vars

-----------------------------------------------------------------------------
(* Properties.                                                             *)

\* Two tabs never hold live sessions of one account ("login online terakhir
\* menang", session-store.ts 57-59), in whatever order two sign-ins, an edit
\* and a revocation interleave.
OneLiveSession ==
    \A t, u \in Tabs : session[t] # NoSession /\ session[t].operator = session[u].operator => t = u

\* The last active superadmin disappears ("The last active Superadmin cannot
\* be deactivated", operator-admin.ts 172-174) only through a handler that had
\* counted the superadmins before another handler changed them.
SuperadminKept ==
    [][ActiveSupers # {} /\ ActiveSupers' = {}
         => \E t \in Tabs : job[t].step \in {"edit", "remove"} /\ job[t].supers # ActiveSupers]_vars

Revoking(o) ==
    \E t \in Tabs : \/ At(t, "revoke") /\ o \in job[t].of
                    \/ At(t, "revokeRole") /\ job[t].role = operator[o].role

\* A live session was opened under its operator's and role's rows as they are
\* now: a change of status, role or permissions signs its people out, except
\* until the handler reaches the revocation, after one that died before it,
\* and for a sign-in that had read the old rows.
RightsAreCurrent ==
    \A t \in Tabs : session[t] # NoSession =>
       LET o == session[t].operator
       IN  \/ session[t].row = operator[o] /\ session[t].role = role[operator[o].role]
           \/ session[t].late \/ o \in cut \/ Revoking(o)

\* The last audit row of a permission says what the role has, unless two saves
\* of that role overlapped: each row then compares with what both had read.
AuditReplays ==
    \A r \in Roles : Exists(role[r]) /\ r \notin raced =>
       \A p \in Perms : p \in role[r].grants <=> audit[r][p] = "granted"

\* Two-step verification is on only with a secret that its owner has proved to
\* hold ("baru menyala setelah operator membuktikan", two-factor.ts 134-136),
\* unless the secret was replaced or dropped while it was being confirmed.
OnMeansProven ==
    \A o \in Operators : totp[o].on => totp[o].secret = totp[o].proven \/ o \in crossed
==============================================================================
