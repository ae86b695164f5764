# A verification project for the sample-production desk

The repository is a business application for a cosmetics manufacturer: leads,
sample tickets, MoUs, invoices, production, shipments, quality claims.  It runs
as a web application (Next.js, writing to a Turso/libSQL database) and as a
Tauri desktop and Android client that works **offline first**: the client keeps
a copy of the cloud tables in SQLite, records every local change in an outbox,
pushes the outbox when the network is there, and pulls what changed.

So almost every rule of the business is kept by code that runs in two places, on
rows that somebody else may have changed since they were read.  The project
models the synchronisation, then each business component with the two ways in
which it is written (a handler inside a transaction, and an event of an outbox
whose guard and statements are two round trips), and the order as a whole, in
which finance and production rely on each other.

## 1. Inventory

Paths are relative to the repository; `desktop/` is `src-tauri/src/desktop/`,
`server/` is `src/lib/server/`, `validations/` is `src/lib/validations/`.

| Component | State | Operations | Talks to | What is hard | What makes it correct | Module |
|---|---|---|---|---|---|---|
| **Synchronisation engine** `desktop/sync.rs`, `turso.rs`, `storage.rs` | outbox, conflicts, cursors, revision hashes, local rows; `SYNC_IN_FLIGHT` | enqueue, push, apply results, probe, pull, apply, retry, clear, resolve, release, discard | cloud by HTTP; the timer; the operator | lost answers, late commits, crashes, overlapping pulls, lagging replicas, backoff | nothing counts as synced that is not; an event runs once; an unsent row is kept; the copy equals the cloud when the cursor says so; every event settles | SyncEngine, SyncLiveness |
| **Notifications** `server/notifications.ts`, `desktop/notifications.rs` | `notification_outbox`, bot and group ids | write a row, write a digest, list, claim, skip, send, settle, retry | every request and sync cycle may send; Telegram | many senders, old lists, a crash after the claim, midnight | one sender holds a row; twice only after a lost answer or crash; every row settles; every day in one digest | NotificationRow, NotificationOutbox, DailyDigest |
| **Finance** `server/finance.ts`, `validations/finance.ts`, `desktop/finance.rs` | invoices, incoming funds, allocations, options | issue, cancel, record, void, allocate, pay part and split, confirm a deposit, save options | tickets and production (what may be billed); the outbox | a guard and its statements in two round trips; forms sent again | nothing overpaid, nothing billed twice, a cleared order stays cleared | Finance |
| **Production, shipments, claims** `server/production.ts`, `mou.ts`, `legal.ts` and their validations | MoU, legal documents, batches, purchase orders, shipments, claims | each with its steps; the hand-over to the CRM | finance (down payment, settlement, storage), design (dummy), CRM | gates tested early and used late, forms with an old schedule or stage, no UNIQUE | nothing starts or leaves incomplete; one of each; finished stages stay | Production |
| **An order as a whole** | all of the above | | | each side's gates read the other side's tables | nothing leaves unpaid | Order |
| **Sample tickets, design, approval links** `server/samples.ts`, `approval.ts`, `media.ts`, `validations/sample.ts`, `design.ts` | ticket, price, feedback, design and dummies, links | create, edit, 20-odd steps, price, mockup, links | finance (fees), clients (quota), outbox | two desks and a link answer one iteration; fees and quota move | one answer for an iteration; paid before work; a link answers what was sent | SampleRequest |
| **Clients, leads, CRM, tags** `server/clients.ts`, `leads.ts`, `crm.ts`, imports, `desktop/turso.rs` | clients, leads, contacts, tag registry, a device's copy | register, edit, contact, assign, import, hand over, issue a tag | outbox, production | stale profiles, contacts out of order, tags in a race | codes unique; summary = contacts; hand-over final | Clients |
| **Password reset** `server/auth/password-reset.ts`, `lib/operators/password-reset-history.ts` | requests, tokens, printed codes, sessions | request, swap, verify, approve, mail, complete, recover, purge, issue | mail, reviewer, sessions | a chain of statements with an await between any two | a token once; closed stays closed; old sessions end | PasswordReset |
| **Operators, roles, sessions, second factor** `lib/operators/operator-admin.ts`, `lib/rbac/role-admin.ts`, `lib/auth/session-store.ts`, `server/auth/two-factor.ts` | operators, roles, permissions, audit, sessions, secrets | sign in, edit, remove, save permissions, revoke, enrol, confirm, disable | every page | the same chains, and who acts may lose the right meanwhile | one session; current rights; a superadmin left; an audit that replays | Access |
| **Device session, database switch, media, schema, licence, secrets, backup, documents, mail, dashboard, views** | see `components` in `PROJECT.json` | | | mostly I/O, formats, cryptography or read-only queries | | none |

The hazards, each with the line at which it bites and the properties that watch
it, are listed in `PROJECT.json`.

## 2. Plan

1. The engine: **SyncEngine**, **SyncLiveness** and their proofs (done).
2. Delivery: **NotificationOutbox** with the abstract **NotificationRow**,
   **DailyDigest**, and their proofs (done).
3. The business, one module for each component that has its own writes:
   **Finance** (with proofs), **Production**, **SampleRequest**, **Clients**
   (done); **Order** composes Finance and Production and shows that each
   implements what the other takes for granted (done).
4. Accounts: **PasswordReset**, **Access** (done).
5. Proofs about every module of steps 1 to 4 (done): each safety invariant and
   action property that a run checks is a theorem, and so is each refinement.
6. Left: the sign-in of a device and the switch of its database.

The modules with a device's outbox share one shape, so that one reads like the
next: `Fill` (a desk fills in a form from what it sees), `Submit` (a handler
checks and writes in one transaction; the answer may be lost and the form sent
again), `Pass` (the guard of an event), `Commit` (its statements, in a later round
trip), `Refuse`.  `Write` names what each form writes.  `raced` is a history
variable: an event was written although its guard had ceased to hold.

## 3. Modules and the code

### SyncEngine

One module for a device, its cloud and its operator, since each action of one
reads state of the others.  `PROJECT.json` maps each definition to its lines.

*State.*  A row is the version it holds: `0` absent, `e > 0` written by outbox
event `e`, `< 0` written by the web application.  So "the same row" means "from
the same write", which is what the payload hash compares in the code.

| Variable | Code |
|---|---|
| `cloudRow`, `pulse`, `changelog` | cloud tables; `sync_pulse`, raised by triggers; `sync_changelog` with its unique `event_id`, the receipt |
| `inflight`, `replica` | requests the client timed out on; an older state of the cloud a read may be served from |
| `events` | `desktop_sync_outbox` with `desktop_sync_conflict` (`conflict`), in order of creation; `due` stands for `next_retry_at <= now` |
| `localRow`, `trace` | SQLite rows; `desktop_entity_revision.payload_hash` (`NoTrace`: no record; `PushTrace`: the hash of a pushed payload, which is never the hash of a pulled row) |
| `cursor`, `lastRev` | `desktop_sync_table_cursor`; `desktop_sync_cursor` of `operational` |
| `cycle`, `pull` | what a running `synchronize` holds in its local variables, and what a running `pull_snapshot` does; they vanish in a crash |
| `cleared` | history variable: the events `clear_failed` retired |

*Actions.*  `synchronize` is a cycle: `StartCycle` (SYNC_IN_FLIGHT), the session
check (`SessionValid`/`SessionUnknown`/`SessionSuperseded`), then up to
`RoundMax` batches (`TakeBatch`, `Prefetch`, one step for each event,
`ApplyResults`), then the pull.  An event's step is the atomic batch of
`push_events`: changelog, mutations, receipt.  It is applied (`PushApplied`),
known from its receipt (`AckKnown`), refused before it commits (`PushRefused`),
applied with a lost answer (`PushLost`), or left to commit later
(`PushDelayed`, then `LateCommit` or `LateDrop`).  `BatchFails` and
`RevisionUnknown` are the errors that mark a whole batch failed.

A pull is `ReadPulse`, a `ReadTable` for each stale table (the statements of the
pipeline share no transaction, so the cloud may move between them),
`ReadRevision`, `ApplySnapshot` (one local transaction that reads the guard,
applies each row and stores the cursors).  `pull[d]["cycle"]` is the one of the
cycle; `pull[d]["direct"]` is the one the settings commands start beside it.

The operator's commands are `RetryFailed`, `ClearFailed`, `ResolveConflicts`,
`ResolveConflictsLocal`, `ReleaseQuarantine`, `DiscardQuarantine`.  They and
`Crash` interleave with everything.

*Abstractions.*  What the guard of a domain accepts is a free choice
(`PushRefused`), except that a row's `Parents` must exist; the modules of the
domains have their guards.  Batch cuts by size are a free choice of the length
(`Batches`).  The companion rows some events write are left out.

### SyncLiveness

Extends SyncEngine with the timer.  A behaviour meets at most `MaxFaults`
disturbances (failures, or refused events sent again by hand), wherever it
likes.

*Fairness.*  Weak fairness of the good steps of a cycle and of each pull, and of
the backoff of each event, and of `Replicate`: `AutoSyncRunner` starts a cycle whenever none runs
and the network is there, an HTTP request ends by answer or timeout, and time
passes; a replica catches up.  No fairness is assumed of the operator, the web application, crashes,
or late commits.  Without the bound on resends the property is false,
rightly: the batch takes the oldest events first, so an operator who always
sends a refused event again starves the later ones.

### NotificationRow, NotificationOutbox

`NotificationRow` is the promise about a row: born waiting or skipped, one
verdict, reopened only after FAILED and only by the operator.
`NotificationOutbox` is the code that is to keep it, web and device alike, since
both run the same statements.

*State.*  `rows` is the table, in order of `created_at, rowid`; `bot` and
`chats` the configuration; `sender` the local variables of each running
`dispatch` (configuration, list of due rows, claimed row, answer), lost when it
ends.  `posted` and `unacked` are history variables: the messages that reached a
group, and those whose sender never learned of it or died knowing it.

*Time* is in minutes and relative: a row has the `age` of its claim and the
`wait` until its next attempt, and `Tick` moves both.  `claimed_at IS NULL` and
a claim beyond the lease satisfy the same conditions in the code, so both are
the age `ClaimLease + 1`; that keeps time finite.

*Actions.*  Each round trip of `dispatch` is one action: `LoadContext`,
`AddDigest` (any number, before the list), `PassDigests`, `ListDue`, then for
each row of the list `Claim`, and `Skip` or `Post` followed by `MarkSent` or
`MarkFailed`.  As in the code the claim looks at the row as it is, while the
attempts come from the list; the settling updates have no condition but the id.
`Post` may reach the group or not, and be answered or not, independently.
`Abandon` is the end of the process or of its connection.  `Emit`,
`SaveTelegramConfig`, `SaveChatIds` and `RetryFailed` belong to the operators.

*`SlowSenders`.*  A claimed row is posted within 15 seconds and settled by the
next statement, so a sender is far inside its lease of 10 minutes unless its
process is suspended.  FALSE keeps `Tick` from outrunning a holder; TRUE lets it.

*Fairness* (`LiveSpec`): time passes, each sender starts passes and finishes
round trips.  A device starts one at the end of each sync cycle
(`sync.rs:1929`), and every client has timeouts.  Nothing is assumed of the
operators, of Telegram or of crashes.

### DailyDigest

The two digests `dispatch` writes before it lists: which days they list.  `covers`
holds the days of the digest of each date, `Window` is `cold_digest_window` and
`reorder_digest_range` (they differ in how they write the same interval), and a
sender reads the clock, the last digest and inserts in three separate steps.
`Morning` and `Midnight` cut the day at COLD_DIGEST_HOUR and at midnight; a pass
may run over midnight, but not over the eight hours after it.

### Finance

*State.*  `invoice` and `fund` are the rows in order of insertion; since an
allocation is only ever inserted, the sums over `fund_allocations` are the totals
`paid` and `used`.  `facts[t]` is what an invoice asks of the rest of the order,
`option` the discount, the tax and the installment plan.  `form[d]` is what desk
`d` has filled in, `passed` the devices whose event passed `finance_guard`.

*Actions.*  `InsertInvoice` (`createInvoice`), `CancelRecord` (an invoice or a
fund), `RecordIncomingFund`, `AllocateFund`, `AcceptPartialPayment` (the rest
becomes installments and the invoice RESCHEDULED), `ConfirmDeposit`, each reached
through `Submit` with `Accepted` (what the handler tests) or through `Pass` with
`FinanceGuard` and `Commit`.  `ComputeInvoice`, `ApplyRate` and `Installments` are
the arithmetic of rates in basis points, with its rounding.  `SaveFinanceOption`
changes rates and plans between the form and the write; `TicketMoves` is the
order going on.

### Production

*State.*  The rows of MoUs (each with its legal documents), work orders, purchase
orders, shipments and claims; `handed`, the clients handed over; `outside[t]`,
what Finance and the design desk say of a ticket.  `eta` counts the delays of a
purchase order, `version` stands for `updated_at`.

*Actions.*  Each form's write is an operator (`CreateMou`, `RecordMouStep`,
`RecordLegalDocument`, `CreateBatch`, `AddPurchaseOrder`, `StepPurchaseOrder`,
`MarkMaterialsReady`, `SaveBatchSchedule`, `RecordBatchStage`, `CreateShipment`,
`RecordShipmentStep`, `DecideQcClaim`), with `Rule` what is tested and `Base` what
an event carries of the state it was taken from.  `HandOverToCrm` is part of the
last two.  `StorageAccrues` is the day on which a packed batch has stood too
long, `OutsideMoves` whatever Finance may do under its promises.

### Order

Finance and Production over one set of tables.  `InvoiceTicket` computes Finance's
`facts` from the production tables, `ShipState` computes Production's `outside`
from the invoices, and the two modules are instances with those substitutions, so
their actions run unchanged.  `F!Spec` and `M!Spec` are properties: what the
composition does to the one side is allowed by what the other side's module
assumes of its environment (`TicketMoves`, `OutsideMoves`).  So the environments
of the runs Money and Floor are not inventions.  The instances are of
`FinanceProofs` and `ProductionProofs`, which extend the two modules by what is
proved of them, so that the proofs about Order can cite it.

### SampleRequest

*State.*  `ticket`, `price`, `feedback`, `design`, `mou` (as far as a link answers
it), `bill` (fees, open or paid), `link` (`approval_tokens`), the client's
`lifecycle` and `quota`; `minting` holds a link that is inserted while its
predecessors are not yet revoked, which in the code are two statements.

*Actions.*  `TicketMoves`, `DesignMoves` and `MouMoves` are the tables of steps;
`Target` is the step that depends on fees and quota.  `Handle` is a web handler
with any form; devices go through `Fill`, `Pass` and `Commit`, and `Commit`'s
statement tests status and round once more, as in the code, though not what it
inserts beside.  `CreateApprovalLink` and `RevokeOthers` make a link,
`RespondApproval` answers it, `LinkExpires` ends it.  `FeeMoves` and
`QuotaChanges` are Finance and the client form.

### Clients

*State.*  `client` (with the lead's summary) and `contact` in the cloud, `webTag`,
`registry`; for each device its `copy`, the tag setting it has seen, its own tag
and its `outbox`, sent in order and applied once (which SyncEngine shows).

*Actions.*  `WebWrites` and `DeviceWrites` register, edit, record a contact or
assign; `Push` applies the oldest event of a device (`PushedOver` is the ON
CONFLICT clause), `Pull` replaces the rows of which no event waits;
`EnsureDeviceTag` (`FreeTag`), `ImportClients` (`PlanImport` says which rows of a file
are added, `CodeOf` under which code), `ImportSheet`,
`SaveClientCodeSettings`, `HandOverToCrm`, `LifecycleFromSamples`.

### PasswordReset, Access

Handlers there are chains of statements on one connection, with no transaction
around them.  Every statement is an action, `job[t]` is the statement that tab
`t`'s request comes to next with what it has read, and a handler may die
(`HandlerDies`) before any.  The actions keep the code's names (`ConsumeToken`,
`WriteReceipt`, `RevokeOperatorSessions`, `ReplaceRolePermissions`, ...).  The
history variables (`uses`, `revived`, `spent`, `putBack`, `cut`; `raced`,
`crossed`, `late` in a session) let a property name the race it excepts, so that
it says what holds in all other behaviours.

### Proof modules

One for each module: `SyncEngineProofs`, `FinanceProofs`, `ProductionProofs`,
`SampleRequestProofs`, `ClientsProofs`, `PasswordResetProofs`, `OrderProofs`; and
`StatementProofs` for NotificationOutbox, DailyDigest and Access, the components
that run their statements one by one, which is why the names of the first two's
specifications carry a prefix (`OutboxSpec`, `DigestSpec`, `DigestTypeOK`).
In each, types come first, then lemmas on what an action does to the tables
(`...Is`), then a section for each theorem with its invariant.

## 4. Runs

Each is a `.cfg`; the `MC` modules give the functions, symmetries and state
constraints the configurations need.

| Run | Asks | Result |
|---|---|---|
| SyncOutbox | a row the device may write and one it may only read, web writes, late commits, lagging replicas, a settings command's pull, every failure, retry, quarantine and decision: is an event counted as synced only if logged, and the row kept while a change of it waits? | holds |
| SyncTimer | a ticket and its photo, a settings command's pull beside the cycle's, two disturbances: is an event run once, kept from the cloud while quarantined and its row mirrored when settled, and does every event settle and every device catch up, once failures stop? | holds |
| SyncForget | "a row that came from the cloud only loses its hash" (`sync.rs:2545`) | violated |
| Notify | two senders, two rows (one a digest), a crash, a retry or a reconfiguration: one winner, sent once, the promise of NotificationRow, and does every row settle? | holds |
| Digests | nine days, two senders, passes over midnight, days without a sender: is each day in one digest? | holds |
| Money | a browser and a device on one ticket's settlement and storage, a fund, a deposit, a plan switched off, one lost answer: is nothing overpaid, billed twice or paid out of a voided fund, and does a cleared order stay cleared? | holds |
| Floor | a browser and a device from the MoU to the claim, two MoUs, two schedules, two shipments: does nothing start or leave incomplete, is there one of each, do finished stages stay, is the client handed over exactly when an order is completed? | holds |
| Order | one cashier and one production desk, from the first invoice to the claim, with storage and a lost answer: does nothing leave unpaid, and does each side keep what the other assumes? | holds |
| Tickets | web, an offline device and two links on one ticket with a dummy and a revision: one answer for an iteration, no unpaid work, no answer to something else than what was sent? | holds |
| Clients | two devices and the web, two clients, two contacts, stale profiles, an import: unique codes, a true summary, a final hand-over? | holds |
| Reset | two tabs, mail, approval and printed code, two requests, two sheets: is a token used once, does a closed request stay closed, do old sessions end, do dead codes stay dead? | holds |
| Rights | two tabs, two superadmins and a third account, a role to create, permissions, enrolments, failures at every statement: one session, current rights, a superadmin left, an audit that replays, a proven second factor? | holds |

SyncForget is a finding; `PROJECT.json` quotes the lines and tells the scenario.
The other places where code and comment part are in section 7.

*Which instances.*  `BatchMax = 2` and `RoundMax = 2` stand for 50 and 40: a batch
with a later event behind another, a batch cut short, a second round and the end
by the round limit all occur with two events.  One device suffices for the
properties of an outbox because devices meet only in the cloud, where the web
application already plays the other writer; the proofs hold for any number.
SyncOutbox has every fault the module knows; SyncTimer has `LateCommits` and
`LaggingReads` off, without which `AppliedOnce`, `QuarantineHolds` and
`PulledRowMirrorsCloud` hold and with which they do not (section 7).  Its two
liveness properties also hold with both on and without the settings pull.  Two
senders suffice for notifications, since a claim is lost to one other sender; a
delay and a lease of one minute and two attempts stand for 1, 5, 15 and 60, 10 and
5.  Digests uses the code's 7 days and two more.  Money has the amounts 4 and 7
against a bill of 6 at half price with tax, so that a fund covers a bill, exceeds
it and falls short of it; rates round.  Two desks are enough for every race of
the business modules: one reads, the other writes, the first writes.

*Constraints.*  TLC stops at states outside these; a property is checked in all
states up to there.

| Run | Constraint | Leaves out |
|---|---|---|
| SyncOutbox | `TwoWrites` | more than two writes, whoever writes them; a cycle beside a settings pull but for the application of its rows beside a mere pull |
| SyncTimer | `TwoWrites`, `OneBeside` | more than two writes; a settings pull beside more than one |
| Notify | `OneFault` | two of a crash, an edit and a retry in one behaviour |
| Floor | `Followed` | what comes after a race, and a second MoU beyond its work order |
| Tickets | `Unraced`, `Apart` | what comes after a race, and an MoU beside two links |
| Clients | `OneFollowed` | contacts of two clients at once |
| Reset | `FirstFollowed` | the second request beyond its opening, a third password |
| Rights | `OneChange` | a second change of account, role or secret, a second dead handler |

In the two runs with liveness (SyncTimer, Notify) the constraint only bounds the
writers and the operators, whose actions no fairness is assumed of: a behaviour
that never takes them again is among those checked.  Devices, tabs and
superadmins are interchangeable, which Clients, Reset and Rights use as symmetry;
no run with liveness uses it.  Tickets makes links for samples and dummies, and
records only the client's revision offline: of the steps a device records, that
is the one both a desk and a link can take.

*Type invariants* are in no configuration: they are proved for every module but
NotificationRow, whose implementation is proved.  That of Order is two lemmas, of
its two sides (`FloorAlways`, `MoneyAlways`).

*Deadlock* is checked in every run but Rights: two handlers that overlap can take
away the last superadmins there, and then nobody can sign in.

## 5. Proofs

All theorems are about the specification for any constants that satisfy the
assumptions named in the modules (`TableAssumption`, `TraceAssumption` and
`BoundAssumption` of SyncEngine; `RowAssumption`, `TimingAssumption` and
`BudgetAssumption` of NotificationOutbox; `DayAssumption`, `FinanceAssumption`,
`ProductionAssumption`, `SampleAssumption`, `ClientsAssumption`,
`OrderAssumption`, `AccessAssumption`, `PasswordResetAssumption`): for any number of devices, rows,
events, senders, days, desks, tickets, amounts, clients, accounts, roles and tabs.
They ask that bounds are numbers, that the value for "none" is not one of the
things it stands beside, and, where something is counted, that tabs or operators
are finitely many; `OrderAssumption`, besides those of its two sides, that the
tickets start with nothing of production done.

| Theorem | Says | Assumes besides |
|---|---|---|
| `TypeCorrect` of each module | `[]TypeOK` | |
| *SyncEngine*: `SyncedIsInCloud` | `[]SyncedReachedCloud` | |
| `UnsentRowIsKept` | `UnsentRowKept` | |
| `QuarantineIsKept` | `QuarantineHolds` | no late commits |
| `AppliedAtMostOnce` | `AppliedOnce` | no late commits |
| `RowsMirrorCloud` | `[]PulledRowMirrorsCloud` | no lagging replica |
| *NotificationOutbox*: `OneWinnerHolds` | `[]OneWinner` | senders settle within the lease |
| `SentOnceHolds` | `[]SentOnce` | the same |
| `PromiseIsKept` | NotificationOutbox implements NotificationRow | the same |
| *DailyDigest*: `DigestTypeCorrect` | `[]DigestTypeOK` | |
| `CoveredOnceHolds` | `[]CoveredOnce` | |
| `NoDayMissedHolds` | `[]NoDayMissed` | |
| *Finance*: `NobodyOverpays` | `[]NeverOverpaid` | |
| `StoppedRowsAreEmpty` | `[]StoppedRowsHoldNoMoney` | |
| `OneInvoiceIsLive` | `[]OneLiveInvoice` | |
| `ClearedOrdersStayCleared` | `ClearedStaysCleared` | |
| `OwnerNeverChanges` | `OwnerKept` | |
| *Production*: `StartedHasAll` | `[]StartedComplete` | |
| `OrdersAreSingle` | `[]OnePerOrder` | |
| `GoodsAreSettled` | `[]GoodsLeaveSettled` | |
| `CompletedIsHandedOver` | `[]HandedOverWhenCompleted` | |
| `FinishedStagesStay` | `FinishedStagesKept` | |
| *Order*: `GoodsArePaid` | `[]NothingLeavesUnpaid` | `NothingIsFree` |
| `FinanceKeeps` | Order implements Production (`M!Spec`) | `NothingIsFree`, no device writes invoices |
| `ProductionKeeps` | Order implements Finance (`F!Spec`) | |
| *SampleRequest*: `WorkIsPaid` | `[]PaidBeforeWork` | |
| `OneAnswer` | `[]OneAnswerPerIteration` | |
| `LinkAnswers` | `LinkAnswersWhatWasSent` | |
| *Clients*: `SummaryIsWhatContactsSay` | `[]SummaryMatches` | |
| `HandOverIsFinal` | `HandedOverForGood` | |
| `CodesNeverMeet` | `[]CodesUnique` | `DesksApart`, `FilesBringOldCodes` |
| *Access*: `OneLive` | `[]OneLiveSession` | |
| `RightsFollow` | `[]RightsAreCurrent` | |
| `SuperadminStays` | `SuperadminKept` | |
| `TrailReplays` | `[]AuditReplays` | |
| `OnIsProven` | `[]OnMeansProven` | |
| *PasswordReset*: `OneUsePerToken` | `[]OneUse` | |
| `ClosedRequestsStayClosed` | `ClosedStaysClosed` | |
| `SessionsEndWithPassword` | `[]OldSessionsEnd` | |
| `DeadCodes` | `[]DeadCodesStayDead` | |

The last column holds the assumptions without which the code breaks the claims
(section 7).  `DesksApart` says that the settings name none of the tags that devices
get, `FilesBringOldCodes` that a file brings no code of the day and the tag under
which its other rows are numbered.  `NothingIsFree` says that no discount takes the
whole of an invoice: an invoice over nothing counts as paid and can still be
cancelled, and then what was cleared is so no more (the exception in
`ClearedStaysCleared`).  A device may write an invoice event late, and what it takes
back then is more than Production allows its environment; `GoodsArePaid` covers
devices, up to such an event.  The business properties carry their proviso
themselves: what they claim, they claim while no event was written after its guard
had ceased to hold (`raced`), or but for the race a history variable names.

*Argument.*  `TypeInv` adds to the types that a batch holds events of its own
device (`BatchOwned`): without it an event taken from a batch need not be an
entry at all.  Then:

- **Synced.**  `ReachInv` adds that what a cycle holds as known or applied is
  logged (`ResultsLogged`).  An entry becomes synced only by such a result or by
  `clear_failed` (`SyncedOrigin`), and nothing leaves the log (`LogGrows`).
- **Once, and not in quarantine.**  `PushInv`: nothing is in flight, no event of
  a batch is quarantined, and what is left of a batch and logged has its receipt
  read.  It is inductive because a device has one cycle (so its own steps are
  the only ones that log its events: `NothingElseLogged`) and because only the
  session check of that same cycle quarantines, when it holds no batch
  (`QuarantineOrigin`).
- **Unsent rows.**  Three actions write local rows (`TraceWriters`): a change, a
  snapshot, which reads the guard in its own transaction, and a discard, which
  looks at the remaining entries (`DiscardLeaves`).
- **Mirrored rows.**  `PullInv`: cursors and probed pulses are never ahead of the
  cloud, a table read after its pulse is current as long as the pulse stands,
  and a settled row is the traced version, and the cloud's if the cursor equals
  the pulse.  The step relies on triggers raising the pulse with every write
  (`CloudMoves`), and on how a change stops waiting (`UnsentEnds`): by an
  acknowledgement or a discard, which take the pulled trace away, or by a
  clearing, which the property excludes.

- **Notifications.**  `Calm` strengthens `OneWinner` by three facts: a sender
  past its claim holds a row (`Working`), a held row is waiting and its claim has
  not expired (`Protected`), and a row was posted once more than answers were
  lost only if it is SENT or its holder knows (`Accounted`).  A claim needs an
  age beyond the lease, and no holder outlives it: so the claim meets a row
  nobody holds.  The
  settling updates carry no condition, so the refinement needs the invariant: it
  says that the row they overwrite is still waiting (`VerdictKept`).
- **Digests.**  `Inv` says that digests are never ahead of the passes that may
  be running (`PassDay`, yesterday's until the digest hour), that a digest lists
  only days after the one before it (`Stacked`), and that a sender about to insert
  knows the last digest unless the row of its day exists (`Informed`).
- **Money.**  `Sound` says of all invoices and funds that they are not overpaid,
  and that cancelled and voided ones hold nothing.  The two must be proved together:
  an allocation looks at the remainder of an invoice that is open and of a fund
  that is active.  `WriteSound` has a step for each form, under what the form's
  rule or `finance_guard` tested; the arithmetic of installments (`ShareFits`,
  `InstallmentsNat`) and of rates (`ApplyRateBounds`) is proved first.  A commit
  whose guard has ceased to hold sets `raced`, and then nothing is claimed.
  `OwnerKept` needs no such proviso: its statement (`WHERE client_id IS NULL` or
  the same client) tests what the guard tested.
- **Bills.**  `BillInv` adds to one live invoice of a kind (`Single`) that an
  installment hangs on an invoice that is none (`Rooted`), and that an invoice is
  as its form was made (`RowsMade`): in its time, and without a revision where its
  type has none.  Otherwise two settlements of a ticket would not be the same bill,
  and the test for a duplicate would miss one.  That the forms are so, and stay so
  while they wait, is `MadeInv`: what an invoice rests on only ever grows
  (`FactsKept`).  A cleared ticket then has one settlement, whose row only ever
  moves as `SameBill` and `Continues` say.
- **Production.**  `OrderInv` relates the five tables: a work order is for an
  accepted, paid MoU, and has everything once it has started (`WorkInv`); what is in
  a shipment is packed and paid (`PackedInv`); one of each (`Single...`); the clients
  handed over are those with a completed order (`HandedInv`).  These parts need each
  other, since the guard of a step looks at the tables below its own.
  `OutsideInv`, what Finance promises, holds also after a race.
- **Order.**  The two sides are proved against each other without a circle.
  First `FloorInv`: the types of the production tables, and that a work order is for an
  accepted MoU, which needs nothing of the money.  From it, a step of the order changes an invoice's facts in
  three ways only (`ShownMoves`: an MoU accepted, a batch packed, storage due), and
  these are Finance's `TicketMoves`: `ProductionKeeps`, and with it every invariant of
  Finance (`MoneyInv`).  These say that what is billed was billed in time
  (`BilledInTime`) and what is paid stays paid (`PaidStays`), which is Production's
  `OutsideMoves`: `ProductionStep`, so `FinanceKeeps`, and with it every invariant of
  Production (`WorkOfOrder`).  Production knows of storage only that none was unpaid
  when goods left; that it was billed and paid is `StoragePaid`.
- **Sample tickets.**  `FeesInv` needs no proviso: the statement of a step tests the
  status and the round it was filled in for, so a form that is late still finds the
  fee it was filled in under (`FeesOK`), and a paid fee stays paid.  `AnswerInv`
  counts: a ticket has as many answers as its revisions and its end, and none for an
  iteration still to come.  `LinkInv` says of a link for a sample that its round is
  over, or waits for its answer and shows what was shown.
- **Clients.**  `QueueInv` is about the events that wait on all devices: a client
  whose registration waits is not in the cloud, and waits in one place
  (`WaitingIsNew`); the other events about it wait behind (`Grounded`); a row that
  only a copy has is such a client (`CopiesAreKnown`).  So a pushed event finds its
  row, a registration meets none, and the summary (`SummaryInv`) starts from
  nothing and is moved by contacts alone.  `CodeInv`: the desk that numbers under a
  tag knows every client with a code of it (`NumbersKnown`), as it keeps the rows it
  registered until the cloud has them; so the next number it sees is free at all
  desks.  It needs that a tag is given once (`TagsHeld`) and that desks agree on the
  code of a client (`Agreed`).
- **Accounts.**  The handlers are chains of statements, so each invariant says what
  a handler under way has read is worth: `CountedInv` (one that may take a
  superadmin away has counted another), `ProvenInv` (a confirmation is about the
  secret the account has, or was crossed), `AuditInv` (a save that has read the
  permissions and is alone on its role has them as they are), `RightsInv` (accounts
  in use have roles in use, so a live session has both rows).
- **Password reset.**  `ClaimInv` says that a challenge is shown, replaced and judged
  by one tab; `Numbered` that requests begun and under way fit in the numbers.
  `UseInv`: the row of a used token is closed, unless a receipt reopened it.
  `SheetInv`: no code is of a sheet still to come, which is what makes a new sheet
  kill the old ones.

## 6. Checked only

Liveness (`EventSettles`, `DeviceCatchesUp`, `EveryRowSettles`), since the prover
treats neither fairness nor ENABLED; and, as a property of the finding's run,
`ForgottenRowIsLocal`, which is false.

## 7. Known divergences

Where the code does less than one of its comments, or than one would expect.
A property named here stands in its module as what one would want, marked "In no
run"; adding it to the configuration of its module's run shows the behaviour,
unless a setting is given.

*Synchronisation.*
- `ForgottenRowIsLocal` (run SyncForget): two discarded changes of one row delete
  a row that came from the cloud.
- `ProbeMissesNothing`: a cursor advances past rows the guard skipped; the row stays
  behind until another write of its table ("the probe cannot miss a change",
  `sync.rs:1430`).
- `AppliedOnce` in SyncOutbox, which has late commits: a request that commits after
  the receipts were read is run again ("the receipt is the source of idempotency",
  `turso.rs:4776`).  Likewise `QuarantineHolds`: it may commit after its event was
  quarantined.  `PulledRowMirrorsCloud` fails there because the statements of a pull
  may reach different replicas.
- `CursorNeverBack`: of two overlapping pulls the older snapshot may be applied last;
  only the revision of the log is compared, which web writes do not raise
  (`sync.rs:1341`).
- `QuarantineDiscardable`: an entry with a conflict record cannot be discarded, the
  foreign key forbids it (`commands.rs:3557`).

*Notifications.*  `NOTIFICATION_CLAIM_SQL` does not test `next_attempt_at`, and the
number of attempts comes from the list: with two senders, one that holds an older
list may try a row again while its delay runs, or mark a reopened row FAILED after
one attempt.  The settling updates carry no condition, so a sender that outlives
its lease (`SlowSenders = TRUE`) can overwrite a later verdict.

*Finance.*
- `PaidTwiceConflicts`: between `finance_guard` and the statements another desk may
  pay; the second payment then exceeds the total instead of becoming a conflict.
- `ClearedStaysCleared` excepts it: an invoice over nothing, after a discount of the
  whole, counts as paid and can be cancelled, and the order is cleared no more.
- `SettledInFull`: a settlement whose installments were cancelled counts as cleared.
- `DepositPaysItsClient`: a deposit can be allocated to another client's invoice.
- `recordIncomingFund` has no test against a form sent again: a fund whose answer was
  lost is recorded twice.

*Production.*
- `StageSafeToRepeat`: a stage sent again after its answer was lost marks the next
  stage, since the handler reads the stage it starts from itself.  (`MaxLost = 1`.)
- `DelaySeen`: the warning that an order is late is cleared by a schedule that was
  filled in before the delay.  (`MaxEta = 1`.)

*Approval links.*  `MouLinkDiesWithItsAnswer`: the link of an MoU that was revised and
sent again is valid again, for terms it was not made for; samples and dummies
compare the round, an MoU has none.  (In Tickets with `Kinds = {"MOU"}`,
`MaxTerms = 2`, and no constraint.)

*Clients.*
- `WebTagNotIssued`: the settings may name a tag of the devices' sequence for the web
  while a device that has not pulled them is given it ("the tag of the web must never
  be given to a device", `sync.rs:1172`); both desks then number under it, and codes
  may meet.  (`DesksApart` excludes it.)
- `CodesUnique` where a file brings a code of today and of the tag of the web: the
  import compares the codes a file brings with those it has given, but gives a row
  without code the next number without looking at what the file brought further up (`client-import.ts:186-212`); no index is unique.  (`FilesBringOldCodes`
  excludes it.)
- `OperatorNotLost`: the push of a stale profile takes the lifecycle from the cloud
  but the CRM operator from the device, and so undoes an assignment.

*Password reset* (excepted by the properties through history variables).  The
delivery receipt is written by id and reopens a request that was used or cancelled
while the mail went out.  `MarkExpired` is written by id too and can turn USED into
EXPIRED, and the hint of `password-reset-history.ts:90` is wrong then.  Two
confirmations that overlap leave two open requests.  A list of recovery codes
written back whole can restore codes used or replaced meanwhile, and one code can
be accepted twice by handlers that overlap.

*Accounts* (excepted in the same way).  Two handlers can remove the last two
superadmins, as each has counted before the other wrote.  Two saves of one role's
permissions leave an audit that does not add up.  A confirmation beside a removal
leaves the second factor on without a secret.  A sign-in that has read an account
before its revocation writes its session after it.

## 8. Not modelled

- *Device session*: the sign-in of a device with its local actor and offline
  credentials.  SyncEngine has its effect on the outbox, Access its counterpart on
  the web.  *Database switch*: the wipe of the linked data when the URL changes; no
  module has two clouds.
- *Within the engine*: the companion rows of an event, the wire format, clock skew
  between devices (only the backoff reads a clock), losing or corrupting the file.
- *Within notifications*: the text of a message and the choice of leads (a cold
  digest lists 50 at most), the test message, the bell, and a change of
  `lead_warm_max_days` between two digests.
- *Within finance*: due dates, document numbers, proof photos, a second option of a
  kind.  *Within production*: materials line by line, suppliers, carriers, codes,
  and notes.  *Within tickets*: photos but the mockup, formulas, links for goods.
  *Within clients*: all of a profile but the quota, and more than one day of codes.
- *Within accounts*: the limiters of sign-in attempts, backup codes of the second
  factor, the bootstrap of the first superadmin, the mail address of an account.
- *Media, schema and migrations, licence, secrets, backup and export, documents,
  mail, dashboard, views*: I/O, formats, cryptography, layout, read-only queries.
