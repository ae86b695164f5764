----------------------------- MODULE SyncEngine -----------------------------
(***************************************************************************)
(* The offline-first synchronisation of the desktop client: every device   *)
(* keeps a copy of the cloud tables in SQLite, records each local change   *)
(* in an outbox inside the transaction that makes it, pushes the outbox to *)
(* the cloud database and pulls the tables whose sync_pulse changed.       *)
(*                                                                         *)
(* A row is represented by the version it holds: 0 when it is absent, the  *)
(* number of the outbox event that wrote it, or a negative number for a    *)
(* write of the web application, which goes to the cloud directly.         *)
(*                                                                         *)
(* Covered: batches and their cut by size, lost responses, requests that   *)
(* commit after the client gave up, backoff, process crashes, pulls that   *)
(* run beside a cycle, quarantine, and the operator's decisions about      *)
(* failed, conflicting and quarantined events.  Not covered here: what the *)
(* guard of a domain accepts (a refusal is a free choice), the rows an     *)
(* event writes beside the one it is keyed by, who owns an event.          *)
(***************************************************************************)
EXTENDS Integers, Sequences, FiniteSets

CONSTANTS
  Device,         \* desktop and mobile installations
  Entity,         \* row keys
  Table,          \* synchronised tables
  TableOf,        \* the table a row lives in
  ReadOnly,       \* tables that are only pulled (the operator directory)
  Parents,        \* rows that must exist in the cloud before a row may
  NoTrace,        \* a row without an entry in desktop_entity_revision
  PushTrace,      \* an entry that holds the hash of a pushed payload
  BatchMax,       \* events in a batch (50 in the code)
  RoundMax,       \* MAX_PUSH_BATCHES_PER_CYCLE (40 in the code)
  MaxEvents,      \* bound: local changes
  MaxWebWrites,   \* bound: changes made by the web application
  DirectPulls,    \* may a settings command pull beside a cycle?
  LateCommits,    \* may a request commit after its client timed out?
  LaggingReads    \* may a read be served by a replica that lags behind?

ASSUME TableAssumption ==
  /\ TableOf \in [Entity -> Table]
  /\ ReadOnly \subseteq Table
  /\ Parents \in [Entity -> SUBSET Entity]

ASSUME TraceAssumption ==
  /\ NoTrace \notin Int
  /\ PushTrace \notin Int
  /\ NoTrace # PushTrace

ASSUME BoundAssumption ==
  /\ BatchMax \in Nat \ {0}
  /\ RoundMax \in Nat \ {0}
  /\ MaxEvents \in Nat
  /\ MaxWebWrites \in Nat
  /\ DirectPulls \in BOOLEAN
  /\ LateCommits \in BOOLEAN
  /\ LaggingReads \in BOOLEAN

VARIABLES
  cloudRow,    \* the rows of the cloud database
  pulse,       \* sync_pulse: a counter per table that triggers increase
  changelog,   \* sync_changelog: applied events, the index is the revision
  inflight,    \* requests that may still commit though the client gave up
  replica,     \* an older state of the cloud that reads may be served from
  webWrites,   \* number of changes the web application has made
  events,      \* every outbox entry in the order of its creation
  localRow,    \* the rows of each device
  trace,       \* desktop_entity_revision.payload_hash of each row
  cursor,      \* desktop_sync_table_cursor of each table, -1 when absent
  lastRev,     \* desktop_sync_cursor of the domain 'operational'
  cycle,       \* the synchronisation cycle of each device
  pull,        \* the pulls of each device: the one of the cycle, one beside it
  cleared      \* history: the events an operator cleared without a push

cloudVars  == <<cloudRow, pulse, changelog>>
wireVars   == <<inflight, replica, webWrites>>
deviceVars == <<localRow, trace, cursor, lastRev>>
vars == <<cloudRow, pulse, changelog, inflight, replica, webWrites, events,
          localRow, trace, cursor, lastRev, cycle, pull, cleared>>

NoRow  == 0
Puller == {"cycle", "direct"}
Unsent == {"pending", "failed", "conflict"}

-----------------------------------------------------------------------------
(* The outbox *)

Issued == 1 .. Len(events)

\* The entries of a device's outbox; a discarded entry is a deleted record.
Outbox(d) == {e \in Issued : events[e].dev = d /\ events[e].status # "discarded"}

\* PendingGuard: the rows a pull must leave alone.
GuardedWhilePending(d, x) ==
  \E e \in Outbox(d) : events[e].ent = x /\ events[e].status = "pending"

Guarded(d, x) ==
  \E e \in Outbox(d) : events[e].ent = x /\ events[e].status \in Unsent

\* pending_events: what may be pushed now.
EligibleOnce(d) ==
  {e \in Outbox(d) : ~events[e].quarantined /\ events[e].status = "pending"}
EligibleInQuarantine(d) ==
  {e \in Outbox(d) : \/ events[e].status = "pending"
                     \/ events[e].status = "failed" /\ events[e].due}

Eligible(d) ==
  {e \in Outbox(d) : /\ ~events[e].quarantined
                     /\ \/ events[e].status = "pending"
                        \/ events[e].status = "failed" /\ events[e].due}

\* The oldest eligible events, at most BatchMax; a batch shorter than that
\* was cut by limit_batch_by_size.
Batches(d) ==
  {S \in SUBSET Eligible(d) :
     /\ S # {}
     /\ Cardinality(S) <= BatchMax
     /\ \A e \in S : \A f \in Eligible(d) : f < e => f \in S}

Logged == {changelog[i] : i \in 1 .. Len(changelog)}

-----------------------------------------------------------------------------
IdleCycle == [pc |-> "idle", round |-> 0, last |-> FALSE,
              batch |-> {}, known |-> {}, applied |-> {}, refused |-> {}]

IdlePull == [pc |-> "idle", base |-> 0, seen |-> [t \in Table |-> -1],
             wanted |-> {}, left |-> {}, rows |-> [x \in Entity |-> NoRow],
             rev |-> 0]

Init ==
  /\ cloudRow  = [x \in Entity |-> NoRow]
  /\ pulse     = [t \in Table |-> 0]
  /\ changelog = <<>>
  /\ inflight  = {}
  /\ replica   = [row |-> cloudRow, pulse |-> pulse, rev |-> 0]
  /\ webWrites = 0
  /\ events    = <<>>
  /\ localRow  = [d \in Device |-> [x \in Entity |-> NoRow]]
  /\ trace     = [d \in Device |-> [x \in Entity |-> NoTrace]]
  /\ cursor    = [d \in Device |-> [t \in Table |-> -1]]
  /\ lastRev   = [d \in Device |-> 0]
  /\ cycle     = [d \in Device |-> IdleCycle]
  /\ pull      = [d \in Device |-> [p \in Puller |-> IdlePull]]
  /\ cleared   = {}

-----------------------------------------------------------------------------
(* Writers *)

\* A command changes a row and enqueues the event in one local transaction.
LocalWrite(d, x) ==
  /\ Len(events) < MaxEvents
  /\ TableOf[x] \notin ReadOnly
  /\ localRow' = [localRow EXCEPT ![d][x] = Len(events) + 1]
  /\ events' = Append(events, [dev |-> d, ent |-> x, status |-> "pending",
                               due |-> FALSE, quarantined |-> FALSE,
                               conflict |-> "none"])
  /\ UNCHANGED <<cloudVars, wireVars, trace, cursor, lastRev, cycle, pull, cleared>>

WebSet(x, v) ==
  /\ webWrites < MaxWebWrites
  /\ webWrites' = webWrites + 1
  /\ cloudRow' = [cloudRow EXCEPT ![x] = v]
  /\ pulse' = [pulse EXCEPT ![TableOf[x]] = @ + 1]
  /\ UNCHANGED <<changelog, inflight, replica, events, deviceVars, cycle, pull, cleared>>

WebWrite(x) == WebSet(x, -(webWrites + 1))

\* Rows are only ever deleted from the tables the devices do not write.
WebDelete(x) == TableOf[x] \in ReadOnly /\ cloudRow[x] # NoRow /\ WebSet(x, NoRow)

\* A replica catches up with the primary.
Replicate ==
  /\ LaggingReads
  /\ replica' = [row |-> cloudRow, pulse |-> pulse, rev |-> Len(changelog)]
  /\ UNCHANGED <<cloudVars, inflight, webWrites, events, deviceVars, cycle, pull, cleared>>

-----------------------------------------------------------------------------
(* The cycle: session check, push, pull.  SYNC_IN_FLIGHT admits one.       *)

\* The pull that ends a cycle starts by reading the operational cursor.
StartedPull(d) == [IdlePull EXCEPT !.pc = "pulse", !.base = lastRev[d]]

GoPull(d) ==
  /\ cycle' = [cycle EXCEPT ![d] = [IdleCycle EXCEPT !.pc = "pull"]]
  /\ pull'  = [pull EXCEPT ![d]["cycle"] = StartedPull(d)]

StartCycle(d) ==
  /\ cycle[d].pc = "idle"
  /\ cycle' = [cycle EXCEPT ![d].pc = "session"]
  /\ UNCHANGED <<cloudVars, wireVars, events, deviceVars, pull, cleared>>

SessionValid(d) ==
  /\ cycle[d].pc = "session"
  /\ cycle' = [cycle EXCEPT ![d].pc = "batch"]
  /\ UNCHANGED <<cloudVars, wireVars, events, deviceVars, pull, cleared>>

\* The cloud did not answer: this cycle does not push.
SessionUnknown(d) ==
  /\ cycle[d].pc = "session"
  /\ GoPull(d)
  /\ UNCHANGED <<cloudVars, wireVars, events, deviceVars, cleared>>

\* The session was superseded: every unsent event is quarantined.
SessionSuperseded(d) ==
  /\ cycle[d].pc = "session"
  /\ events' = [e \in Issued |->
                  IF events[e].dev = d /\ events[e].status \in Unsent
                  THEN [events[e] EXCEPT !.quarantined = TRUE] ELSE events[e]]
  /\ GoPull(d)
  /\ UNCHANGED <<cloudVars, wireVars, deviceVars, cleared>>

TakeBatch(d) ==
  /\ cycle[d].pc = "batch"
  /\ cycle[d].round < RoundMax
  /\ \E S \in Batches(d) :
       cycle' = [cycle EXCEPT ![d] =
                   [IdleCycle EXCEPT !.pc = "prefetch", !.batch = S,
                      !.round = cycle[d].round + 1,
                      !.last = (S = Eligible(d) /\ Cardinality(S) < BatchMax)]]
  /\ UNCHANGED <<cloudVars, wireVars, events, deviceVars, pull, cleared>>

\* Nothing to push, or no round left.
EndPush(d) ==
  /\ cycle[d].pc = "batch"
  /\ Eligible(d) = {} \/ cycle[d].round = RoundMax
  /\ GoPull(d)
  /\ UNCHANGED <<cloudVars, wireVars, events, deviceVars, cleared>>

\* The schema check before the first batch fails: no event is marked.
SchemaRefused(d) ==
  /\ cycle[d].pc = "batch"
  /\ cycle[d].round = 0
  /\ Eligible(d) # {}
  /\ GoPull(d)
  /\ UNCHANGED <<cloudVars, wireVars, events, deviceVars, cleared>>

\* One query reads which events of the batch have a receipt.
ReceiptsUnread(S) == {}

Receipts(S) == S \cap Logged

Prefetch(d) ==
  /\ cycle[d].pc = "prefetch"
  /\ cycle' = [cycle EXCEPT ![d] =
                 [@ EXCEPT !.pc = "push", !.known = Receipts(cycle[d].batch)]]
  /\ UNCHANGED <<cloudVars, wireVars, events, deviceVars, pull, cleared>>

Todo(d) == cycle[d].batch \ (cycle[d].applied \cup cycle[d].refused)

\* push_events works on the oldest event of the batch without a result.
AtEvent(d, e) == /\ cycle[d].pc = "push"
                 /\ e \in Todo(d)
                 /\ \A f \in Todo(d) : e <= f

\* The atomic batch: changelog, the mutations of the event, the receipt.  An
\* event that is in the changelog already leaves it as it is.
Execute(e) ==
  LET x == events[e].ent IN
  /\ cloudRow'  = [cloudRow EXCEPT ![x] = e]
  /\ pulse'     = [pulse EXCEPT ![TableOf[x]] = @ + 1]
  /\ changelog' = IF e \in Logged THEN changelog ELSE Append(changelog, e)

ParentsExist(e) == \A x \in Parents[events[e].ent] : cloudRow[x] # NoRow

AckKnown(d) ==
  \E e \in cycle[d].known :
    /\ AtEvent(d, e)
    /\ cycle' = [cycle EXCEPT ![d].applied = @ \cup {e}]
    /\ UNCHANGED <<cloudVars, wireVars, events, deviceVars, pull, cleared>>

PushApplied(d) ==
  \E e \in cycle[d].batch \ cycle[d].known :
    /\ AtEvent(d, e)
    /\ ParentsExist(e)
    /\ Execute(e)
    /\ cycle' = [cycle EXCEPT ![d].applied = @ \cup {e}]
    /\ UNCHANGED <<wireVars, events, deviceVars, pull, cleared>>

\* A guard, the database or the network refuses the event before it commits.
PushRefused(d) ==
  \E e \in cycle[d].batch \ cycle[d].known :
    /\ AtEvent(d, e)
    /\ cycle' = [cycle EXCEPT ![d].refused = @ \cup {e}]
    /\ UNCHANGED <<cloudVars, wireVars, events, deviceVars, pull, cleared>>

\* The transaction commits but its response is lost: push_events reports any
\* error of execute_atomic as a conflict.
PushLost(d) ==
  \E e \in cycle[d].batch \ cycle[d].known :
    /\ AtEvent(d, e)
    /\ ParentsExist(e)
    /\ Execute(e)
    /\ cycle' = [cycle EXCEPT ![d].refused = @ \cup {e}]
    /\ UNCHANGED <<wireVars, events, deviceVars, pull, cleared>>

\* The client times out first; the server may commit later.  At most one such
\* request per event is kept.
PushDelayed(d) ==
  \E e \in cycle[d].batch \ cycle[d].known :
    /\ LateCommits
    /\ AtEvent(d, e)
    /\ ParentsExist(e)
    /\ inflight' = inflight \cup {e}
    /\ cycle' = [cycle EXCEPT ![d].refused = @ \cup {e}]
    /\ UNCHANGED <<cloudVars, replica, webWrites, events, deviceVars, pull, cleared>>

LateCommit(e) ==
  /\ e \in inflight
  /\ inflight' = inflight \ {e}
  /\ Execute(e)
  /\ UNCHANGED <<replica, webWrites, events, deviceVars, cycle, pull, cleared>>

LateDrop(e) ==
  /\ e \in inflight
  /\ inflight' = inflight \ {e}
  /\ UNCHANGED <<cloudVars, replica, webWrites, events, deviceVars, cycle, pull, cleared>>

\* mark_batch_failed: whatever the entries became meanwhile, if they exist.
FailedAsError(r)  == [r EXCEPT !.status = "error", !.due = FALSE]
FailedAsSynced(r) == [r EXCEPT !.status = "synced", !.due = FALSE]

Failed(r) == [r EXCEPT !.status = "failed", !.due = FALSE]

MarkFailed(S) ==
  events' = [e \in Issued |->
               IF e \in S /\ events[e].status # "discarded"
               THEN Failed(events[e]) ELSE events[e]]

\* A request outside the atomic batch fails (the prefetch, a guard's query,
\* the query for the revision): the whole batch is marked failed.
BatchFails(d) ==
  /\ cycle[d].pc \in {"prefetch", "push"}
  /\ MarkFailed(cycle[d].batch)
  /\ GoPull(d)
  /\ UNCHANGED <<cloudVars, wireVars, deviceVars, cleared>>

\* The query for the revision fails after the event was committed.
RevisionUnknown(d) ==
  \E e \in cycle[d].batch \ cycle[d].known :
    /\ AtEvent(d, e)
    /\ ParentsExist(e)
    /\ Execute(e)
    /\ MarkFailed(cycle[d].batch)
    /\ GoPull(d)
    /\ UNCHANGED <<wireVars, deviceVars, cleared>>

Resolved(record) == IF record = "open" THEN "resolved" ELSE record

\* What apply_push_results makes of an entry.
Resulting(d, e) ==
  CASE events[e].status = "discarded" -> events[e]
    [] e \in cycle[d].applied -> [events[e] EXCEPT !.status = "synced",
                                    !.due = FALSE, !.conflict = Resolved(@)]
    [] e \in cycle[d].refused -> [events[e] EXCEPT !.status = "conflict",
                                    !.due = FALSE, !.conflict = "open"]
    [] OTHER -> events[e]

ApplyResults(d) ==
  /\ cycle[d].pc = "push"
  /\ Todo(d) = {}
  /\ events' = [e \in Issued |-> Resulting(d, e)]
  /\ trace' = [trace EXCEPT ![d] = [x \in Entity |->
                 IF \E e \in cycle[d].applied :
                      events[e].ent = x /\ events[e].status # "discarded"
                 THEN PushTrace ELSE @[x]]]
  /\ IF cycle[d].last
     THEN GoPull(d)
     ELSE /\ cycle' = [cycle EXCEPT ![d] = [IdleCycle EXCEPT !.pc = "batch",
                                              !.round = cycle[d].round]]
          /\ UNCHANGED pull
  /\ UNCHANGED <<cloudVars, wireVars, localRow, cursor, lastRev, cleared>>

-----------------------------------------------------------------------------
(* The pull: probe sync_pulse, read the tables that changed, apply.        *)

Primary == [row |-> cloudRow, pulse |-> pulse, rev |-> Len(changelog)]
Sources == {Primary} \cup (IF LaggingReads THEN {replica} ELSE {})

\* A pull ends; the cycle it belongs to ends with it (SyncInFlightGuard).
EndPullAlone(d, p) == /\ pull' = [pull EXCEPT ![d][p] = IdlePull]
                      /\ UNCHANGED cycle

EndPull(d, p) ==
  /\ pull' = [pull EXCEPT ![d][p] = IdlePull]
  /\ cycle' = IF p = "cycle" THEN [cycle EXCEPT ![d] = IdleCycle] ELSE cycle

\* Commands that change the database settings pull outside SYNC_IN_FLIGHT.
StartDirectPull(d) ==
  /\ DirectPulls
  /\ pull[d]["direct"].pc = "idle"
  /\ pull' = [pull EXCEPT ![d]["direct"] = StartedPull(d)]
  /\ UNCHANGED <<cloudVars, wireVars, events, deviceVars, cycle, cleared>>

Stale(d, src) == {t \in Table : cursor[d][t] # src.pulse[t]}

ReadPulse(d, p) ==
  /\ pull[d][p].pc = "pulse"
  /\ \E src \in Sources :
       IF Stale(d, src) = {}
       THEN EndPull(d, p)
       ELSE /\ pull' = [pull EXCEPT ![d][p] =
                          [@ EXCEPT !.pc = "read", !.seen = src.pulse,
                                    !.wanted = Stale(d, src),
                                    !.left = Stale(d, src)]]
            /\ UNCHANGED cycle
  /\ UNCHANGED <<cloudVars, wireVars, events, deviceVars, cleared>>

\* The rows read so far with those of table t.
WithTable(d, p, t, src) ==
  [x \in Entity |-> IF TableOf[x] = t THEN src.row[x] ELSE pull[d][p].rows[x]]

\* One statement of the pipeline reads one table; they share no transaction.
ReadTable(d, p) ==
  /\ pull[d][p].pc = "read"
  /\ \E t \in pull[d][p].left, src \in Sources :
       pull' = [pull EXCEPT ![d][p] =
                  [@ EXCEPT !.left = pull[d][p].left \ {t},
                            !.rows = WithTable(d, p, t, src)]]
  /\ UNCHANGED <<cloudVars, wireVars, events, deviceVars, cycle, cleared>>

\* The last statement reads MAX(sync_changelog.id); the cursor is its floor.
ReadRevision(d, p) ==
  /\ pull[d][p].pc = "read"
  /\ pull[d][p].left = {}
  /\ \E src \in Sources :
       pull' = [pull EXCEPT ![d][p] =
                  [@ EXCEPT !.pc = "apply",
                            !.rev = IF src.rev >= pull[d][p].base
                                    THEN src.rev ELSE pull[d][p].base]]
  /\ UNCHANGED <<cloudVars, wireVars, events, deviceVars, cycle, cleared>>

\* apply_table on one row: skip a guarded row, skip a row whose hash is the
\* recorded one (unless the table is empty here), write the others; delete a
\* row the cloud does not have if it came from there.
RowsOf(t) == {x \in Entity : TableOf[x] = t}

Distrusts(d, rows, t) ==
  /\ \E x \in RowsOf(t) : rows[x] # NoRow
  /\ \A x \in RowsOf(t) : localRow[d][x] = NoRow

Upserts(d, rows, x) ==
  /\ rows[x] # NoRow
  /\ ~Guarded(d, x)
  /\ trace[d][x] # rows[x] \/ Distrusts(d, rows, TableOf[x])

Deletes(d, rows, x) ==
  /\ rows[x] = NoRow
  /\ localRow[d][x] # NoRow
  /\ ~Guarded(d, x)
  /\ trace[d][x] # NoTrace \/ TableOf[x] \in ReadOnly

\* Only the tables that were pulled get the pulse read before them.
CursorAtApply(d, p, t) ==
  IF t \in pull[d][p].wanted THEN pulse[t] ELSE cursor[d][t]

NewCursor(d, p, t) ==
  IF t \in pull[d][p].wanted THEN pull[d][p].seen[t] ELSE cursor[d][t]

ApplySnapshot(d, p) ==
  LET s == pull[d][p]
      got(x) == TableOf[x] \in s.wanted
  IN
  /\ s.pc = "apply"
  /\ s.rev >= lastRev[d]
  /\ localRow' = [localRow EXCEPT ![d] = [x \in Entity |->
        IF got(x) /\ (Upserts(d, s.rows, x) \/ Deletes(d, s.rows, x))
        THEN s.rows[x] ELSE @[x]]]
  /\ trace' = [trace EXCEPT ![d] = [x \in Entity |->
        IF got(x) /\ Upserts(d, s.rows, x) THEN s.rows[x]
        ELSE IF got(x) /\ Deletes(d, s.rows, x) THEN NoTrace ELSE @[x]]]
  /\ cursor' = [cursor EXCEPT ![d] = [t \in Table |-> NewCursor(d, p, t)]]
  /\ lastRev' = [lastRev EXCEPT ![d] = s.rev]
  /\ EndPull(d, p)
  /\ UNCHANGED <<cloudVars, wireVars, events, cleared>>

\* DESKTOP_SYNC_SNAPSHOT_STALE
RefuseStale(d, p) ==
  /\ pull[d][p].pc = "apply"
  /\ pull[d][p].rev < lastRev[d]
  /\ EndPull(d, p)
  /\ UNCHANGED <<cloudVars, wireVars, events, deviceVars, cleared>>

PullFails(d, p) ==
  /\ pull[d][p].pc \in {"pulse", "read"}
  /\ EndPull(d, p)
  /\ UNCHANGED <<cloudVars, wireVars, events, deviceVars, cleared>>

\* The process dies: only what SQLite holds survives.
Crash(d) ==
  /\ cycle[d].pc # "idle" \/ pull[d]["direct"].pc # "idle"
  /\ cycle' = [cycle EXCEPT ![d] = IdleCycle]
  /\ pull' = [pull EXCEPT ![d] = [p \in Puller |-> IdlePull]]
  /\ UNCHANGED <<cloudVars, wireVars, events, deviceVars, cleared>>

-----------------------------------------------------------------------------
(* Time, and the operator's decisions *)

BackoffElapses(e) ==
  /\ events[e].status = "failed"
  /\ ~events[e].due
  /\ events' = [events EXCEPT ![e].due = TRUE]
  /\ UNCHANGED <<cloudVars, wireVars, deviceVars, cycle, pull, cleared>>

\* A command names one event or, with none, addresses all it may touch.
Chosen(S) == (IF S = {} THEN {} ELSE {S}) \cup {{e} : e \in S}

Update(S, f(_)) == events' = [e \in Issued |-> IF e \in S THEN f(events[e])
                                               ELSE events[e]]

Resent(r) == [r EXCEPT !.status = "pending", !.due = FALSE]

RetryFailed(d) ==
  /\ \E S \in Chosen({e \in Outbox(d) : events[e].status \in {"failed", "conflict"}}) :
       Update(S, Resent)
  /\ UNCHANGED <<cloudVars, wireVars, deviceVars, cycle, pull, cleared>>

Retired(r) == [r EXCEPT !.status = "synced", !.due = FALSE]

ClearFailed(d) ==
  /\ \E S \in Chosen({e \in Outbox(d) : events[e].status = "failed"}) :
       /\ Update(S, Retired)
       /\ cleared' = cleared \cup S
  /\ UNCHANGED <<cloudVars, wireVars, deviceVars, cycle, pull>>

\* owned_conflicts: the conflict is open and the entry is still in conflict.
OpenConflicts(d) ==
  {e \in Outbox(d) : events[e].status = "conflict" /\ events[e].conflict = "open"}

Discarded(r) == [r EXCEPT !.status = "discarded", !.due = FALSE,
                          !.quarantined = FALSE, !.conflict = "none"]

\* forget_local_entity once per discarded event: the first call removes the
\* trace of the row, a call that finds none removes the row itself.
ForgetRows(d, S) ==
  LET calls(x) == Cardinality({e \in S : events[e].ent = x})
      queued(x) == \E e \in Outbox(d) \ S : /\ events[e].ent = x
                                            /\ events[e].status \in Unsent
      forgot(x) == calls(x) > 0 /\ ~queued(x)
      removed(x) == calls(x) > 1 \/ trace[d][x] = NoTrace
  IN
  /\ trace' = [trace EXCEPT ![d] = [x \in Entity |->
                 IF forgot(x) THEN NoTrace ELSE @[x]]]
  /\ localRow' = [localRow EXCEPT ![d] = [x \in Entity |->
                 IF forgot(x) /\ removed(x) THEN NoRow ELSE @[x]]]

Discard(d, S) ==
  /\ Update(S, Discarded)
  /\ ForgetRows(d, S)
  /\ UNCHANGED <<cloudVars, wireVars, cursor, lastRev, cycle, pull, cleared>>

ResolveConflicts(d) == \E S \in Chosen(OpenConflicts(d)) : Discard(d, S)

Insisted(r) == [r EXCEPT !.status = "pending", !.conflict = "none"]

ResolveConflictsLocal(d) ==
  /\ \E S \in Chosen(OpenConflicts(d)) : Update(S, Insisted)
  /\ UNCHANGED <<cloudVars, wireVars, deviceVars, cycle, pull, cleared>>

Quarantined(d) == {e \in Outbox(d) : events[e].quarantined}

Released(r) == [r EXCEPT !.quarantined = FALSE, !.due = FALSE,
                         !.status = IF @ = "failed" THEN "pending" ELSE @]

ReleaseQuarantine(d) ==
  /\ \E S \in SUBSET Quarantined(d) :
       /\ S # {}
       /\ Update(S, Released)
  /\ UNCHANGED <<cloudVars, wireVars, deviceVars, cycle, pull, cleared>>

\* desktop_sync_conflict references the outbox and foreign keys are on: an
\* entry with a conflict record, even a resolved one, cannot be deleted, and
\* the transaction that tries to is rolled back.
Deletable(e) == events[e].conflict = "none"

DiscardQuarantine(d) ==
  \E S \in SUBSET Quarantined(d) :
    S # {} /\ (\A e \in S : Deletable(e)) /\ Discard(d, S)

-----------------------------------------------------------------------------
PushStep(d) == \/ AckKnown(d) \/ PushApplied(d) \/ PushRefused(d)
               \/ PushLost(d) \/ PushDelayed(d)
               \/ BatchFails(d) \/ RevisionUnknown(d) \/ ApplyResults(d)

CycleStep(d) == \/ StartCycle(d) \/ SessionValid(d) \/ SessionUnknown(d)
                \/ SessionSuperseded(d) \/ TakeBatch(d) \/ EndPush(d)
                \/ SchemaRefused(d) \/ Prefetch(d) \/ PushStep(d)

PullStep(d, p) == \/ ReadPulse(d, p) \/ ReadTable(d, p) \/ ReadRevision(d, p)
                  \/ ApplySnapshot(d, p) \/ RefuseStale(d, p) \/ PullFails(d, p)

OperatorStep(d) == \/ RetryFailed(d) \/ ClearFailed(d)
                   \/ ResolveConflicts(d) \/ ResolveConflictsLocal(d)
                   \/ ReleaseQuarantine(d) \/ DiscardQuarantine(d)

Next ==
  \/ \E x \in Entity : WebWrite(x) \/ WebDelete(x)
  \/ Replicate
  \/ \E e \in Issued : LateCommit(e) \/ LateDrop(e) \/ BackoffElapses(e)
  \/ \E d \in Device : \/ \E x \in Entity : LocalWrite(d, x)
                       \/ CycleStep(d)
                       \/ StartDirectPull(d)
                       \/ \E p \in Puller : PullStep(d, p)
                       \/ Crash(d)
                       \/ OperatorStep(d)

Spec == Init /\ [][Next]_vars

-----------------------------------------------------------------------------
(* Properties *)

EventRec == [dev : Device, ent : Entity,
             status : Unsent \cup {"synced", "discarded"},
             due : BOOLEAN, quarantined : BOOLEAN,
             conflict : {"none", "open", "resolved"}]

CycleRec == [pc : {"idle", "session", "batch", "prefetch", "push", "pull"},
             round : Nat, last : BOOLEAN, batch : SUBSET Nat,
             known : SUBSET Nat, applied : SUBSET Nat, refused : SUBSET Nat]

PullRec == [pc : {"idle", "pulse", "read", "apply"}, base : Nat,
            seen : [Table -> Int], wanted : SUBSET Table, left : SUBSET Table,
            rows : [Entity -> Int], rev : Nat]

\* The types of the variables.
TypeOK ==
  /\ cloudRow  \in [Entity -> Int]
  /\ pulse     \in [Table -> Nat]
  /\ changelog \in Seq(Nat)
  /\ inflight  \in SUBSET Nat
  /\ replica   \in [row : [Entity -> Int], pulse : [Table -> Nat], rev : Nat]
  /\ webWrites \in Nat
  /\ events    \in Seq(EventRec)
  /\ localRow  \in [Device -> [Entity -> Int]]
  /\ trace     \in [Device -> [Entity -> Int \cup {NoTrace, PushTrace}]]
  /\ cursor    \in [Device -> [Table -> Int]]
  /\ lastRev   \in [Device -> Nat]
  /\ cycle     \in [Device -> CycleRec]
  /\ pull      \in [Device -> [Puller -> PullRec]]
  /\ cleared   \in SUBSET Nat

\* An outbox entry the client counts as synced is in the changelog of the
\* cloud, whatever was lost, retried, quarantined or reported twice on the
\* way; only clear_failed retires an entry without that.
SyncedReachedCloud ==
  \A e \in Issued : events[e].status = "synced" => e \in Logged \cup cleared

\* A row with a change that neither reached the cloud nor was given up.
HasUnsent(d, x) ==
  \E e \in Issued : /\ events[e].dev = d
                    /\ events[e].ent = x
                    /\ events[e].status \notin {"synced", "discarded"}

\* A row with a change that was cleared without a push.
WasCleared(d, x) ==
  \E e \in cleared : events[e].dev = d /\ events[e].ent = x

\* A device whose cursor equals the pulse of a table holds the cloud version
\* of every row that a pull was the last to trace, that has no unsent change
\* and no cleared one: skipping by hash, by guard and by pulse loses nothing.
PulledRowMirrorsCloud ==
  \A d \in Device, x \in Entity :
    /\ cursor[d][TableOf[x]] = pulse[TableOf[x]]
    /\ trace[d][x] \in Int
    /\ ~HasUnsent(d, x)
    /\ ~WasCleared(d, x)
    => localRow[d][x] = cloudRow[x]

\* In no run: the code does not keep this (README, Known divergences).
\* What the pull claims of its probe ("cannot miss a change"): the previous
\* property for every row, also one that was pushed or whose change the
\* operator discarded.
ProbeMissesNothing ==
  \A d \in Device, x \in Entity :
    /\ cursor[d][TableOf[x]] = pulse[TableOf[x]]
    /\ ~HasUnsent(d, x)
    /\ ~WasCleared(d, x)
    => localRow[d][x] = cloudRow[x]

\* While a row has an unsent change before and after a step, the step leaves
\* it alone unless it records another change: no pull reaches it, however
\* many are under way.
UnsentRowKept ==
  [][\A d \in Device, x \in Entity :
       HasUnsent(d, x) /\ HasUnsent(d, x)' /\ localRow'[d][x] # localRow[d][x]
         => Len(events') > Len(events)]_vars

\* The mutations of an event run once: a lost response, a failed batch, a
\* crash or a retry does not run them again over what came later.
AppliedOnce ==
  [][\A x \in Entity : cloudRow'[x] # cloudRow[x] => cloudRow'[x] \notin Logged]_vars

\* An event is not applied while it is quarantined.
QuarantineHolds ==
  [][\A e \in Issued : events[e].quarantined /\ e \notin Logged
                         => ~(\E i \in DOMAIN changelog' : changelog'[i] = e)]_vars

\* In no run: the code does not keep this (README, Known divergences).
\* An applied snapshot is not older than the one before it.
CursorNeverBack ==
  [][\A d \in Device, t \in Table : cursor'[d][t] >= cursor[d][t]]_vars

\* Discarding changes removes a row from the device only if it never came
\* from the cloud.
ForgottenRowIsLocal ==
  [][\A d \in Device, x \in Entity :
       /\ ResolveConflicts(d) \/ DiscardQuarantine(d)
       /\ localRow[d][x] # NoRow
       /\ localRow'[d][x] = NoRow
       => trace[d][x] = NoTrace]_vars

\* In no run: the code does not keep this (README, Known divergences).
\* Every quarantined entry can be discarded.
QuarantineDiscardable ==
  \A d \in Device : \A e \in Quarantined(d) : Deletable(e)
=============================================================================
