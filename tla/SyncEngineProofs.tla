-------------------------- MODULE SyncEngineProofs --------------------------
(***************************************************************************)
(* Types of the engine, and that synced entries reached the cloud.  First  *)
(* a lemma for each group of actions, then what a step does to the outbox  *)
(* (EntriesKept, EntryChanges) and to the cycles (CycleChanges, WorkRecord).*)
(* Then what a push does to the cloud, and what a pull leaves alone and    *)
(* brings.                                                                 *)
(***************************************************************************)
EXTENDS SyncEngine, FiniteSetTheorems, TLAPS

\* A function on 1 .. n is a sequence of length n.
LEMMA MapIsSeq ==
  ASSUME NEW S, NEW n \in Nat, NEW f \in [1 .. n -> S]
  PROVE  f \in Seq(S) /\ Len(f) = n
OBVIOUS

\* The type of an outbox entry, and of the list that holds it.
LEMMA EventTyped ==
  ASSUME TypeOK, NEW e \in Issued
  PROVE  events[e] \in EventRec /\ e \in Nat /\ events \in [1 .. Len(events) -> EventRec]
         /\ Len(events) \in Nat
BY DEF TypeOK, Issued

\* Raising the pulse of a table keeps its type.
LEMMA PulseTyped ==
  ASSUME NEW x \in Entity, pulse \in [Table -> Nat]
  PROVE  [pulse EXCEPT ![TableOf[x]] = @ + 1] \in [Table -> Nat]
<1>1. TableOf[x] \in Table
  BY TableAssumption
<1>2. pulse[TableOf[x]] + 1 \in Nat
  BY <1>1
<1> QED
  BY <1>1, <1>2

\* The atomic batch of an event keeps the types of what the cloud holds.
LEMMA ExecuteTyped ==
  ASSUME TypeOK, NEW e \in Issued, Execute(e)
  PROVE  /\ cloudRow' \in [Entity -> Int]
         /\ pulse' \in [Table -> Nat]
         /\ changelog' \in Seq(Nat)
<1>1. e \in Nat /\ events[e] \in EventRec
  BY EventTyped
<1>2. events[e].ent \in Entity
  BY <1>1 DEF EventRec
<1>3. cloudRow' \in [Entity -> Int]
  BY <1>1, <1>2 DEF Execute, TypeOK
<1>4. pulse' \in [Table -> Nat]
  BY <1>2, PulseTyped DEF Execute, TypeOK
<1>5. changelog' \in Seq(Nat)
  <2>1. changelog \in Seq(Nat) /\ Append(changelog, e) \in Seq(Nat)
    BY <1>1 DEF TypeOK
  <2> QED
    BY <2>1 DEF Execute
<1> QED
  BY <1>3, <1>4, <1>5

\* The initial state is typed.
LEMMA TypeInit == Init => TypeOK
<1> SUFFICES ASSUME Init PROVE TypeOK
  OBVIOUS
<1>1. IdleCycle \in CycleRec
  BY DEF IdleCycle, CycleRec
<1>2. IdlePull \in PullRec
  BY DEF IdlePull, PullRec, NoRow
<1> QED
  BY <1>1, <1>2, TraceAssumption DEF Init, TypeOK, NoRow

\* Local changes, the web application, replication and late requests keep the types.
LEMMA TypeWriters ==
  ASSUME TypeOK,
         \/ \E x \in Entity : WebWrite(x) \/ WebDelete(x)
         \/ Replicate
         \/ \E e \in Issued : LateCommit(e) \/ LateDrop(e) \/ BackoffElapses(e)
         \/ \E d \in Device, x \in Entity : LocalWrite(d, x)
  PROVE  TypeOK'
<1>1. ASSUME NEW x \in Entity, NEW v \in Int, WebSet(x, v) PROVE TypeOK'
  <2>1. cloudRow' \in [Entity -> Int] /\ webWrites' \in Nat
    BY <1>1 DEF WebSet, TypeOK
  <2>2. pulse' \in [Table -> Nat]
    BY <1>1, PulseTyped DEF WebSet, TypeOK
  <2> QED
    BY <1>1, <2>1, <2>2 DEF WebSet, TypeOK, deviceVars
<1>2. ASSUME NEW x \in Entity, WebWrite(x) PROVE TypeOK'
  <2>1. -(webWrites + 1) \in Int
    BY DEF TypeOK
  <2> QED
    BY <1>1, <1>2, <2>1 DEF WebWrite
<1>3. ASSUME NEW x \in Entity, WebDelete(x) PROVE TypeOK'
  BY <1>1, <1>3 DEF WebDelete, NoRow
<1>4. CASE Replicate
  BY <1>4 DEF Replicate, TypeOK, cloudVars, deviceVars
<1>5. ASSUME NEW e \in Issued, LateCommit(e) PROVE TypeOK'
  BY <1>5, ExecuteTyped DEF LateCommit, TypeOK, deviceVars
<1>6. ASSUME NEW e \in Issued, LateDrop(e) PROVE TypeOK'
  BY <1>6 DEF LateDrop, TypeOK, cloudVars, deviceVars
<1>7. ASSUME NEW e \in Issued, BackoffElapses(e) PROVE TypeOK'
  <2>1. events' \in Seq(EventRec)
    <3>1. /\ events \in [1 .. Len(events) -> EventRec] /\ Len(events) \in Nat
          /\ events[e] \in EventRec
      BY EventTyped
    <3>2. [events[e] EXCEPT !.due = TRUE] \in EventRec
      BY <3>1 DEF EventRec
    <3>3. events' \in [1 .. Len(events) -> EventRec]
      BY <1>7, <3>1, <3>2 DEF BackoffElapses, Issued
    <3> QED
      BY <3>1, <3>3, MapIsSeq
  <2> QED
    BY <1>7, <2>1 DEF BackoffElapses, TypeOK, cloudVars, wireVars, deviceVars
<1>8. ASSUME NEW d \in Device, NEW x \in Entity, LocalWrite(d, x) PROVE TypeOK'
  <2>1. events' \in Seq(EventRec)
    BY <1>8 DEF LocalWrite, TypeOK, EventRec, Unsent
  <2>2. localRow' \in [Device -> [Entity -> Int]]
    BY <1>8 DEF LocalWrite, TypeOK
  <2> QED
    BY <1>8, <2>1, <2>2 DEF LocalWrite, TypeOK, cloudVars, wireVars
<1> QED
  BY <1>2, <1>3, <1>4, <1>5, <1>6, <1>7, <1>8

\* The record of a cycle or a pull that rests is typed.
LEMMA IdleTyped == IdleCycle \in CycleRec /\ IdlePull \in PullRec
BY DEF IdleCycle, CycleRec, IdlePull, PullRec, NoRow

\* Turning from the push to the pull keeps the types.
LEMMA GoPullTyped ==
  ASSUME TypeOK, NEW d \in Device, GoPull(d)
  PROVE  cycle' \in [Device -> CycleRec] /\ pull' \in [Device -> [Puller -> PullRec]]
<1>1. [IdleCycle EXCEPT !.pc = "pull"] \in CycleRec
  BY IdleTyped DEF CycleRec
<1>2. StartedPull(d) \in PullRec
  BY IdleTyped DEF StartedPull, PullRec, TypeOK
<1>3. "cycle" \in Puller
  BY DEF Puller
<1>4. [pull[d] EXCEPT !["cycle"] = StartedPull(d)] \in [Puller -> PullRec]
  BY <1>2, <1>3 DEF TypeOK
<1>5. pull' = [pull EXCEPT ![d] = [pull[d] EXCEPT !["cycle"] = StartedPull(d)]]
  BY DEF GoPull
<1>6. pull' \in [Device -> [Puller -> PullRec]]
  BY <1>4, <1>5 DEF TypeOK
<1>7. cycle' \in [Device -> CycleRec]
  BY <1>1 DEF GoPull, TypeOK
<1> QED
  BY <1>6, <1>7

\* Replacing every entry by a typed one keeps the type of the outbox.
LEMMA EventsTyped ==
  ASSUME TypeOK, events' \in [Issued -> EventRec]
  PROVE  events' \in Seq(EventRec)
<1>1. Len(events) \in Nat
  BY DEF TypeOK
<1>2. events' \in [1 .. Len(events) -> EventRec]
  BY DEF Issued
<1> QED
  BY <1>1, <1>2, MapIsSeq

\* A cycle that only moves on is typed.
LEMMA CyclePcTyped ==
  ASSUME TypeOK, NEW d \in Device,
         NEW p \in {"idle", "session", "batch", "prefetch", "push", "pull"}
  PROVE  [cycle EXCEPT ![d].pc = p] \in [Device -> CycleRec]
<1>1. cycle[d] \in CycleRec
  BY DEF TypeOK
<1>2. [cycle[d] EXCEPT !.pc = p] \in CycleRec
  BY <1>1 DEF CycleRec
<1>3. [cycle EXCEPT ![d] = [cycle[d] EXCEPT !.pc = p]] \in [Device -> CycleRec]
  BY <1>2 DEF TypeOK
<1> QED
  BY <1>3

\* A cycle that has a new result is typed.
LEMMA CycleSetTyped ==
  ASSUME TypeOK, NEW d \in Device, NEW c \in CycleRec
  PROVE  [cycle EXCEPT ![d] = c] \in [Device -> CycleRec]
BY DEF TypeOK

\* The steps of the session check keep the types.
LEMMA TypeSession ==
  ASSUME TypeOK, NEW d \in Device,
         \/ StartCycle(d) \/ SessionValid(d) \/ SessionUnknown(d)
         \/ SessionSuperseded(d)
  PROVE  TypeOK'
<1>1. CASE StartCycle(d)
  <2>1. cycle' \in [Device -> CycleRec]
    BY <1>1, CyclePcTyped DEF StartCycle
  <2> QED
    BY <1>1, <2>1 DEF StartCycle, TypeOK, cloudVars, wireVars, deviceVars
<1>2. CASE SessionValid(d)
  <2>1. cycle' \in [Device -> CycleRec]
    BY <1>2, CyclePcTyped DEF SessionValid
  <2> QED
    BY <1>2, <2>1 DEF SessionValid, TypeOK, cloudVars, wireVars, deviceVars
<1>3. CASE SessionUnknown(d)
  BY <1>3, GoPullTyped DEF SessionUnknown, TypeOK, cloudVars, wireVars, deviceVars
<1>4. CASE SessionSuperseded(d)
  <2>0. ASSUME NEW e \in Issued
        PROVE  events[e] \in EventRec /\ [events[e] EXCEPT !.quarantined = TRUE] \in EventRec
    BY EventTyped DEF EventRec
  <2>1. events' \in [Issued -> EventRec]
    BY <1>4, <2>0 DEF SessionSuperseded
  <2> QED
    BY <1>4, <2>1, GoPullTyped, EventsTyped
       DEF SessionSuperseded, TypeOK, cloudVars, wireVars, deviceVars
<1> QED
  BY <1>1, <1>2, <1>3, <1>4

\* A batch is a set of numbers.
LEMMA BatchTyped ==
  ASSUME TypeOK, NEW d \in Device, NEW S \in Batches(d)
  PROVE  S \subseteq Issued /\ S \subseteq Nat
BY DEF Batches, Eligible, Outbox, Issued

\* Taking a batch, and ending the push without one, keep the types.
LEMMA TypeBatch ==
  ASSUME TypeOK, NEW d \in Device,
         \/ TakeBatch(d) \/ EndPush(d) \/ SchemaRefused(d) \/ Prefetch(d)
  PROVE  TypeOK'
<1>1. CASE TakeBatch(d)
  <2>1. PICK S \in Batches(d) :
          cycle' = [cycle EXCEPT ![d] =
                     [IdleCycle EXCEPT !.pc = "prefetch", !.batch = S,
                        !.round = cycle[d].round + 1,
                        !.last = (S = Eligible(d) /\ Cardinality(S) < BatchMax)]]
    BY <1>1 DEF TakeBatch
  <2>2. cycle[d].round + 1 \in Nat
    BY DEF TypeOK, CycleRec
  <2>3. S \subseteq Nat
    BY BatchTyped
  <2>4. (S = Eligible(d) /\ Cardinality(S) < BatchMax) \in BOOLEAN
    OBVIOUS
  <2>5. [IdleCycle EXCEPT !.pc = "prefetch", !.batch = S,
           !.round = cycle[d].round + 1,
           !.last = (S = Eligible(d) /\ Cardinality(S) < BatchMax)] \in CycleRec
    BY <2>2, <2>3, <2>4, IdleTyped DEF CycleRec
  <2>6. cycle' \in [Device -> CycleRec]
    BY <2>1, <2>5 DEF TypeOK
  <2> QED
    BY <1>1, <2>6 DEF TakeBatch, TypeOK, cloudVars, wireVars, deviceVars
<1>2. CASE EndPush(d)
  BY <1>2, GoPullTyped DEF EndPush, TypeOK, cloudVars, wireVars, deviceVars
<1>3. CASE SchemaRefused(d)
  BY <1>3, GoPullTyped DEF SchemaRefused, TypeOK, cloudVars, wireVars, deviceVars
<1>4. CASE Prefetch(d)
  <2>0. cycle[d] \in CycleRec
    BY DEF TypeOK
  <2>1. Receipts(cycle[d].batch) \subseteq Nat
    BY <2>0 DEF Receipts, CycleRec
  <2>2. [cycle[d] EXCEPT !.pc = "push", !.known = Receipts(cycle[d].batch)] \in CycleRec
    BY <2>0, <2>1 DEF CycleRec
  <2>3. cycle' \in [Device -> CycleRec]
    BY <1>4, <2>2 DEF Prefetch, TypeOK
  <2> QED
    BY <1>4, <2>3 DEF Prefetch, TypeOK, cloudVars, wireVars, deviceVars
<1> QED
  BY <1>1, <1>2, <1>3, <1>4

\* mark_batch_failed keeps the type of the outbox.
LEMMA MarkFailedTyped ==
  ASSUME TypeOK, NEW S, MarkFailed(S)
  PROVE  events' \in Seq(EventRec)
<1>1. events' \in [Issued -> EventRec]
  BY EventTyped DEF MarkFailed, Failed, EventRec, Unsent
<1> QED
  BY <1>1, EventsTyped

\* What a cycle works on are events of its own device.
BatchOwned ==
  \A d \in Device : /\ cycle[d].batch \subseteq {e \in Issued : events[e].dev = d}
                    /\ cycle[d].known \subseteq cycle[d].batch

\* The event a cycle works on belongs to its batch and to its device.
LEMMA AtEventInBatch ==
  ASSUME TypeOK, BatchOwned, NEW d \in Device, NEW e, AtEvent(d, e)
  PROVE  e \in cycle[d].batch /\ e \in Issued /\ e \in Nat /\ events[e].dev = d
BY DEF AtEvent, Todo, BatchOwned, Issued

\* Noting a result keeps the type of the cycles.
LEMMA ResultTyped ==
  ASSUME TypeOK, NEW d \in Device, NEW e \in Nat
  PROVE  /\ [cycle EXCEPT ![d].applied = @ \cup {e}] \in [Device -> CycleRec]
         /\ [cycle EXCEPT ![d].refused = @ \cup {e}] \in [Device -> CycleRec]
<1>1. cycle[d] \in CycleRec
  BY DEF TypeOK
<1>2. /\ [cycle[d] EXCEPT !.applied = @ \cup {e}] \in CycleRec
      /\ [cycle[d] EXCEPT !.refused = @ \cup {e}] \in CycleRec
  BY <1>1 DEF CycleRec
<1>3. /\ [cycle EXCEPT ![d] = [cycle[d] EXCEPT !.applied = @ \cup {e}]]
           \in [Device -> CycleRec]
      /\ [cycle EXCEPT ![d] = [cycle[d] EXCEPT !.refused = @ \cup {e}]]
           \in [Device -> CycleRec]
  BY <1>2, CycleSetTyped
<1> QED
  BY <1>3

\* The entry that apply_push_results leaves is typed.
LEMMA ResultingTyped ==
  ASSUME TypeOK, NEW d \in Device, NEW e \in Issued
  PROVE  Resulting(d, e) \in EventRec
<1> DEFINE r == events[e]
<1>1. r \in EventRec
  BY EventTyped
<1>2. Resolved(r.conflict) \in {"none", "open", "resolved"}
  BY <1>1 DEF Resolved, EventRec
<1>3. [r EXCEPT !.status = "synced", !.due = FALSE, !.conflict = Resolved(@)] \in EventRec
  BY <1>1, <1>2 DEF EventRec
<1>4. [r EXCEPT !.status = "conflict", !.due = FALSE, !.conflict = "open"] \in EventRec
  BY <1>1 DEF EventRec, Unsent
<1> QED
  BY <1>1, <1>3, <1>4 DEF Resulting

\* The steps that push one event, and the ends of a batch, keep the types.
LEMMA TypePush ==
  ASSUME TypeOK, BatchOwned, NEW d \in Device, PushStep(d)
  PROVE  TypeOK'
<1>1. CASE AckKnown(d)
  <2>1. PICK e \in cycle[d].known :
          AtEvent(d, e) /\ cycle' = [cycle EXCEPT ![d].applied = @ \cup {e}]
    BY <1>1 DEF AckKnown
  <2>2. cycle' \in [Device -> CycleRec]
    BY <2>1, AtEventInBatch, ResultTyped
  <2> QED
    BY <1>1, <2>2 DEF AckKnown, TypeOK, cloudVars, wireVars, deviceVars
<1>2. CASE PushApplied(d)
  <2>1. PICK e \in cycle[d].batch \ cycle[d].known :
          /\ AtEvent(d, e)
          /\ Execute(e)
          /\ cycle' = [cycle EXCEPT ![d].applied = @ \cup {e}]
    BY <1>2 DEF PushApplied
  <2>2. cycle' \in [Device -> CycleRec]
    BY <2>1, AtEventInBatch, ResultTyped
  <2>3. /\ cloudRow' \in [Entity -> Int] /\ pulse' \in [Table -> Nat]
        /\ changelog' \in Seq(Nat)
    BY <2>1, AtEventInBatch, ExecuteTyped
  <2> QED
    BY <1>2, <2>2, <2>3 DEF PushApplied, TypeOK, wireVars, deviceVars
<1>3. CASE PushRefused(d)
  <2>1. PICK e \in cycle[d].batch \ cycle[d].known :
          AtEvent(d, e) /\ cycle' = [cycle EXCEPT ![d].refused = @ \cup {e}]
    BY <1>3 DEF PushRefused
  <2>2. cycle' \in [Device -> CycleRec]
    BY <2>1, AtEventInBatch, ResultTyped
  <2> QED
    BY <1>3, <2>2 DEF PushRefused, TypeOK, cloudVars, wireVars, deviceVars
<1>4. CASE PushLost(d)
  <2>1. PICK e \in cycle[d].batch \ cycle[d].known :
          /\ AtEvent(d, e)
          /\ Execute(e)
          /\ cycle' = [cycle EXCEPT ![d].refused = @ \cup {e}]
    BY <1>4 DEF PushLost
  <2>2. cycle' \in [Device -> CycleRec]
    BY <2>1, AtEventInBatch, ResultTyped
  <2>3. /\ cloudRow' \in [Entity -> Int] /\ pulse' \in [Table -> Nat]
        /\ changelog' \in Seq(Nat)
    BY <2>1, AtEventInBatch, ExecuteTyped
  <2> QED
    BY <1>4, <2>2, <2>3 DEF PushLost, TypeOK, wireVars, deviceVars
<1>5. CASE PushDelayed(d)
  <2>1. PICK e \in cycle[d].batch \ cycle[d].known :
          /\ AtEvent(d, e)
          /\ inflight' = inflight \cup {e}
          /\ cycle' = [cycle EXCEPT ![d].refused = @ \cup {e}]
    BY <1>5 DEF PushDelayed
  <2>2. cycle' \in [Device -> CycleRec] /\ inflight' \in SUBSET Nat
    BY <2>1, AtEventInBatch, ResultTyped DEF TypeOK
  <2> QED
    BY <1>5, <2>2 DEF PushDelayed, TypeOK, cloudVars, deviceVars
<1>6. CASE BatchFails(d)
  BY <1>6, GoPullTyped, MarkFailedTyped DEF BatchFails, TypeOK, cloudVars, wireVars, deviceVars
<1>7. CASE RevisionUnknown(d)
  <2>1. PICK e \in cycle[d].batch \ cycle[d].known : AtEvent(d, e) /\ Execute(e)
    BY <1>7 DEF RevisionUnknown
  <2>2. /\ cloudRow' \in [Entity -> Int] /\ pulse' \in [Table -> Nat]
        /\ changelog' \in Seq(Nat)
    BY <2>1, AtEventInBatch, ExecuteTyped
  <2>3. GoPull(d) /\ MarkFailed(cycle[d].batch)
    BY <1>7 DEF RevisionUnknown
  <2> QED
    BY <1>7, <2>2, <2>3, GoPullTyped, MarkFailedTyped
       DEF RevisionUnknown, TypeOK, wireVars, deviceVars
<1>8. CASE ApplyResults(d)
  <2>1. events' \in [Issued -> EventRec]
    BY <1>8, ResultingTyped DEF ApplyResults
  <2>2. trace' \in [Device -> [Entity -> Int \cup {NoTrace, PushTrace}]]
    BY <1>8 DEF ApplyResults, TypeOK
  <2>3. cycle' \in [Device -> CycleRec] /\ pull' \in [Device -> [Puller -> PullRec]]
    <3>1. CASE cycle[d].last
      BY <1>8, <3>1, GoPullTyped DEF ApplyResults
    <3>2. CASE ~cycle[d].last
      <4>1. [IdleCycle EXCEPT !.pc = "batch", !.round = cycle[d].round] \in CycleRec
        BY IdleTyped DEF CycleRec, TypeOK
      <4> QED
        BY <1>8, <3>2, <4>1 DEF ApplyResults, TypeOK
    <3> QED
      BY <3>1, <3>2
  <2> QED
    BY <1>8, <2>1, <2>2, <2>3, EventsTyped DEF ApplyResults, TypeOK, cloudVars, wireVars
<1> QED
  BY <1>1, <1>2, <1>3, <1>4, <1>5, <1>6, <1>7, <1>8 DEF PushStep

\* Replacing the record of a pull keeps the type of the pulls.
LEMMA PullTyped ==
  ASSUME TypeOK, NEW d \in Device, NEW p \in Puller, NEW r \in PullRec
  PROVE  [pull EXCEPT ![d][p] = r] \in [Device -> [Puller -> PullRec]]
<1>1. [pull[d] EXCEPT ![p] = r] \in [Puller -> PullRec]
  BY DEF TypeOK
<1>2. [pull EXCEPT ![d] = [pull[d] EXCEPT ![p] = r]] \in [Device -> [Puller -> PullRec]]
  BY <1>1 DEF TypeOK
<1> QED
  BY <1>2

\* Whatever a read is served from is typed.
LEMMA SourceTyped ==
  ASSUME TypeOK, NEW src \in Sources
  PROVE  /\ src.row \in [Entity -> Int]
         /\ src.pulse \in [Table -> Nat]
         /\ src.rev \in Nat
BY DEF TypeOK, Sources, Primary

\* The end of a pull keeps the types.
LEMMA EndPullTyped ==
  ASSUME TypeOK, NEW d \in Device, NEW p \in Puller, EndPull(d, p)
  PROVE  cycle' \in [Device -> CycleRec] /\ pull' \in [Device -> [Puller -> PullRec]]
<1>1. pull' \in [Device -> [Puller -> PullRec]]
  BY IdleTyped, PullTyped DEF EndPull
<1>2. cycle' \in [Device -> CycleRec]
  BY IdleTyped DEF EndPull, TypeOK
<1> QED
  BY <1>1, <1>2

\* The steps of a pull keep the types.
LEMMA TypePull ==
  ASSUME TypeOK, NEW d \in Device, NEW p \in Puller, PullStep(d, p)
  PROVE  TypeOK'
<1>r. pull[d][p] \in PullRec
  BY DEF TypeOK
<1>1. CASE ReadPulse(d, p)
  <2>1. CASE EndPull(d, p)
    BY <1>1, <2>1, EndPullTyped DEF ReadPulse, TypeOK, cloudVars, wireVars, deviceVars
  <2>2. CASE ~EndPull(d, p)
    <3>1. PICK src \in Sources :
            /\ pull' = [pull EXCEPT ![d][p] =
                          [pull[d][p] EXCEPT !.pc = "read", !.seen = src.pulse,
                                             !.wanted = Stale(d, src),
                                             !.left = Stale(d, src)]]
            /\ UNCHANGED cycle
      BY <1>1, <2>2 DEF ReadPulse
    <3>2. Stale(d, src) \subseteq Table
      BY DEF Stale
    <3>3. [pull[d][p] EXCEPT !.pc = "read", !.seen = src.pulse,
             !.wanted = Stale(d, src), !.left = Stale(d, src)] \in PullRec
      <4>1. src.pulse \in [Table -> Int]
        BY SourceTyped
      <4> QED
        BY <1>r, <3>2, <4>1 DEF PullRec
    <3>4. pull' \in [Device -> [Puller -> PullRec]]
      BY <3>1, <3>3, PullTyped
    <3> QED
      BY <1>1, <3>1, <3>4 DEF ReadPulse, TypeOK, cloudVars, wireVars, deviceVars
  <2> QED
    BY <2>1, <2>2
<1>2. CASE ReadTable(d, p)
  <2>1. PICK t \in pull[d][p].left, src \in Sources :
          pull' = [pull EXCEPT ![d][p] =
                    [pull[d][p] EXCEPT !.left = pull[d][p].left \ {t}, !.rows = WithTable(d, p, t, src)]]
    BY <1>2 DEF ReadTable
  <2>2. WithTable(d, p, t, src) \in [Entity -> Int]
    BY <1>r, SourceTyped DEF WithTable, PullRec
  <2> DEFINE r == [pull[d][p] EXCEPT !.left = pull[d][p].left \ {t},
                                     !.rows = WithTable(d, p, t, src)]
  <2>3. r \in PullRec
    BY <1>r, <2>2 DEF PullRec
  <2>4. pull' = [pull EXCEPT ![d][p] = r]
    BY <2>1
  <2>5. pull' \in [Device -> [Puller -> PullRec]]
    <3> HIDE DEF r
    <3> QED
      BY <2>3, <2>4, PullTyped
  <2> QED
    BY <1>2, <2>5 DEF ReadTable, TypeOK, cloudVars, wireVars, deviceVars
<1>3. CASE ReadRevision(d, p)
  <2>1. PICK src \in Sources :
          pull' = [pull EXCEPT ![d][p] =
                    [pull[d][p] EXCEPT !.pc = "apply",
                       !.rev = IF src.rev >= pull[d][p].base
                               THEN src.rev ELSE pull[d][p].base]]
    BY <1>3 DEF ReadRevision
  <2>2. [pull[d][p] EXCEPT !.pc = "apply",
           !.rev = IF src.rev >= pull[d][p].base
                   THEN src.rev ELSE pull[d][p].base] \in PullRec
    BY <1>r, SourceTyped DEF PullRec
  <2>3. pull' \in [Device -> [Puller -> PullRec]]
    BY <2>1, <2>2, PullTyped
  <2> QED
    BY <1>3, <2>3 DEF ReadRevision, TypeOK, cloudVars, wireVars, deviceVars
<1>4. CASE ApplySnapshot(d, p)
  <2>1. /\ pull[d][p].rows \in [Entity -> Int]
        /\ pull[d][p].seen \in [Table -> Int]
        /\ pull[d][p].rev \in Nat
    BY <1>r DEF PullRec
  <2>2. localRow' \in [Device -> [Entity -> Int]]
    BY <1>4, <2>1 DEF ApplySnapshot, TypeOK
  <2>3. trace' \in [Device -> [Entity -> Int \cup {NoTrace, PushTrace}]]
    BY <1>4, <2>1 DEF ApplySnapshot, TypeOK
  <2>4. cursor' \in [Device -> [Table -> Int]]
    BY <1>4, <2>1 DEF ApplySnapshot, TypeOK, NewCursor
  <2>5. lastRev' \in [Device -> Nat]
    BY <1>4, <2>1 DEF ApplySnapshot, TypeOK
  <2>6. cycle' \in [Device -> CycleRec] /\ pull' \in [Device -> [Puller -> PullRec]]
    BY <1>4, EndPullTyped DEF ApplySnapshot
  <2> QED
    BY <1>4, <2>2, <2>3, <2>4, <2>5, <2>6 DEF ApplySnapshot, TypeOK, cloudVars, wireVars
<1>5. CASE RefuseStale(d, p)
  BY <1>5, EndPullTyped DEF RefuseStale, TypeOK, cloudVars, wireVars, deviceVars
<1>6. CASE PullFails(d, p)
  BY <1>6, EndPullTyped DEF PullFails, TypeOK, cloudVars, wireVars, deviceVars
<1> QED
  BY <1>1, <1>2, <1>3, <1>4, <1>5, <1>6 DEF PullStep

\* The start of a direct pull and a crash keep the types.
LEMMA TypeStartCrash ==
  ASSUME TypeOK, NEW d \in Device, StartDirectPull(d) \/ Crash(d)
  PROVE  TypeOK'
<1>1. CASE StartDirectPull(d)
  <2>1. StartedPull(d) \in PullRec
    BY IdleTyped DEF StartedPull, PullRec, TypeOK
  <2>2. pull' \in [Device -> [Puller -> PullRec]]
    BY <1>1, <2>1, PullTyped DEF StartDirectPull, Puller
  <2> QED
    BY <1>1, <2>2 DEF StartDirectPull, TypeOK, cloudVars, wireVars, deviceVars
<1>2. CASE Crash(d)
  BY <1>2, IdleTyped DEF Crash, TypeOK, cloudVars, wireVars, deviceVars
<1> QED
  BY <1>1, <1>2

\* What the operator makes of an entry is typed and keeps its device and row.
LEMMA RecordTyped ==
  ASSUME NEW r \in EventRec
  PROVE  /\ Resent(r) \in EventRec /\ Resent(r).dev = r.dev /\ Resent(r).ent = r.ent
         /\ Retired(r) \in EventRec /\ Retired(r).dev = r.dev /\ Retired(r).ent = r.ent
         /\ Insisted(r) \in EventRec /\ Insisted(r).dev = r.dev /\ Insisted(r).ent = r.ent
         /\ Released(r) \in EventRec /\ Released(r).dev = r.dev /\ Released(r).ent = r.ent
         /\ Discarded(r) \in EventRec /\ Discarded(r).dev = r.dev /\ Discarded(r).ent = r.ent
         /\ Failed(r) \in EventRec /\ Failed(r).dev = r.dev /\ Failed(r).ent = r.ent
BY DEF EventRec, Unsent, Resent, Retired, Insisted, Released, Discarded, Failed

\* A decision of the operator keeps the type of the outbox.
LEMMA UpdateTyped ==
  ASSUME TypeOK, NEW S,
         \/ Update(S, Resent) \/ Update(S, Retired) \/ Update(S, Insisted)
         \/ Update(S, Released) \/ Update(S, Discarded)
  PROVE  events' \in Seq(EventRec)
<1>1. events' \in [Issued -> EventRec]
  BY EventTyped, RecordTyped DEF Update
<1> QED
  BY <1>1, EventsTyped

\* Discarding events keeps the types.
LEMMA DiscardTyped ==
  ASSUME TypeOK, NEW d \in Device, NEW S, Discard(d, S)
  PROVE  TypeOK'
<1>1. events' \in Seq(EventRec)
  BY UpdateTyped DEF Discard
<1>2. trace' \in [Device -> [Entity -> Int \cup {NoTrace, PushTrace}]]
  BY DEF Discard, ForgetRows, TypeOK
<1>3. localRow' \in [Device -> [Entity -> Int]]
  BY DEF Discard, ForgetRows, TypeOK, NoRow
<1> QED
  BY <1>1, <1>2, <1>3 DEF Discard, TypeOK, cloudVars, wireVars

\* The decisions of the operator keep the types.
LEMMA TypeOperator ==
  ASSUME TypeOK, NEW d \in Device, OperatorStep(d)
  PROVE  TypeOK'
<1>1. CASE RetryFailed(d)
  <2>1. PICK S : Update(S, Resent)
    BY <1>1 DEF RetryFailed
  <2> QED
    BY <1>1, <2>1, UpdateTyped DEF RetryFailed, TypeOK, cloudVars, wireVars, deviceVars
<1>2. CASE ClearFailed(d)
  <2>1. PICK S \in Chosen({e \in Outbox(d) : events[e].status = "failed"}) :
          /\ Update(S, Retired)
          /\ cleared' = cleared \cup S
    BY <1>2 DEF ClearFailed
  <2>2. S \subseteq Nat
    BY DEF Chosen, Outbox, Issued
  <2>3. cleared' \in SUBSET Nat
    BY <2>1, <2>2 DEF TypeOK
  <2> QED
    BY <1>2, <2>1, <2>3, UpdateTyped DEF ClearFailed, TypeOK, cloudVars, wireVars, deviceVars
<1>3. CASE ResolveConflicts(d)
  BY <1>3, DiscardTyped DEF ResolveConflicts
<1>4. CASE ResolveConflictsLocal(d)
  <2>1. PICK S : Update(S, Insisted)
    BY <1>4 DEF ResolveConflictsLocal
  <2> QED
    BY <1>4, <2>1, UpdateTyped
       DEF ResolveConflictsLocal, TypeOK, cloudVars, wireVars, deviceVars
<1>5. CASE ReleaseQuarantine(d)
  <2>1. PICK S : Update(S, Released)
    BY <1>5 DEF ReleaseQuarantine
  <2> QED
    BY <1>5, <2>1, UpdateTyped
       DEF ReleaseQuarantine, TypeOK, cloudVars, wireVars, deviceVars
<1>6. CASE DiscardQuarantine(d)
  BY <1>6, DiscardTyped DEF DiscardQuarantine
<1> QED
  BY <1>1, <1>2, <1>3, <1>4, <1>5, <1>6 DEF OperatorStep

(***************************************************************************)
(* What every step does to the outbox: entries are added, never renumbered *)
(* or given to another device or row.                                      *)
(***************************************************************************)
EntriesKept ==
  /\ Len(events') >= Len(events)
  /\ \A e \in Issued : events'[e].dev = events[e].dev /\ events'[e].ent = events[e].ent

\* An outbox replaced entry by entry keeps its entries.
LEMMA MappedKept ==
  ASSUME TypeOK, NEW f \in [Issued -> EventRec], events' = f,
         \A e \in Issued : f[e].dev = events[e].dev /\ f[e].ent = events[e].ent
  PROVE  EntriesKept /\ Len(events') = Len(events)
<1>1. Len(events) \in Nat
  BY DEF TypeOK
<1>2. Len(f) = Len(events)
  BY <1>1, MapIsSeq DEF Issued
<1> QED
  BY <1>1, <1>2 DEF EntriesKept

\* An outbox that does not change keeps its entries.
LEMMA UnchangedKept ==
  ASSUME TypeOK, UNCHANGED events
  PROVE  EntriesKept
BY DEF EntriesKept, TypeOK

\* mark_batch_failed keeps the entries.
LEMMA MarkFailedKept ==
  ASSUME TypeOK, NEW S, MarkFailed(S)
  PROVE  EntriesKept /\ Len(events') = Len(events)
<1>1. DEFINE f == [e \in Issued |-> IF e \in S /\ events[e].status # "discarded"
                                    THEN Failed(events[e]) ELSE events[e]]
<1>2. f \in [Issued -> EventRec]
  BY EventTyped DEF Failed, EventRec, Unsent
<1>3. \A e \in Issued : f[e].dev = events[e].dev /\ f[e].ent = events[e].ent
  BY EventTyped DEF Failed, EventRec
<1> QED
  BY <1>2, <1>3, MappedKept DEF MarkFailed

\* A decision of the operator keeps the entries.
LEMMA UpdateKept ==
  ASSUME TypeOK, NEW S,
         \/ Update(S, Resent) \/ Update(S, Retired) \/ Update(S, Insisted)
         \/ Update(S, Released) \/ Update(S, Discarded)
  PROVE  EntriesKept /\ Len(events') = Len(events)
<1>1. events' \in [Issued -> EventRec]
  BY EventTyped, RecordTyped DEF Update
<1>2. \A e \in Issued : events'[e].dev = events[e].dev /\ events'[e].ent = events[e].ent
  BY EventTyped, RecordTyped DEF Update
<1> QED
  BY <1>1, <1>2, MappedKept

\* No step changes the device or the row of an entry, nor removes one.
LEMMA StepKeepsEntries == ASSUME TypeOK, [Next]_vars PROVE EntriesKept
<1>1. CASE UNCHANGED vars
  BY <1>1, UnchangedKept DEF vars
<1>2. CASE \E x \in Entity : WebWrite(x) \/ WebDelete(x)
  BY <1>2, UnchangedKept DEF WebWrite, WebDelete, WebSet
<1>3. CASE Replicate
  BY <1>3, UnchangedKept DEF Replicate
<1>4. ASSUME NEW e \in Issued, LateCommit(e) \/ LateDrop(e) PROVE EntriesKept
  BY <1>4, UnchangedKept DEF LateCommit, LateDrop
<1>5. ASSUME NEW e \in Issued, BackoffElapses(e) PROVE EntriesKept
  <2>1. events' = [events EXCEPT ![e].due = TRUE]
    BY <1>5 DEF BackoffElapses
  <2>2. [events[e] EXCEPT !.due = TRUE] \in EventRec
    BY EventTyped DEF EventRec
  <2>3. events' \in [Issued -> EventRec]
    BY <2>1, <2>2, EventTyped DEF Issued
  <2>4. \A f \in Issued : events'[f].dev = events[f].dev /\ events'[f].ent = events[f].ent
    BY <2>1, EventTyped DEF Issued, EventRec
  <2> QED
    BY <2>3, <2>4, MappedKept
<1>6. ASSUME NEW d \in Device, NEW x \in Entity, LocalWrite(d, x) PROVE EntriesKept
  BY <1>6 DEF LocalWrite, EntriesKept, TypeOK, Issued
<1>7. ASSUME NEW d \in Device, CycleStep(d) PROVE EntriesKept
  <2>1. CASE SessionSuperseded(d)
    <3>1. events' \in [Issued -> EventRec]
      BY <2>1, EventTyped DEF SessionSuperseded, EventRec
    <3>2. \A f \in Issued : events'[f].dev = events[f].dev /\ events'[f].ent = events[f].ent
      BY <2>1, EventTyped DEF SessionSuperseded, EventRec
    <3> QED
      BY <3>1, <3>2, MappedKept
  <2>2. CASE BatchFails(d) \/ RevisionUnknown(d)
    BY <2>2, MarkFailedKept DEF BatchFails, RevisionUnknown
  <2>3. CASE ApplyResults(d)
    <3>1. events' \in [Issued -> EventRec]
      BY <2>3, ResultingTyped DEF ApplyResults
    <3>2. \A f \in Issued : events'[f].dev = events[f].dev /\ events'[f].ent = events[f].ent
      BY <2>3, EventTyped DEF ApplyResults, Resulting, EventRec
    <3> QED
      BY <3>1, <3>2, MappedKept
  <2>4. CASE \/ StartCycle(d) \/ SessionValid(d) \/ SessionUnknown(d) \/ TakeBatch(d)
             \/ EndPush(d) \/ SchemaRefused(d) \/ Prefetch(d)
    BY <2>4, UnchangedKept DEF StartCycle, SessionValid, SessionUnknown, TakeBatch, EndPush,
       SchemaRefused, Prefetch
  <2>5. CASE AckKnown(d) \/ PushApplied(d) \/ PushRefused(d) \/ PushLost(d) \/ PushDelayed(d)
    BY <2>5, UnchangedKept DEF AckKnown, PushApplied, PushRefused, PushLost, PushDelayed
  <2> QED
    BY <1>7, <2>1, <2>2, <2>3, <2>4, <2>5 DEF CycleStep, PushStep
<1>8. ASSUME NEW d \in Device, StartDirectPull(d) \/ Crash(d) PROVE EntriesKept
  BY <1>8, UnchangedKept DEF StartDirectPull, Crash
<1>9. ASSUME NEW d \in Device, NEW p \in Puller, PullStep(d, p) PROVE EntriesKept
  BY <1>9, UnchangedKept
     DEF PullStep, ReadPulse, ReadTable, ReadRevision, ApplySnapshot, RefuseStale, PullFails
<1>10. ASSUME NEW d \in Device, OperatorStep(d) PROVE EntriesKept
  BY <1>10, UpdateKept DEF OperatorStep, RetryFailed, ClearFailed, ResolveConflicts,
     ResolveConflictsLocal, ReleaseQuarantine, DiscardQuarantine, Discard
<1> QED
  BY <1>1, <1>2, <1>3, <1>4, <1>5, <1>6, <1>7, <1>8, <1>9, <1>10 DEF Next

\* Replacing the record of one cycle leaves the others.
LEMMA CycleAt ==
  ASSUME TypeOK, NEW d \in Device, NEW c, cycle' = [cycle EXCEPT ![d] = c]
  PROVE  cycle'[d] = c /\ \A f \in Device \ {d} : cycle'[f] = cycle[f]
BY DEF TypeOK

\* What the ends of a cycle and of a pull leave in cycle.
Emptied(f) == /\ cycle'[f].batch = {}
              /\ cycle'[f].known = {}
              /\ cycle'[f].applied = {}
              /\ cycle'[f].refused = {}
              /\ cycle'[f].pc \in {"idle", "batch", "pull"}

\* What the ends of a cycle leave.
LEMMA CycleEnds ==
  ASSUME TypeOK, NEW d \in Device,
         \/ GoPull(d)
         \/ \E p \in Puller : EndPull(d, p)
         \/ Crash(d)
         \/ cycle' = [cycle EXCEPT ![d] = [IdleCycle EXCEPT !.pc = "batch",
                                            !.round = cycle[d].round]]
  PROVE  \A f \in Device : cycle'[f] = cycle[f] \/ Emptied(f)
<1>1. CASE GoPull(d)
  <2>1. cycle'[d] = [IdleCycle EXCEPT !.pc = "pull"]
    BY <1>1, CycleAt DEF GoPull
  <2>2. Emptied(d)
    BY <2>1 DEF Emptied, IdleCycle
  <2> QED
    BY <1>1, <2>2, CycleAt DEF GoPull
<1>2. CASE cycle' = [cycle EXCEPT ![d] = IdleCycle]
  <2>1. cycle'[d] = IdleCycle
    BY <1>2, CycleAt
  <2>2. Emptied(d)
    BY <2>1 DEF Emptied, IdleCycle
  <2> QED
    BY <1>2, <2>2, CycleAt
<1>3. CASE cycle' = [cycle EXCEPT ![d] = [IdleCycle EXCEPT !.pc = "batch",
                                            !.round = cycle[d].round]]
  <2>1. cycle'[d] = [IdleCycle EXCEPT !.pc = "batch", !.round = cycle[d].round]
    BY <1>3, CycleAt
  <2>2. Emptied(d)
    BY <2>1 DEF Emptied, IdleCycle
  <2> QED
    BY <1>3, <2>2, CycleAt
<1>4. CASE UNCHANGED cycle
  BY <1>4
<1> QED
  BY <1>1, <1>2, <1>3, <1>4 DEF EndPull, Crash

\* The steps after which a cycle is neither what it was nor at one of its ends.
CycleWork(d) == \/ StartCycle(d) \/ SessionValid(d) \/ TakeBatch(d) \/ Prefetch(d)
                \/ AckKnown(d) \/ PushApplied(d) \/ PushRefused(d) \/ PushLost(d)
                \/ PushDelayed(d)

\* A step leaves every cycle as it is or empty, or works in one of them.
LEMMA CycleChanges ==
  ASSUME TypeOK, [Next]_vars
  PROVE  \/ \A f \in Device : cycle'[f] = cycle[f] \/ Emptied(f)
         \/ \E d \in Device : CycleWork(d)
<1> DEFINE Kept == \A f \in Device : cycle'[f] = cycle[f] \/ Emptied(f)
<1>1. CASE UNCHANGED cycle
  BY <1>1
<1>2. ASSUME NEW d \in Device,
             GoPull(d) \/ (\E p \in Puller : EndPull(d, p)) \/ Crash(d) \/ ApplyResults(d)
      PROVE  Kept
  BY <1>2, CycleEnds DEF ApplyResults
<1>3. ASSUME NEW d \in Device, CycleStep(d), ~CycleWork(d) PROVE Kept
  BY <1>2, <1>3
     DEF CycleStep, PushStep, CycleWork, SessionUnknown, SessionSuperseded, EndPush,
         SchemaRefused, BatchFails, RevisionUnknown
<1>4. ASSUME NEW d \in Device, NEW p \in Puller, PullStep(d, p) PROVE Kept
  BY <1>1, <1>2, <1>4
     DEF PullStep, ReadPulse, ReadTable, ReadRevision, ApplySnapshot, RefuseStale, PullFails
<1>5. CASE \/ UNCHANGED vars
           \/ \E x \in Entity : WebWrite(x) \/ WebDelete(x)
           \/ Replicate
           \/ \E e \in Issued : LateCommit(e) \/ LateDrop(e) \/ BackoffElapses(e)
           \/ \E d \in Device : \/ \E x \in Entity : LocalWrite(d, x)
                                \/ StartDirectPull(d)
                                \/ OperatorStep(d)
  BY <1>1, <1>5
     DEF vars, WebWrite, WebDelete, WebSet, Replicate, LateCommit, LateDrop, BackoffElapses,
         LocalWrite, StartDirectPull, OperatorStep, RetryFailed, ClearFailed,
         ResolveConflicts, ResolveConflictsLocal, ReleaseQuarantine, DiscardQuarantine, Discard
<1> QED
  BY <1>2, <1>3, <1>4, <1>5 DEF Next

Accepted(d, e) == /\ cycle'[d].batch = cycle[d].batch
                  /\ cycle'[d].known = cycle[d].known
                  /\ cycle'[d].applied = cycle[d].applied \cup {e}
                  /\ cycle'[d].refused = cycle[d].refused
                  /\ cycle'[d].pc = cycle[d].pc

Rejected(d, e) == /\ cycle'[d].batch = cycle[d].batch
                  /\ cycle'[d].known = cycle[d].known
                  /\ cycle'[d].applied = cycle[d].applied
                  /\ cycle'[d].refused = cycle[d].refused \cup {e}
                  /\ cycle'[d].pc = cycle[d].pc

\* The record a cycle holds after one of these steps.
LEMMA WorkRecord ==
  ASSUME TypeOK, NEW d \in Device
  PROVE  /\ StartCycle(d) \/ SessionValid(d)
              => /\ cycle'[d].batch = cycle[d].batch /\ cycle'[d].known = cycle[d].known
                 /\ cycle'[d].applied = cycle[d].applied
                 /\ cycle'[d].refused = cycle[d].refused
                 /\ cycle'[d].pc \in {"session", "batch"}
         /\ TakeBatch(d)
              => /\ cycle'[d].batch \in Batches(d) /\ cycle'[d].known = {}
                 /\ cycle'[d].applied = {} /\ cycle'[d].refused = {}
                 /\ cycle'[d].pc = "prefetch"
         /\ Prefetch(d)
              => /\ cycle'[d].batch = cycle[d].batch
                 /\ cycle'[d].known = Receipts(cycle[d].batch)
                 /\ cycle'[d].applied = cycle[d].applied
                 /\ cycle'[d].refused = cycle[d].refused
                 /\ cycle'[d].pc = "push"
         /\ AckKnown(d)
              => \E e \in cycle[d].known : AtEvent(d, e) /\ Accepted(d, e)
         /\ PushApplied(d)
              => \E e \in cycle[d].batch \ cycle[d].known :
                   AtEvent(d, e) /\ Execute(e) /\ Accepted(d, e)
         /\ PushRefused(d) \/ PushDelayed(d)
              => \E e \in cycle[d].batch \ cycle[d].known : AtEvent(d, e) /\ Rejected(d, e)
         /\ PushLost(d)
              => \E e \in cycle[d].batch \ cycle[d].known :
                   AtEvent(d, e) /\ Execute(e) /\ Rejected(d, e)
         /\ CycleWork(d) => \A f \in Device \ {d} : cycle'[f] = cycle[f]
<1>1. cycle[d] \in CycleRec
  BY DEF TypeOK
<1>2. ASSUME NEW c, cycle' = [cycle EXCEPT ![d].pc = c]
      PROVE  /\ cycle'[d] = [cycle[d] EXCEPT !.pc = c]
             /\ \A f \in Device \ {d} : cycle'[f] = cycle[f]
  BY <1>2 DEF TypeOK
<1>3. ASSUME NEW e, cycle' = [cycle EXCEPT ![d].applied = @ \cup {e}]
      PROVE  /\ cycle'[d] = [cycle[d] EXCEPT !.applied = @ \cup {e}]
             /\ \A f \in Device \ {d} : cycle'[f] = cycle[f]
  BY <1>3 DEF TypeOK
<1>4. ASSUME NEW e, cycle' = [cycle EXCEPT ![d].refused = @ \cup {e}]
      PROVE  /\ cycle'[d] = [cycle[d] EXCEPT !.refused = @ \cup {e}]
             /\ \A f \in Device \ {d} : cycle'[f] = cycle[f]
  BY <1>4 DEF TypeOK
<1>5. ASSUME StartCycle(d) \/ SessionValid(d)
      PROVE  /\ \E c \in {"session", "batch"} : cycle'[d] = [cycle[d] EXCEPT !.pc = c]
             /\ \A f \in Device \ {d} : cycle'[f] = cycle[f]
  BY <1>2, <1>5 DEF StartCycle, SessionValid
<1>6. ASSUME Prefetch(d)
      PROVE  /\ cycle'[d] = [cycle[d] EXCEPT !.pc = "push", !.known = Receipts(cycle[d].batch)]
             /\ \A f \in Device \ {d} : cycle'[f] = cycle[f]
  BY <1>6 DEF Prefetch, TypeOK
<1>7. ASSUME TakeBatch(d)
      PROVE  /\ \E S \in Batches(d) :
                  cycle'[d] = [IdleCycle EXCEPT !.pc = "prefetch", !.batch = S,
                                 !.round = cycle[d].round + 1,
                                 !.last = (S = Eligible(d) /\ Cardinality(S) < BatchMax)]
             /\ \A f \in Device \ {d} : cycle'[f] = cycle[f]
  BY <1>7 DEF TakeBatch, TypeOK
<1>8. ASSUME AckKnown(d) \/ PushApplied(d) \/ PushRefused(d) \/ PushLost(d) \/ PushDelayed(d)
      PROVE  \A f \in Device \ {d} : cycle'[f] = cycle[f]
  BY <1>3, <1>4, <1>8 DEF AckKnown, PushApplied, PushRefused, PushLost, PushDelayed
<1>9. StartCycle(d) \/ SessionValid(d)
        => /\ cycle'[d].batch = cycle[d].batch /\ cycle'[d].known = cycle[d].known
           /\ cycle'[d].applied = cycle[d].applied
           /\ cycle'[d].refused = cycle[d].refused
           /\ cycle'[d].pc \in {"session", "batch"}
  BY <1>1, <1>5 DEF CycleRec
<1>10. TakeBatch(d)
        => /\ cycle'[d].batch \in Batches(d) /\ cycle'[d].known = {}
           /\ cycle'[d].applied = {} /\ cycle'[d].refused = {}
           /\ cycle'[d].pc = "prefetch"
  BY <1>7 DEF IdleCycle
<1>11. Prefetch(d)
        => /\ cycle'[d].batch = cycle[d].batch
           /\ cycle'[d].known = Receipts(cycle[d].batch)
           /\ cycle'[d].applied = cycle[d].applied
           /\ cycle'[d].refused = cycle[d].refused
           /\ cycle'[d].pc = "push"
  BY <1>1, <1>6 DEF CycleRec
<1>12. ASSUME NEW e, cycle' = [cycle EXCEPT ![d].applied = @ \cup {e}]
       PROVE  Accepted(d, e)
  <2>1. cycle'[d] = [cycle[d] EXCEPT !.applied = @ \cup {e}]
    BY <1>12 DEF TypeOK
  <2> QED
    BY <1>1, <2>1 DEF CycleRec, Accepted
<1>13. ASSUME NEW e, cycle' = [cycle EXCEPT ![d].refused = @ \cup {e}]
       PROVE  Rejected(d, e)
  <2>1. cycle'[d] = [cycle[d] EXCEPT !.refused = @ \cup {e}]
    BY <1>13 DEF TypeOK
  <2> QED
    BY <1>1, <2>1 DEF CycleRec, Rejected
<1>14. CycleWork(d) => \A f \in Device \ {d} : cycle'[f] = cycle[f]
  BY <1>5, <1>6, <1>7, <1>8 DEF CycleWork
<1>15. AckKnown(d) => \E e \in cycle[d].known : AtEvent(d, e) /\ Accepted(d, e)
  BY <1>12 DEF AckKnown
<1>16. PushApplied(d) => \E e \in cycle[d].batch \ cycle[d].known :
                           AtEvent(d, e) /\ Execute(e) /\ Accepted(d, e)
  BY <1>12 DEF PushApplied
<1>17. PushRefused(d) \/ PushDelayed(d)
         => \E e \in cycle[d].batch \ cycle[d].known : AtEvent(d, e) /\ Rejected(d, e)
  BY <1>13 DEF PushRefused, PushDelayed
<1>18. PushLost(d) => \E e \in cycle[d].batch \ cycle[d].known :
                        AtEvent(d, e) /\ Execute(e) /\ Rejected(d, e)
  BY <1>13 DEF PushLost
<1> QED
  BY <1>9, <1>10, <1>11, <1>14, <1>15, <1>16, <1>17, <1>18

\* A batch keeps holding events of its own device only.
LEMMA StepOwnsBatch == ASSUME TypeOK, BatchOwned, [Next]_vars PROVE BatchOwned'
<1>1. EntriesKept /\ Issued \subseteq Issued'
  BY StepKeepsEntries DEF EntriesKept, Issued, TypeOK
<1>2. CASE \A f \in Device : cycle'[f] = cycle[f] \/ Emptied(f)
  BY <1>1, <1>2 DEF BatchOwned, EntriesKept, Emptied
<1>3. ASSUME NEW d \in Device, CycleWork(d) PROVE BatchOwned'
  <2>1. \A f \in Device \ {d} : cycle'[f] = cycle[f]
    BY <1>3, WorkRecord
  <2>2. /\ cycle'[d].batch \subseteq {e \in Issued : events[e].dev = d}
        /\ cycle'[d].known \subseteq cycle'[d].batch
    <3>1. CASE TakeBatch(d)
      BY <3>1, WorkRecord DEF Batches, Eligible, Outbox
    <3>2. CASE Prefetch(d)
      BY <3>2, WorkRecord DEF BatchOwned, Receipts
    <3>3. CASE /\ cycle'[d].batch = cycle[d].batch
               /\ cycle'[d].known = cycle[d].known
      BY <3>3 DEF BatchOwned
    <3> QED
      BY <1>3, <3>1, <3>2, <3>3, WorkRecord DEF CycleWork, Accepted, Rejected
  <2> QED
    BY <1>1, <2>1, <2>2 DEF BatchOwned, EntriesKept
<1> QED
  BY <1>2, <1>3, CycleChanges

\* Every step keeps the types.
LEMMA StepTyped == ASSUME TypeOK, BatchOwned, [Next]_vars PROVE TypeOK'
<1>1. CASE UNCHANGED vars
  BY <1>1 DEF vars, TypeOK
<1> QED
  BY <1>1, TypeWriters, TypeSession, TypeBatch, TypePush, TypePull, TypeStartCrash,
     TypeOperator DEF Next, CycleStep

\* The inductive invariant behind the types.
TypeInv == TypeOK /\ BatchOwned

\* The inductive invariant holds at first ...
LEMMA TypeInvInit == Init => TypeInv
<1>1. Init => BatchOwned
  BY DEF Init, BatchOwned, IdleCycle
<1> QED
  BY <1>1, TypeInit DEF TypeInv

\* ... and every step keeps it.
LEMMA TypeInvStep == TypeInv /\ [Next]_vars => TypeInv'
BY StepTyped, StepOwnsBatch DEF TypeInv

\* The types, and the fact they need: a batch of push_outbox holds events of
\* its own device, and the receipts it knows are receipts of its events.
THEOREM TypeInvariant == Spec => []TypeInv
BY TypeInvInit, TypeInvStep, PTL DEF Spec

\* Every variable has its type in every state of the engine.
THEOREM TypeCorrect == Spec => []TypeOK
<1>1. TypeInv => TypeOK
  BY DEF TypeInv
<1> QED
  BY <1>1, TypeInvariant, PTL

\* The atomic batch of an event leaves it in the changelog.
LEMMA ExecuteLogs ==
  ASSUME TypeOK, NEW e \in Nat, Execute(e)
  PROVE  Logged' = Logged \cup {e}
<1>1. CASE e \in Logged
  BY <1>1 DEF Execute, Logged
<1>2. CASE e \notin Logged
  <2>1. changelog' = Append(changelog, e)
    BY <1>2 DEF Execute
  <2>2. Len(changelog) \in Nat /\ Len(changelog') = Len(changelog) + 1
    BY <2>1 DEF TypeOK
  <2>3. \A i \in 1 .. Len(changelog) : changelog'[i] = changelog[i]
    BY <2>1 DEF TypeOK
  <2>4. changelog'[Len(changelog) + 1] = e
    BY <2>1 DEF TypeOK
  <2> QED
    BY <2>2, <2>3, <2>4 DEF Logged
<1> QED
  BY <1>1, <1>2

\* The logged events depend on the changelog only.
LEMMA SameLog == ASSUME UNCHANGED changelog PROVE Logged' = Logged
BY DEF Logged

\* Nothing leaves the changelog.
LEMMA LogGrows == ASSUME TypeInv, [Next]_vars PROVE Logged \subseteq Logged'
<1> USE DEF TypeInv
<1>1. CASE UNCHANGED changelog
  BY <1>1, SameLog
<1>2. ASSUME NEW e \in Nat, Execute(e) PROVE Logged \subseteq Logged'
  BY <1>2, ExecuteLogs
<1>3. ASSUME NEW e \in Issued, LateCommit(e) \/ LateDrop(e) \/ BackoffElapses(e)
      PROVE  Logged \subseteq Logged'
  BY <1>1, <1>2, <1>3 DEF LateCommit, LateDrop, BackoffElapses, cloudVars, Issued
<1>4. ASSUME NEW d \in Device, PushApplied(d) \/ PushLost(d) \/ RevisionUnknown(d)
      PROVE  Logged \subseteq Logged'
  BY <1>2, <1>4, AtEventInBatch DEF PushApplied, PushLost, RevisionUnknown
<1>5. ASSUME NEW d \in Device, CycleStep(d) PROVE Logged \subseteq Logged'
  BY <1>1, <1>4, <1>5
     DEF CycleStep, PushStep, StartCycle, SessionValid, SessionUnknown, SessionSuperseded,
         TakeBatch, EndPush, SchemaRefused, Prefetch, AckKnown, PushRefused, PushDelayed,
         BatchFails, ApplyResults, cloudVars
<1>6. ASSUME NEW d \in Device, NEW p \in Puller, PullStep(d, p) PROVE UNCHANGED changelog
  BY <1>6 DEF PullStep, ReadPulse, ReadTable, ReadRevision, ApplySnapshot, RefuseStale,
     PullFails, cloudVars
<1>7. ASSUME NEW d \in Device, OperatorStep(d) PROVE UNCHANGED changelog
  BY <1>7 DEF OperatorStep, RetryFailed, ClearFailed, ResolveConflicts,
     ResolveConflictsLocal, ReleaseQuarantine, DiscardQuarantine, Discard, cloudVars
<1>8. CASE \/ UNCHANGED vars
           \/ \E x \in Entity : WebWrite(x) \/ WebDelete(x)
           \/ Replicate
           \/ \E d \in Device : \/ \E x \in Entity : LocalWrite(d, x)
                                \/ StartDirectPull(d)
                                \/ Crash(d)
  BY <1>1, <1>8 DEF vars, WebWrite, WebDelete, WebSet, Replicate, LocalWrite,
     StartDirectPull, Crash, cloudVars
<1> QED
  BY <1>1, <1>3, <1>5, <1>6, <1>7, <1>8 DEF Next

\* What a cycle takes for applied has a receipt.
ResultsLogged ==
  \A d \in Device : cycle[d].known \subseteq Logged /\ cycle[d].applied \subseteq Logged

ReachInv == SyncedReachedCloud /\ ResultsLogged

\* A result that says applied is the result of an event that is logged.
LEMMA ResultsStayLogged ==
  ASSUME TypeInv, ResultsLogged, [Next]_vars
  PROVE  ResultsLogged'
<1> USE DEF TypeInv
<1>k. Logged \subseteq Logged'
  BY LogGrows
<1>1. CASE \A f \in Device : cycle'[f] = cycle[f] \/ Emptied(f)
  BY <1>1, <1>k DEF ResultsLogged, Emptied
<1>2. ASSUME NEW d \in Device, CycleWork(d) PROVE ResultsLogged'
  <2>1. \A f \in Device \ {d} : cycle'[f] = cycle[f]
    BY <1>2, WorkRecord
  <2>2. cycle[d].known \subseteq Logged' /\ cycle[d].applied \subseteq Logged'
    BY <1>k DEF ResultsLogged
  <2>3. cycle'[d].known \subseteq Logged' /\ cycle'[d].applied \subseteq Logged'
    <3>1. CASE \/ StartCycle(d) \/ SessionValid(d) \/ TakeBatch(d)
               \/ PushRefused(d) \/ PushLost(d) \/ PushDelayed(d)
      BY <2>2, <3>1, WorkRecord DEF Rejected
    <3>2. CASE Prefetch(d)
      BY <1>k, <2>2, <3>2, WorkRecord DEF Receipts
    <3>3. CASE AckKnown(d)
      BY <2>2, <3>3, WorkRecord DEF Accepted
    <3>4. CASE PushApplied(d)
      BY <2>2, <3>4, WorkRecord, AtEventInBatch, ExecuteLogs DEF Accepted
    <3> QED
      BY <1>2, <3>1, <3>2, <3>3, <3>4 DEF CycleWork
  <2> QED
    BY <1>k, <2>1, <2>3 DEF ResultsLogged
<1> QED
  BY <1>1, <1>2, CycleChanges

\* The steps that may change an entry.
LEMMA EntryChanges ==
  ASSUME [Next]_vars
  PROVE  \/ UNCHANGED <<events, cleared>>
         \/ \E d \in Device, x \in Entity : LocalWrite(d, x)
         \/ \E e \in Issued : BackoffElapses(e)
         \/ \E d \in Device : \/ SessionSuperseded(d) \/ BatchFails(d) \/ RevisionUnknown(d)
                              \/ ApplyResults(d) \/ OperatorStep(d)
<1>1. CASE \/ UNCHANGED vars
           \/ \E x \in Entity : WebWrite(x) \/ WebDelete(x)
           \/ Replicate
           \/ \E e \in Issued : LateCommit(e) \/ LateDrop(e)
           \/ \E d \in Device : StartDirectPull(d) \/ Crash(d)
  BY <1>1 DEF vars, WebWrite, WebDelete, WebSet, Replicate, LateCommit, LateDrop,
     StartDirectPull, Crash
<1>2. ASSUME NEW d \in Device, NEW p \in Puller, PullStep(d, p)
      PROVE  UNCHANGED <<events, cleared>>
  BY <1>2
     DEF PullStep, ReadPulse, ReadTable, ReadRevision, ApplySnapshot, RefuseStale, PullFails
<1>3. ASSUME NEW d \in Device, CycleStep(d), ~SessionSuperseded(d), ~BatchFails(d),
             ~RevisionUnknown(d), ~ApplyResults(d)
      PROVE  UNCHANGED <<events, cleared>>
  BY <1>3 DEF CycleStep, PushStep, StartCycle, SessionValid, SessionUnknown, TakeBatch,
     EndPush, SchemaRefused, Prefetch, AckKnown, PushApplied, PushRefused, PushLost, PushDelayed
<1> QED
  BY <1>1, <1>2, <1>3 DEF Next

\* An entry becomes synced by a result that says applied, or by clear_failed.
LEMMA SyncedOrigin ==
  ASSUME TypeInv, [Next]_vars, NEW e \in Issued', events'[e].status = "synced"
  PROVE  \/ e \in Issued /\ events[e].status = "synced"
         \/ \E d \in Device : e \in cycle[d].applied
         \/ e \in cleared'
<1> USE DEF TypeInv
<1>1. CASE UNCHANGED <<events, cleared>>
  BY <1>1 DEF Issued
<1>2. ASSUME NEW d \in Device, NEW x \in Entity, LocalWrite(d, x)
      PROVE  e \in Issued /\ events[e].status = "synced"
  BY <1>2 DEF LocalWrite, Issued, TypeOK
<1>i. CASE Len(events') = Len(events)
  <2>1. e \in Issued
    BY <1>i DEF Issued
  <2>2. events[e] \in EventRec
    BY <2>1, EventTyped
  <2>3. ASSUME NEW f \in Issued, BackoffElapses(f) PROVE events[e].status = "synced"
    BY <2>1, <2>3, EventTyped DEF BackoffElapses, Issued, EventRec
  <2>4. ASSUME NEW d \in Device, SessionSuperseded(d) PROVE events[e].status = "synced"
    BY <2>1, <2>2, <2>4 DEF SessionSuperseded, EventRec
  <2>5. ASSUME NEW S, MarkFailed(S) PROVE events[e].status = "synced"
    BY <2>1, <2>2, <2>5 DEF MarkFailed, Failed, EventRec
  <2>6. ASSUME NEW d \in Device, ApplyResults(d)
        PROVE  events[e].status = "synced" \/ e \in cycle[d].applied
    BY <2>1, <2>2, <2>6 DEF ApplyResults, Resulting, EventRec
  <2>7. ASSUME NEW S, Update(S, Resent) \/ Update(S, Insisted) \/ Update(S, Discarded)
               \/ Update(S, Released)
        PROVE  events[e].status = "synced"
    <3>1. events'[e] = events[e] \/ events'[e] \in {Resent(events[e]), Insisted(events[e]),
                                                    Discarded(events[e]), Released(events[e])}
      BY <2>1, <2>2, <2>7 DEF Update
    <3> QED
      BY <2>1, <2>2, <3>1 DEF Resent, Insisted, Discarded, Released, EventRec
  <2>8. ASSUME NEW d \in Device, ClearFailed(d)
        PROVE  events[e].status = "synced" \/ e \in cleared'
    BY <2>1, <2>2, <2>8 DEF ClearFailed, Update, Retired, EventRec
  <2>9. ASSUME NEW d \in Device, OperatorStep(d)
        PROVE  events[e].status = "synced" \/ e \in cleared'
    BY <2>7, <2>8, <2>9 DEF OperatorStep, RetryFailed, ResolveConflicts, Discard,
       ResolveConflictsLocal, ReleaseQuarantine, DiscardQuarantine
  <2> QED
    BY <1>1, <1>2, <2>1, <2>3, <2>4, <2>5, <2>6, <2>9, EntryChanges
       DEF BatchFails, RevisionUnknown
<1>j. ASSUME Len(events') # Len(events)
      PROVE  \/ UNCHANGED <<events, cleared>>
             \/ \E d \in Device, x \in Entity : LocalWrite(d, x)
  <2>1. ASSUME NEW f \in Issued, BackoffElapses(f) PROVE Len(events') = Len(events)
    BY <2>1, EventTyped DEF BackoffElapses, TypeOK
  <2>2. ASSUME NEW d \in Device, SessionSuperseded(d) PROVE Len(events') = Len(events)
    BY <2>2, MapIsSeq DEF SessionSuperseded, Issued, TypeOK
  <2>3. ASSUME NEW d \in Device, BatchFails(d) \/ RevisionUnknown(d)
        PROVE  Len(events') = Len(events)
    BY <2>3, MarkFailedKept DEF BatchFails, RevisionUnknown
  <2>4. ASSUME NEW d \in Device, ApplyResults(d) PROVE Len(events') = Len(events)
    BY <2>4, MapIsSeq DEF ApplyResults, Issued, TypeOK
  <2>5. ASSUME NEW d \in Device, OperatorStep(d) PROVE Len(events') = Len(events)
    BY <2>5, UpdateKept DEF OperatorStep, RetryFailed, ClearFailed, ResolveConflicts, Discard,
       ResolveConflictsLocal, ReleaseQuarantine, DiscardQuarantine
  <2> QED
    BY <1>j, <2>1, <2>2, <2>3, <2>4, <2>5, EntryChanges
<1> QED
  BY <1>1, <1>2, <1>i, <1>j

\* What was cleared stays in the history.
LEMMA ClearedGrows == ASSUME [Next]_vars PROVE cleared \subseteq cleared'
<1>1. ASSUME NEW d \in Device, OperatorStep(d) PROVE cleared \subseteq cleared'
  BY <1>1 DEF OperatorStep, RetryFailed, ClearFailed, ResolveConflicts, Discard,
     ResolveConflictsLocal, ReleaseQuarantine, DiscardQuarantine
<1> QED
  BY <1>1, EntryChanges DEF LocalWrite, BackoffElapses, SessionSuperseded, BatchFails,
     RevisionUnknown, ApplyResults

\* The inductive invariant holds at first ...
LEMMA ReachInvInit == Init => ReachInv
BY DEF Init, ReachInv, SyncedReachedCloud, ResultsLogged, Issued, IdleCycle

\* ... and every step keeps it.
LEMMA ReachInvStep == TypeInv /\ ReachInv /\ [Next]_vars => ReachInv'
<1> SUFFICES ASSUME TypeInv, ReachInv, [Next]_vars PROVE ReachInv'
  OBVIOUS
<1>1. ResultsLogged'
  BY ResultsStayLogged DEF ReachInv
<1>2. Logged \subseteq Logged' /\ cleared \subseteq cleared'
  BY LogGrows, ClearedGrows
<1>3. SyncedReachedCloud'
  BY <1>2, SyncedOrigin DEF ReachInv, SyncedReachedCloud, ResultsLogged
<1> QED
  BY <1>1, <1>3 DEF ReachInv

\* An entry the client counts as synced reached the changelog of the cloud,
\* unless clear_failed retired it: apply_push_results believes nothing but the
\* receipts and the commits that push_events saw.
THEOREM SyncedIsInCloud == Spec => []SyncedReachedCloud
<1>1. Init => ReachInv
  BY ReachInvInit
<1>2. TypeInv /\ ReachInv /\ [Next]_vars => ReachInv'
  BY ReachInvStep
<1>3. ReachInv => SyncedReachedCloud
  BY DEF ReachInv
<1> QED
  BY <1>1, <1>2, <1>3, TypeInvariant, PTL DEF Spec

---------------------------------------------------------------------------
(* The push *)

(***************************************************************************)
(* A request that commits after the client gave up can run an event again  *)
(* or run one that was quarantined meanwhile, so both theorems assume that *)
(* there is none.                                                          *)
(***************************************************************************)

Pushing(d) == cycle[d].pc \in {"prefetch", "push"}

PushInv ==
  /\ inflight = {}
  /\ Logged \subseteq Issued
  /\ \A d \in Device :
       /\ ~Pushing(d) => cycle[d].batch = {}
       /\ \A e \in cycle[d].batch : ~events[e].quarantined
       /\ cycle[d].pc = "push" => Todo(d) \cap Logged \subseteq cycle[d].known

\* The inductive invariant holds at first.
LEMMA PushInvInit == Init => PushInv
BY DEF Init, PushInv, Pushing, IdleCycle, Logged, Issued

\* An event runs only while a cycle pushes it.
LEMMA LogChanges ==
  ASSUME TypeInv, PushInv, [Next]_vars
  PROVE  \/ UNCHANGED changelog
         \/ \E d \in Device : \E e \in cycle[d].batch \ cycle[d].known :
              /\ AtEvent(d, e)
              /\ Execute(e)
              /\ PushApplied(d) \/ PushLost(d) \/ RevisionUnknown(d)
<1> USE DEF TypeInv
<1>1. ASSUME NEW d \in Device, CycleStep(d), ~PushApplied(d), ~PushLost(d), ~RevisionUnknown(d)
      PROVE  UNCHANGED changelog
  BY <1>1
     DEF CycleStep, PushStep, StartCycle, SessionValid, SessionUnknown, SessionSuperseded,
         TakeBatch, EndPush, SchemaRefused, Prefetch, AckKnown, PushRefused, PushDelayed,
         BatchFails, ApplyResults, cloudVars
<1>2. ASSUME NEW d \in Device, NEW p \in Puller, PullStep(d, p) PROVE UNCHANGED changelog
  BY <1>2 DEF PullStep, ReadPulse, ReadTable, ReadRevision, ApplySnapshot, RefuseStale,
     PullFails, cloudVars
<1>3. ASSUME NEW d \in Device, OperatorStep(d) PROVE UNCHANGED changelog
  BY <1>3 DEF OperatorStep, RetryFailed, ClearFailed, ResolveConflicts,
     ResolveConflictsLocal, ReleaseQuarantine, DiscardQuarantine, Discard, cloudVars
<1>4. CASE \/ UNCHANGED vars
           \/ \E x \in Entity : WebWrite(x) \/ WebDelete(x)
           \/ Replicate
           \/ \E e \in Issued : LateCommit(e) \/ LateDrop(e) \/ BackoffElapses(e)
           \/ \E d \in Device : \/ \E x \in Entity : LocalWrite(d, x)
                                \/ StartDirectPull(d)
                                \/ Crash(d)
  BY <1>4 DEF PushInv, vars, WebWrite, WebDelete, WebSet, Replicate, LateCommit, LateDrop,
     BackoffElapses, LocalWrite, StartDirectPull, Crash, cloudVars
<1>5. ASSUME NEW d \in Device, PushApplied(d) \/ PushLost(d) \/ RevisionUnknown(d)
      PROVE  \E e \in cycle[d].batch \ cycle[d].known : AtEvent(d, e) /\ Execute(e)
  BY <1>5 DEF PushApplied, PushLost, RevisionUnknown
<1> QED
  BY <1>1, <1>2, <1>3, <1>4, <1>5 DEF Next

\* Events of a batch are quarantined by no step: only the session check of
\* their own device does that, and it has no batch.
LEMMA QuarantineOrigin ==
  ASSUME TypeInv, [Next]_vars, NEW e \in Issued, events'[e].quarantined
  PROVE  events[e].quarantined \/ SessionSuperseded(events[e].dev)
<1> USE DEF TypeInv
<1>1. events[e] \in EventRec
  BY EventTyped
<1>2. CASE UNCHANGED events
  BY <1>2
<1>3. ASSUME NEW d \in Device, NEW x \in Entity, LocalWrite(d, x) PROVE events[e].quarantined
  BY <1>3 DEF LocalWrite, Issued, TypeOK
<1>4. ASSUME NEW f \in Issued, BackoffElapses(f) PROVE events[e].quarantined
  BY <1>4, EventTyped DEF BackoffElapses, Issued, EventRec
<1>5. ASSUME NEW d \in Device, SessionSuperseded(d), events[e].dev # d
      PROVE  events[e].quarantined
  BY <1>5 DEF SessionSuperseded
<1>6. ASSUME NEW S, MarkFailed(S) PROVE events[e].quarantined
  BY <1>1, <1>6 DEF MarkFailed, Failed, EventRec
<1>7. ASSUME NEW d \in Device, ApplyResults(d) PROVE events[e].quarantined
  BY <1>1, <1>7 DEF ApplyResults, Resulting, EventRec
<1>8. ASSUME NEW S,
             \/ Update(S, Resent) \/ Update(S, Retired) \/ Update(S, Insisted)
             \/ Update(S, Released) \/ Update(S, Discarded)
      PROVE  events[e].quarantined
  <2>1. events'[e] \in {events[e], Resent(events[e]), Retired(events[e]),
                       Insisted(events[e]), Released(events[e]), Discarded(events[e])}
    BY <1>8 DEF Update
  <2>2. /\ Resent(events[e]).quarantined = events[e].quarantined
        /\ Retired(events[e]).quarantined = events[e].quarantined
        /\ Insisted(events[e]).quarantined = events[e].quarantined
    BY <1>1 DEF Resent, Retired, Insisted, EventRec
  <2>3. ~Released(events[e]).quarantined /\ ~Discarded(events[e]).quarantined
    BY <1>1 DEF Released, Discarded, EventRec
  <2> QED
    BY <2>1, <2>2, <2>3
<1>9. ASSUME NEW d \in Device, OperatorStep(d) PROVE events[e].quarantined
  BY <1>8, <1>9 DEF OperatorStep, RetryFailed, ClearFailed, ResolveConflicts, Discard,
     ResolveConflictsLocal, ReleaseQuarantine, DiscardQuarantine
<1> QED
  BY <1>2, <1>3, <1>4, <1>5, <1>6, <1>7, <1>9, EntryChanges DEF BatchFails, RevisionUnknown

\* Without late commits no request is left behind.
LEMMA InflightStaysEmpty ==
  ASSUME LateCommits = FALSE, inflight = {}, [Next]_vars
  PROVE  inflight' = {}
<1>1. ASSUME NEW d \in Device, CycleStep(d) PROVE inflight' = {}
  BY <1>1
     DEF CycleStep, PushStep, StartCycle, SessionValid, SessionUnknown, SessionSuperseded,
         TakeBatch, EndPush, SchemaRefused, Prefetch, AckKnown, PushApplied, PushLost,
         RevisionUnknown, PushRefused, PushDelayed, BatchFails, ApplyResults, wireVars
<1>2. ASSUME NEW d \in Device, NEW p \in Puller, PullStep(d, p) PROVE inflight' = {}
  BY <1>2 DEF PullStep, ReadPulse, ReadTable, ReadRevision, ApplySnapshot, RefuseStale,
     PullFails, wireVars
<1>3. ASSUME NEW d \in Device, OperatorStep(d) PROVE inflight' = {}
  BY <1>3 DEF OperatorStep, RetryFailed, ClearFailed, ResolveConflicts,
     ResolveConflictsLocal, ReleaseQuarantine, DiscardQuarantine, Discard, wireVars
<1>4. CASE \/ UNCHANGED vars
           \/ \E x \in Entity : WebWrite(x) \/ WebDelete(x)
           \/ Replicate
           \/ \E e \in Issued : LateCommit(e) \/ LateDrop(e) \/ BackoffElapses(e)
           \/ \E d \in Device : \/ \E x \in Entity : LocalWrite(d, x)
                                \/ StartDirectPull(d)
                                \/ Crash(d)
  BY <1>4 DEF vars, WebWrite, WebDelete, WebSet, Replicate, LateCommit, LateDrop,
     BackoffElapses, LocalWrite, StartDirectPull, Crash, wireVars
<1> QED
  BY <1>1, <1>2, <1>3, <1>4 DEF Next

\* An event that a step applies is no longer one its device has to work on.
LEMMA AppliedIsDone ==
  ASSUME TypeInv, PushInv, [Next]_vars,
         NEW d \in Device, NEW e \in cycle[d].batch \ cycle[d].known,
         AtEvent(d, e), PushApplied(d) \/ PushLost(d) \/ RevisionUnknown(d)
  PROVE  e \notin Todo(d)' \/ cycle'[d].pc # "push"
<1> USE DEF TypeInv
<1>1. ASSUME NEW f, AtEvent(d, f), f \in cycle[d].batch PROVE f = e
  BY <1>1, AtEventInBatch DEF AtEvent, Todo
<1>2. CASE PushApplied(d)
  BY <1>1, <1>2, WorkRecord DEF Accepted, Todo
<1>3. CASE PushLost(d)
  BY <1>1, <1>3, WorkRecord DEF Rejected, Todo
<1>4. CASE RevisionUnknown(d)
  <2>1. cycle'[d] = [IdleCycle EXCEPT !.pc = "pull"]
    BY <1>4, CycleAt DEF RevisionUnknown, GoPull
  <2> QED
    BY <2>1 DEF IdleCycle
<1> QED
  BY <1>2, <1>3, <1>4

\* The only events that enter the changelog while a device pushes a batch are
\* those it has just worked on.
LEMMA NothingElseLogged ==
  ASSUME TypeInv, PushInv, [Next]_vars,
         NEW f \in Device, cycle'[f].pc = "push", NEW e \in Todo(f)', e \in Logged'
  PROVE  e \in Logged
<1> USE DEF TypeInv
<1>1. CASE UNCHANGED changelog
  BY <1>1, SameLog
<1>2. CASE ~UNCHANGED changelog
  <2>1. PICK d \in Device : \E g \in cycle[d].batch \ cycle[d].known :
          /\ AtEvent(d, g)
          /\ Execute(g)
          /\ PushApplied(d) \/ PushLost(d) \/ RevisionUnknown(d)
    BY <1>2, LogChanges
  <2>2. PICK g \in cycle[d].batch \ cycle[d].known :
          /\ AtEvent(d, g)
          /\ Execute(g)
          /\ PushApplied(d) \/ PushLost(d) \/ RevisionUnknown(d)
    BY <2>1
  <2>3. g \in Issued /\ events[g].dev = d
    BY DEF BatchOwned
  <2>4. Logged' = Logged \cup {g}
    BY <2>2, <2>3, ExecuteLogs DEF Issued
  <2>5. CASE e = g
    <3>1. e \in cycle'[f].batch /\ BatchOwned'
      BY StepOwnsBatch DEF Todo
    <3>2. events'[e].dev = f
      BY <3>1 DEF BatchOwned
    <3>3. f = d
      BY <2>3, <2>5, <3>2, StepKeepsEntries DEF EntriesKept
    <3> QED
      BY <2>2, <2>5, <3>3, AppliedIsDone
  <2> QED
    BY <2>4, <2>5
<1> QED
  BY <1>1, <1>2

\* What is left of a batch and was logged has its receipt read.
LEMMA ReceiptsStayRead ==
  ASSUME TypeInv, PushInv, [Next]_vars, NEW f \in Device, cycle'[f].pc = "push"
  PROVE  Todo(f)' \cap Logged' \subseteq cycle'[f].known
<1> USE DEF TypeInv
<1>1. Todo(f)' \cap Logged' \subseteq Logged
  BY NothingElseLogged
<1>2. CASE cycle'[f] = cycle[f]
  BY <1>1, <1>2 DEF PushInv, Todo
<1>3. CASE Emptied(f)
  BY <1>3 DEF Emptied
<1>4. CASE CycleWork(f)
  <2>1. CASE StartCycle(f) \/ SessionValid(f) \/ TakeBatch(f)
    BY <2>1, WorkRecord
  <2>2. CASE Prefetch(f)
    BY <1>1, <2>2, WorkRecord DEF Receipts, Todo
  <2>3. ASSUME NEW e, Accepted(f, e) \/ Rejected(f, e)
        PROVE  Todo(f)' \cap Logged' \subseteq cycle'[f].known
    <3>1. Todo(f)' \subseteq Todo(f) /\ cycle'[f].known = cycle[f].known
      BY <2>3 DEF Accepted, Rejected, Todo
    <3>2. cycle[f].pc = "push"
      BY <2>3 DEF Accepted, Rejected
    <3> QED
      BY <1>1, <3>1, <3>2 DEF PushInv
  <2> QED
    BY <1>4, <2>1, <2>2, <2>3, WorkRecord DEF CycleWork
<1> QED
  BY <1>2, <1>3, <1>4, CycleChanges, WorkRecord

\* A batch is emptied when the cycle leaves the push.
LEMMA BatchStaysInPush ==
  ASSUME TypeInv, PushInv, [Next]_vars, NEW f \in Device
  PROVE  ~Pushing(f)' => cycle'[f].batch = {}
<1> USE DEF TypeInv
<1>1. CASE cycle'[f] = cycle[f]
  BY <1>1 DEF PushInv, Pushing
<1>2. CASE Emptied(f)
  BY <1>2 DEF Emptied
<1>3. CASE CycleWork(f)
  <2>1. CASE StartCycle(f) \/ SessionValid(f)
    BY <2>1, WorkRecord DEF StartCycle, SessionValid, PushInv, Pushing
  <2>2. CASE TakeBatch(f) \/ Prefetch(f)
    BY <2>2, WorkRecord DEF Pushing
  <2>3. ASSUME NEW e, Accepted(f, e) \/ Rejected(f, e), AtEvent(f, e) PROVE Pushing(f)'
    BY <2>3 DEF Accepted, Rejected, AtEvent, Pushing
  <2> QED
    BY <1>3, <2>1, <2>2, <2>3, WorkRecord DEF CycleWork
<1> QED
  BY <1>1, <1>2, <1>3, CycleChanges, WorkRecord

\* No event of a batch becomes quarantined.
LEMMA BatchStaysReleased ==
  ASSUME TypeInv, PushInv, [Next]_vars, NEW f \in Device, NEW e \in cycle'[f].batch
  PROVE  ~events'[e].quarantined
<1> USE DEF TypeInv
<1>1. CASE cycle'[f].batch = cycle[f].batch
  <2>1. e \in Issued /\ events[e].dev = f
    BY <1>1 DEF BatchOwned
  <2>2. ~SessionSuperseded(f)
    BY <1>1 DEF PushInv, Pushing, SessionSuperseded
  <2> QED
    BY <1>1, <2>1, <2>2, QuarantineOrigin DEF PushInv
<1>2. CASE Emptied(f)
  BY <1>2 DEF Emptied
<1>3. CASE TakeBatch(f)
  BY <1>3, WorkRecord DEF TakeBatch, Batches, Eligible, Outbox
<1>4. CASE CycleWork(f)
  BY <1>1, <1>3, <1>4, WorkRecord DEF CycleWork, Accepted, Rejected
<1> QED
  BY <1>1, <1>2, <1>4, CycleChanges, WorkRecord

\* Every step keeps the inductive invariant.
LEMMA PushInvStep ==
  ASSUME LateCommits = FALSE, TypeInv, PushInv, [Next]_vars
  PROVE  PushInv'
<1> USE DEF TypeInv
<1>1. inflight' = {}
  BY InflightStaysEmpty DEF PushInv
<1>2. Logged' \subseteq Issued'
  <2>1. Issued \subseteq Issued'
    BY StepKeepsEntries DEF EntriesKept, Issued, TypeOK
  <2>2. CASE UNCHANGED changelog
    BY <2>1, <2>2, SameLog DEF PushInv
  <2>3. ASSUME NEW d \in Device, NEW e \in cycle[d].batch, Execute(e)
        PROVE  Logged' \subseteq Issued'
    <3>1. e \in Issued /\ e \in Nat
      BY DEF BatchOwned, Issued
    <3>2. Logged' = Logged \cup {e}
      BY <2>3, <3>1, ExecuteLogs
    <3> QED
      BY <2>1, <3>1, <3>2 DEF PushInv
  <2> QED
    BY <2>2, <2>3, LogChanges
<1>3. ASSUME NEW d \in Device
      PROVE  /\ ~Pushing(d)' => cycle'[d].batch = {}
             /\ \A e \in cycle'[d].batch : ~events'[e].quarantined
             /\ cycle'[d].pc = "push" => Todo(d)' \cap Logged' \subseteq cycle'[d].known
  BY BatchStaysInPush, BatchStaysReleased, ReceiptsStayRead
<1> QED
  BY <1>1, <1>2, <1>3 DEF PushInv

\* Batches are released, their receipts are read, nothing else is under way.
LEMMA PushInvariant == ASSUME LateCommits = FALSE PROVE Spec => []PushInv
<1>1. Init => PushInv
  BY PushInvInit
<1>2. TypeInv /\ PushInv /\ [Next]_vars => PushInv'
  BY PushInvStep
<1> QED
  BY <1>1, <1>2, TypeInvariant, PTL DEF Spec

\* What a step adds to the changelog, it took from a batch that still waits.
LEMMA LoggedInBatch ==
  ASSUME TypeInv, PushInv, [Next]_vars, NEW e \in Logged', e \notin Logged
  PROVE  \E d \in Device : e \in cycle[d].batch \ cycle[d].known /\ Execute(e)
<1> USE DEF TypeInv
<1>1. ~UNCHANGED changelog
  BY SameLog
<1>2. PICK d \in Device : \E g \in cycle[d].batch \ cycle[d].known : Execute(g)
  BY <1>1, LogChanges
<1>3. PICK g \in cycle[d].batch \ cycle[d].known : Execute(g)
  BY <1>2
<1>4. g \in Nat
  BY DEF BatchOwned, Issued
<1>5. e = g
  BY <1>3, <1>4, ExecuteLogs
<1> QED
  BY <1>3, <1>5

\* An event that the cloud does not have yet is not applied while it is
\* quarantined: pending_events never takes it and no batch holds it.
THEOREM QuarantineIsKept == ASSUME LateCommits = FALSE PROVE Spec => QuarantineHolds
<1> DEFINE Step == \A e \in Issued :
              events[e].quarantined /\ e \notin Logged
                => ~(\E i \in DOMAIN changelog' : changelog'[i] = e)
<1>1. TypeInv /\ TypeInv' /\ PushInv /\ [Next]_vars => [Step]_vars
  <2> SUFFICES ASSUME TypeInv, TypeInv', PushInv, [Next]_vars,
                      NEW e \in Issued, events[e].quarantined, e \notin Logged,
                      NEW i \in DOMAIN changelog', changelog'[i] = e
               PROVE  FALSE
    OBVIOUS
  <2>1. e \in Logged'
    BY DEF Logged, TypeInv, TypeOK
  <2> QED
    BY <2>1, LoggedInBatch DEF PushInv
<1>2. Spec => [][Step]_vars
  BY <1>1, TypeInvariant, PushInvariant, PTL DEF Spec
<1> QED
  BY <1>2 DEF QuarantineHolds

\* The rows of the cloud change by the web application or by an event that
\* enters the changelog with the same step.
LEMMA CloudRowChanges ==
  ASSUME TypeInv, PushInv, [Next]_vars, NEW x \in Entity, cloudRow'[x] # cloudRow[x]
  PROVE  \/ cloudRow'[x] \notin Nat \ {0}
         \/ cloudRow'[x] \notin Logged
<1> USE DEF TypeInv
<1>0. cloudRow \in [Entity -> Int] /\ webWrites \in Nat
  BY DEF TypeOK
<1>1. ASSUME NEW y \in Entity, WebWrite(y) PROVE cloudRow'[x] < 0
  BY <1>0, <1>1 DEF WebWrite, WebSet
<1>2. ASSUME NEW y \in Entity, WebDelete(y) PROVE cloudRow'[x] = 0
  BY <1>0, <1>2 DEF WebDelete, WebSet, NoRow
<1>3. ASSUME NEW d \in Device, NEW e \in cycle[d].batch \ cycle[d].known, AtEvent(d, e),
             Execute(e)
      PROVE  cloudRow'[x] \notin Logged
  <2>1. cloudRow'[x] = e
    BY <1>0, <1>3 DEF Execute
  <2>2. e \notin Logged
    BY <1>3 DEF PushInv, AtEvent
  <2> QED
    BY <2>1, <2>2
<1>4. ASSUME NEW d \in Device, CycleStep(d), ~PushApplied(d), ~PushLost(d), ~RevisionUnknown(d)
      PROVE  UNCHANGED cloudRow
  BY <1>4
     DEF CycleStep, PushStep, StartCycle, SessionValid, SessionUnknown, SessionSuperseded,
         TakeBatch, EndPush, SchemaRefused, Prefetch, AckKnown, PushRefused, PushDelayed,
         BatchFails, ApplyResults, cloudVars
<1>5. ASSUME NEW d \in Device, PushApplied(d) \/ PushLost(d) \/ RevisionUnknown(d)
      PROVE  cloudRow'[x] \notin Logged
  BY <1>3, <1>5 DEF PushApplied, PushLost, RevisionUnknown
<1>6. ASSUME NEW d \in Device, NEW p \in Puller, PullStep(d, p) PROVE UNCHANGED cloudRow
  BY <1>6 DEF PullStep, ReadPulse, ReadTable, ReadRevision, ApplySnapshot, RefuseStale,
     PullFails, cloudVars
<1>7. ASSUME NEW d \in Device, OperatorStep(d) PROVE UNCHANGED cloudRow
  BY <1>7 DEF OperatorStep, RetryFailed, ClearFailed, ResolveConflicts,
     ResolveConflictsLocal, ReleaseQuarantine, DiscardQuarantine, Discard, cloudVars
<1>8. CASE \/ UNCHANGED vars
           \/ Replicate
           \/ \E e \in Issued : LateCommit(e) \/ LateDrop(e) \/ BackoffElapses(e)
           \/ \E d \in Device : \/ \E y \in Entity : LocalWrite(d, y)
                                \/ StartDirectPull(d)
                                \/ Crash(d)
  <2>1. UNCHANGED cloudRow
    BY <1>8 DEF PushInv, vars, Replicate, LateCommit, LateDrop, BackoffElapses, LocalWrite,
       StartDirectPull, Crash, cloudVars
  <2> QED
    BY <2>1
<1> QED
  BY <1>1, <1>2, <1>4, <1>5, <1>6, <1>7, <1>8 DEF Next

\* The mutations of an event run once: an event whose receipt was read, or
\* that was applied since, is not applied again over later writes.
THEOREM AppliedAtMostOnce == ASSUME LateCommits = FALSE PROVE Spec => AppliedOnce
<1> DEFINE Step == \A x \in Entity :
              cloudRow'[x] # cloudRow[x] => cloudRow'[x] \notin Logged
<1>1. TypeInv /\ PushInv /\ [Next]_vars => [Step]_vars
  <2> SUFFICES ASSUME TypeInv, PushInv, [Next]_vars,
                      NEW x \in Entity, cloudRow'[x] # cloudRow[x]
               PROVE  cloudRow'[x] \notin Logged
    OBVIOUS
  <2>1. Logged \subseteq Nat \ {0}
    BY DEF PushInv, Issued
  <2> QED
    BY <2>1, CloudRowChanges
<1>2. Spec => [][Step]_vars
  BY <1>1, TypeInvariant, PushInvariant, PTL DEF Spec
<1> QED
  BY <1>2 DEF AppliedOnce

---------------------------------------------------------------------------
(* The pull *)

\* What the rows of a device are written from.
LEMMA TraceWriters ==
  ASSUME [Next]_vars
  PROVE  \/ UNCHANGED <<localRow, trace, cursor>>
         \/ \E d \in Device, x \in Entity : LocalWrite(d, x)
         \/ \E d \in Device, p \in Puller : ApplySnapshot(d, p)
         \/ \E d \in Device : ApplyResults(d)
         \/ \E d \in Device : \E S : Discard(d, S) /\ S \subseteq Outbox(d)
<1>1. CASE \/ UNCHANGED vars
           \/ \E x \in Entity : WebWrite(x) \/ WebDelete(x)
           \/ Replicate
           \/ \E e \in Issued : LateCommit(e) \/ LateDrop(e) \/ BackoffElapses(e)
           \/ \E d \in Device : StartDirectPull(d) \/ Crash(d)
  BY <1>1 DEF vars, WebWrite, WebDelete, WebSet, Replicate, LateCommit, LateDrop,
     BackoffElapses, StartDirectPull, Crash, deviceVars
<1>2. ASSUME NEW d \in Device, NEW p \in Puller, PullStep(d, p), ~ApplySnapshot(d, p)
      PROVE  UNCHANGED <<localRow, trace, cursor>>
  BY <1>2 DEF PullStep, ReadPulse, ReadTable, ReadRevision, RefuseStale, PullFails, deviceVars
<1>3. ASSUME NEW d \in Device, CycleStep(d), ~ApplyResults(d)
      PROVE  UNCHANGED <<localRow, trace, cursor>>
  BY <1>3
     DEF CycleStep, PushStep, StartCycle, SessionValid, SessionUnknown, SessionSuperseded,
         TakeBatch, EndPush, SchemaRefused, Prefetch, AckKnown, PushApplied, PushRefused,
         PushLost, PushDelayed, BatchFails, RevisionUnknown, deviceVars
<1>4. ASSUME NEW d \in Device, OperatorStep(d)
      PROVE  \/ UNCHANGED <<localRow, trace, cursor>>
             \/ \E S : Discard(d, S) /\ S \subseteq Outbox(d)
  <2>1. CASE ResolveConflicts(d)
    BY <2>1 DEF ResolveConflicts, Chosen, OpenConflicts
  <2>2. CASE DiscardQuarantine(d)
    BY <2>2 DEF DiscardQuarantine, Quarantined
  <2> QED
    BY <1>4, <2>1, <2>2 DEF OperatorStep, RetryFailed, ClearFailed, ResolveConflictsLocal,
       ReleaseQuarantine, deviceVars
<1> QED
  BY <1>1, <1>2, <1>3, <1>4 DEF Next

\* The rows with an unsent change are the rows PendingGuard names.
LEMMA UnsentIsGuarded ==
  ASSUME TypeOK, NEW d, NEW x
  PROVE  HasUnsent(d, x) <=> Guarded(d, x)
BY EventTyped DEF HasUnsent, Guarded, Outbox, Unsent, EventRec

\* Discarding changes leaves a row alone while another change of it waits.
LEMMA DiscardLeaves ==
  ASSUME TypeOK, NEW d \in Device, NEW S, S \subseteq Outbox(d), Discard(d, S),
         NEW f \in Device, NEW x \in Entity, HasUnsent(f, x)'
  PROVE  UNCHANGED localRow[f][x]
<1>1. CASE f # d
  BY <1>1 DEF Discard, ForgetRows, TypeOK
<1>2. CASE f = d
  <2>1. PICK e \in Issued' : /\ events'[e].dev = d
                             /\ events'[e].ent = x
                             /\ events'[e].status \notin {"synced", "discarded"}
    BY <1>2 DEF HasUnsent
  <2>2. EntriesKept /\ Len(events') = Len(events)
    BY UpdateKept DEF Discard
  <2>3. e \in Issued /\ events[e] \in EventRec
    BY <2>2, EventTyped DEF Issued
  <2>4. Discarded(events[e]).status = "discarded"
    BY <2>3 DEF Discarded, EventRec
  <2>5. e \notin S /\ events'[e] = events[e]
    BY <2>1, <2>3, <2>4 DEF Discard, Update
  <2>6. e \in Outbox(d) \ S /\ events[e].ent = x /\ events[e].status \in Unsent
    BY <2>1, <2>3, <2>5 DEF Outbox, EventRec, Unsent
  <2>7. localRow[d] \in [Entity -> Int]
    BY DEF TypeOK
  <2> QED
    BY <1>2, <2>6, <2>7 DEF Discard, ForgetRows, TypeOK
<1> QED
  BY <1>1, <1>2

\* While a change of a row waits, only another change of the row writes to
\* it: pulls read the guard in the transaction in which they write.
THEOREM UnsentRowIsKept == Spec => UnsentRowKept
<1> DEFINE Step == \A d \in Device, x \in Entity :
              HasUnsent(d, x) /\ HasUnsent(d, x)' /\ localRow'[d][x] # localRow[d][x]
                => Len(events') > Len(events)
<1>1. TypeInv /\ [Next]_vars => [Step]_vars
  <2> SUFFICES ASSUME TypeInv, [Next]_vars, NEW d \in Device, NEW x \in Entity,
                      HasUnsent(d, x), HasUnsent(d, x)',
                      localRow'[d][x] # localRow[d][x]
               PROVE  Len(events') > Len(events)
    OBVIOUS
  <2> USE DEF TypeInv
  <2>1. ASSUME NEW f \in Device, NEW y \in Entity, LocalWrite(f, y)
        PROVE  Len(events') > Len(events)
    BY <2>1 DEF LocalWrite, TypeOK
  <2>2. ASSUME NEW f \in Device, NEW p \in Puller, ApplySnapshot(f, p) PROVE FALSE
    <3>1. Guarded(d, x)
      BY UnsentIsGuarded
    <3>2. CASE f = d
      <4>1. ~Upserts(d, pull[d][p].rows, x) /\ ~Deletes(d, pull[d][p].rows, x)
        BY <3>1 DEF Upserts, Deletes
      <4> QED
        BY <2>2, <3>2, <4>1 DEF ApplySnapshot, TypeOK
    <3>3. CASE f # d
      BY <2>2, <3>3 DEF ApplySnapshot, TypeOK
    <3> QED
      BY <3>2, <3>3
  <2>3. ASSUME NEW f \in Device, NEW S, Discard(f, S), S \subseteq Outbox(f) PROVE FALSE
    BY <2>3, DiscardLeaves
  <2> QED
    BY <2>1, <2>2, <2>3, TraceWriters DEF ApplyResults
<1>2. Spec => [][Step]_vars
  BY <1>1, TypeInvariant, PTL DEF Spec
<1> QED
  BY <1>2 DEF UnsentRowKept

-----------------------------------------------------------------------------
(* What a pull brings, when no replica lags behind.                        *)

Loading(d, p) == pull[d][p].pc \in {"read", "apply"}

\* No cursor, and none that a pull is about to store, is ahead of the cloud.
CursorsBehind ==
  /\ \A d \in Device, t \in Table : cursor[d][t] <= pulse[t]
  /\ \A d \in Device, p \in Puller, t \in Table :
       Loading(d, p) => pull[d][p].seen[t] <= pulse[t]

\* A table read since its pulse was is the cloud's as long as that pulse stays.
ReadsCurrent ==
  \A d \in Device, p \in Puller, x \in Entity :
    /\ Loading(d, p)
    /\ TableOf[x] \in pull[d][p].wanted \ pull[d][p].left
    /\ pull[d][p].seen[TableOf[x]] = pulse[TableOf[x]]
    => pull[d][p].rows[x] = cloudRow[x]

AllRead ==
  \A d \in Device, p \in Puller : pull[d][p].pc = "apply" => pull[d][p].left = {}

Settled(d, x) == trace[d][x] \in Int /\ ~HasUnsent(d, x) /\ ~WasCleared(d, x)

\* A row that a pull was the last to trace is the traced version.
TraceCurrent ==
  \A d \in Device, x \in Entity :
    /\ trace[d][x] # NoRow
    /\ Settled(d, x) =>
         /\ localRow[d][x] = trace[d][x]
         /\ cursor[d][TableOf[x]] = pulse[TableOf[x]] => trace[d][x] = cloudRow[x]

ResultsOwned == \A d \in Device : cycle[d].applied \subseteq cycle[d].batch

HistoryIssued == cleared \subseteq Issued

PullInv == /\ CursorsBehind /\ ReadsCurrent /\ AllRead /\ TraceCurrent
           /\ ResultsOwned /\ HistoryIssued

\* The inductive invariant holds at first.
LEMMA PullInvInit == Init => PullInv
<1> SUFFICES ASSUME Init PROVE PullInv
  OBVIOUS
<1>1. NoTrace # NoRow /\ NoTrace \notin Int
  BY TraceAssumption DEF NoRow
<1>2. CursorsBehind /\ ReadsCurrent /\ AllRead
  BY TableAssumption DEF Init, CursorsBehind, ReadsCurrent, AllRead, Loading, IdlePull
<1>3. TraceCurrent
  BY <1>1 DEF Init, TraceCurrent, Settled
<1>4. ResultsOwned /\ HistoryIssued
  BY DEF Init, ResultsOwned, HistoryIssued, IdleCycle
<1> QED
  BY <1>2, <1>3, <1>4 DEF PullInv

\* A result belongs to an event of the batch.
LEMMA ResultsStayOwned ==
  ASSUME TypeInv, ResultsOwned, [Next]_vars
  PROVE  ResultsOwned'
<1> USE DEF TypeInv
<1>1. CASE \A f \in Device : cycle'[f] = cycle[f] \/ Emptied(f)
  BY <1>1 DEF ResultsOwned, Emptied
<1>2. ASSUME NEW d \in Device, CycleWork(d) PROVE ResultsOwned'
  <2>1. \A f \in Device \ {d} : cycle'[f] = cycle[f]
    BY <1>2, WorkRecord
  <2>2. cycle'[d].applied \subseteq cycle'[d].batch
    <3>1. ASSUME NEW e, AtEvent(d, e), Accepted(d, e) \/ Rejected(d, e)
          PROVE  cycle'[d].applied \subseteq cycle'[d].batch
      BY <3>1 DEF AtEvent, Todo, Accepted, Rejected, ResultsOwned
    <3>2. CASE StartCycle(d) \/ SessionValid(d) \/ TakeBatch(d) \/ Prefetch(d)
      BY <3>2, WorkRecord DEF ResultsOwned
    <3> QED
      BY <1>2, <3>1, <3>2, WorkRecord DEF CycleWork
  <2> QED
    BY <2>1, <2>2 DEF ResultsOwned
<1> QED
  BY <1>1, <1>2, CycleChanges

\* Only events that exist are cleared.
LEMMA HistoryStaysIssued ==
  ASSUME TypeInv, HistoryIssued, [Next]_vars
  PROVE  HistoryIssued'
<1> USE DEF TypeInv
<1>1. Issued \subseteq Issued'
  BY StepKeepsEntries DEF EntriesKept, Issued, TypeOK
<1>2. ASSUME NEW d \in Device, ClearFailed(d) PROVE cleared' \subseteq Issued
  BY <1>2 DEF ClearFailed, Chosen, Outbox, HistoryIssued
<1>3. ASSUME NEW d \in Device, OperatorStep(d) PROVE cleared' \subseteq Issued
  BY <1>2, <1>3 DEF OperatorStep, RetryFailed, ResolveConflicts, Discard, HistoryIssued,
     ResolveConflictsLocal, ReleaseQuarantine, DiscardQuarantine
<1>4. cleared' \subseteq Issued
  BY <1>3, EntryChanges DEF LocalWrite, BackoffElapses, SessionSuperseded, BatchFails,
     RevisionUnknown, ApplyResults, HistoryIssued
<1> QED
  BY <1>1, <1>4 DEF HistoryIssued

\* Every change of a row of the cloud raises the pulse of its table.
LEMMA CloudMoves ==
  ASSUME TypeInv, [Next]_vars
  PROVE  /\ \A t \in Table : pulse[t] <= pulse'[t]
         /\ \A x \in Entity : \/ cloudRow'[x] = cloudRow[x]
                              \/ pulse[TableOf[x]] < pulse'[TableOf[x]]
<1> DEFINE Moves == /\ \A t \in Table : pulse[t] <= pulse'[t]
                    /\ \A x \in Entity : \/ cloudRow'[x] = cloudRow[x]
                                         \/ pulse[TableOf[x]] < pulse'[TableOf[x]]
<1> USE DEF TypeInv
<1>1. pulse \in [Table -> Nat] /\ cloudRow \in [Entity -> Int] /\ TableOf \in [Entity -> Table]
  BY TableAssumption DEF TypeOK
<1>2. ASSUME NEW x \in Entity, NEW v, cloudRow' = [cloudRow EXCEPT ![x] = v],
             pulse' = [pulse EXCEPT ![TableOf[x]] = @ + 1]
      PROVE  Moves
  BY <1>1, <1>2
<1>3. CASE UNCHANGED <<cloudRow, pulse>>
  BY <1>1, <1>3
<1>4. ASSUME NEW e \in Issued, Execute(e) PROVE Moves
  BY <1>2, <1>4, EventTyped DEF Execute, EventRec
<1>5. ASSUME NEW x \in Entity, WebWrite(x) \/ WebDelete(x) PROVE Moves
  BY <1>2, <1>5 DEF WebWrite, WebDelete, WebSet
<1>6. ASSUME NEW e \in Issued, LateCommit(e) \/ LateDrop(e) \/ BackoffElapses(e) PROVE Moves
  BY <1>3, <1>4, <1>6 DEF LateCommit, LateDrop, BackoffElapses, cloudVars
<1>7. ASSUME NEW d \in Device, PushApplied(d) \/ PushLost(d) \/ RevisionUnknown(d)
      PROVE  Moves
  BY <1>4, <1>7, AtEventInBatch DEF PushApplied, PushLost, RevisionUnknown
<1>8. ASSUME NEW d \in Device, CycleStep(d) PROVE Moves
  BY <1>3, <1>7, <1>8
     DEF CycleStep, PushStep, StartCycle, SessionValid, SessionUnknown, SessionSuperseded,
         TakeBatch, EndPush, SchemaRefused, Prefetch, AckKnown, PushRefused, PushDelayed,
         BatchFails, ApplyResults, cloudVars
<1>9. ASSUME NEW d \in Device, NEW p \in Puller, PullStep(d, p) PROVE Moves
  BY <1>3, <1>9 DEF PullStep, ReadPulse, ReadTable, ReadRevision, ApplySnapshot,
     RefuseStale, PullFails, cloudVars
<1>10. ASSUME NEW d \in Device, OperatorStep(d) PROVE Moves
  BY <1>3, <1>10 DEF OperatorStep, RetryFailed, ClearFailed, ResolveConflicts,
     ResolveConflictsLocal, ReleaseQuarantine, DiscardQuarantine, Discard, cloudVars
<1>11. CASE \/ UNCHANGED vars
            \/ Replicate
            \/ \E d \in Device : \/ \E x \in Entity : LocalWrite(d, x)
                                 \/ StartDirectPull(d)
                                 \/ Crash(d)
  BY <1>3, <1>11 DEF vars, Replicate, LocalWrite, StartDirectPull, Crash, cloudVars
<1> QED
  BY <1>5, <1>6, <1>8, <1>9, <1>10, <1>11 DEF Next

\* The three steps of a pull that read the cloud, as they change its record.
Probed(d, p) ==
  /\ UNCHANGED <<cloudRow, pulse>>
  /\ pull'[d][p].pc = "read"
  /\ pull'[d][p].seen = pulse
  /\ pull'[d][p].wanted = pull'[d][p].left

Loaded(d, p, t) ==
  /\ UNCHANGED <<cloudRow, pulse>>
  /\ pull[d][p].pc = "read" /\ pull'[d][p].pc = "read"
  /\ pull'[d][p].seen = pull[d][p].seen
  /\ pull'[d][p].wanted = pull[d][p].wanted
  /\ pull'[d][p].left = pull[d][p].left \ {t}
  /\ pull'[d][p].rows = WithTable(d, p, t, Primary)

Completed(d, p) ==
  /\ UNCHANGED <<cloudRow, pulse>>
  /\ pull[d][p].pc = "read" /\ pull[d][p].left = {}
  /\ pull'[d][p].seen = pull[d][p].seen
  /\ pull'[d][p].wanted = pull[d][p].wanted
  /\ pull'[d][p].left = pull[d][p].left
  /\ pull'[d][p].rows = pull[d][p].rows

\* Replacing the record of one pull leaves the others.
LEMMA PullAt ==
  ASSUME TypeOK, NEW d \in Device, NEW p \in Puller, NEW r, pull' = [pull EXCEPT ![d][p] = r]
  PROVE  /\ pull'[d][p] = r
         /\ \A f \in Device, q \in Puller : f # d \/ q # p => pull'[f][q] = pull[f][q]
BY DEF TypeOK

\* What the reading steps of a pull make of its record.
LEMMA ReadSteps ==
  ASSUME TypeOK, LaggingReads = FALSE, NEW d \in Device, NEW p \in Puller
  PROVE  /\ ReadPulse(d, p) => \/ EndPull(d, p)
                               \/ Probed(d, p)
         /\ ReadTable(d, p) => \E t \in pull[d][p].left : Loaded(d, p, t)
         /\ ReadRevision(d, p) => Completed(d, p)
<1>1. pull[d][p] \in PullRec
  BY DEF TypeOK
<1>2. Sources = {Primary}
  BY DEF Sources
<1>3. ASSUME ReadPulse(d, p), ~EndPull(d, p) PROVE Probed(d, p)
  <2> DEFINE r == [pull[d][p] EXCEPT !.pc = "read", !.seen = Primary.pulse,
                     !.wanted = Stale(d, Primary), !.left = Stale(d, Primary)]
  <2>1. pull' = [pull EXCEPT ![d][p] = r] /\ UNCHANGED <<cloudRow, pulse>>
    BY <1>2, <1>3 DEF ReadPulse, cloudVars, TypeOK
  <2>2. r.pc = "read" /\ r.seen = Primary.pulse /\ r.wanted = r.left
    BY <1>1 DEF PullRec
  <2> HIDE DEF r
  <2>3. pull'[d][p] = r
    BY <2>1 DEF TypeOK
  <2> QED
    BY <2>1, <2>2, <2>3 DEF Probed, Primary
<1>4. ASSUME ReadTable(d, p) PROVE \E t \in pull[d][p].left : Loaded(d, p, t)
  <2>1. PICK t \in pull[d][p].left :
          pull' = [pull EXCEPT ![d][p] =
                     [pull[d][p] EXCEPT !.left = pull[d][p].left \ {t},
                                        !.rows = WithTable(d, p, t, Primary)]]
    BY <1>2, <1>4 DEF ReadTable, TypeOK
  <2> DEFINE r == [pull[d][p] EXCEPT !.left = pull[d][p].left \ {t},
                                     !.rows = WithTable(d, p, t, Primary)]
  <2>2. pull' = [pull EXCEPT ![d][p] = r]
    BY <2>1
  <2>3. /\ r.pc = pull[d][p].pc /\ r.seen = pull[d][p].seen
        /\ r.wanted = pull[d][p].wanted /\ r.left = pull[d][p].left \ {t}
        /\ r.rows = WithTable(d, p, t, Primary)
    BY <1>1 DEF PullRec
  <2> HIDE DEF r
  <2>4. pull'[d][p] = r
    BY <2>2 DEF TypeOK
  <2> QED
    BY <1>4, <2>3, <2>4 DEF Loaded, ReadTable, cloudVars
<1>5. ASSUME ReadRevision(d, p) PROVE Completed(d, p)
  <2>1. PICK n : pull' = [pull EXCEPT ![d][p] =
                            [pull[d][p] EXCEPT !.pc = "apply", !.rev = n]]
    BY <1>2, <1>5 DEF ReadRevision, TypeOK
  <2> DEFINE r == [pull[d][p] EXCEPT !.pc = "apply", !.rev = n]
  <2>2. pull' = [pull EXCEPT ![d][p] = r]
    BY <2>1
  <2>3. /\ r.seen = pull[d][p].seen /\ r.wanted = pull[d][p].wanted
        /\ r.left = pull[d][p].left /\ r.rows = pull[d][p].rows
    BY <1>1 DEF PullRec
  <2> HIDE DEF r
  <2>4. pull'[d][p] = r
    BY <2>2 DEF TypeOK
  <2> QED
    BY <1>5, <2>3, <2>4 DEF Completed, ReadRevision, cloudVars
<1> QED
  BY <1>3, <1>4, <1>5

\* Every step leaves a pull alone, takes it where nothing is loaded, or reads.
LEMMA PullMoves ==
  ASSUME TypeInv, LaggingReads = FALSE, [Next]_vars, NEW d \in Device, NEW p \in Puller
  PROVE  \/ pull'[d][p] = pull[d][p]
         \/ pull'[d][p].pc \notin {"read", "apply"}
         \/ Probed(d, p)
         \/ \E t \in pull[d][p].left : Loaded(d, p, t)
         \/ Completed(d, p)
<1> DEFINE Moves == \/ pull'[d][p] = pull[d][p]
                    \/ pull'[d][p].pc \notin {"read", "apply"}
                    \/ Probed(d, p)
                    \/ \E t \in pull[d][p].left : Loaded(d, p, t)
                    \/ Completed(d, p)
<1> USE DEF TypeInv
<1>1. CASE UNCHANGED pull
  BY <1>1
<1>2. ASSUME NEW f \in Device, NEW q \in Puller, NEW r,
             pull' = [pull EXCEPT ![f][q] = r], r.pc \notin {"read", "apply"}
      PROVE  Moves
  <2>1. CASE f = d /\ q = p
    BY <1>2, <2>1, PullAt
  <2>2. CASE f # d \/ q # p
    BY <1>2, <2>2, PullAt
  <2> QED
    BY <2>1, <2>2
<1>3. IdlePull.pc = "idle"
  BY DEF IdlePull
<1>4. ASSUME NEW f \in Device PROVE StartedPull(f).pc = "pulse"
  BY DEF StartedPull, IdlePull
<1>5. ASSUME NEW f \in Device, GoPull(f) PROVE Moves
  BY <1>2, <1>4, <1>5 DEF GoPull, Puller
<1>6. ASSUME NEW f \in Device, NEW q \in Puller, EndPull(f, q) PROVE Moves
  BY <1>2, <1>3, <1>6 DEF EndPull
<1>7. ASSUME NEW f \in Device, StartDirectPull(f) PROVE Moves
  BY <1>2, <1>4, <1>7 DEF StartDirectPull, Puller
<1>8. ASSUME NEW f \in Device, Crash(f) PROVE Moves
  BY <1>3, <1>8 DEF Crash, TypeOK
<1>9. ASSUME NEW f \in Device, NEW q \in Puller, PullStep(f, q) PROVE Moves
  <2>1. CASE f = d /\ q = p
    BY <1>6, <1>9, <2>1, ReadSteps
       DEF PullStep, ApplySnapshot, RefuseStale, PullFails
  <2>2. CASE f # d \/ q # p
    <3>1. ASSUME NEW r, pull' = [pull EXCEPT ![f][q] = r] PROVE pull'[d][p] = pull[d][p]
      BY <2>2, <3>1, PullAt
    <3>2. CASE ReadPulse(f, q) /\ ~EndPull(f, q)
      BY <3>1, <3>2 DEF ReadPulse
    <3>3. CASE ReadTable(f, q)
      BY <3>1, <3>3 DEF ReadTable
    <3>4. CASE ReadRevision(f, q)
      BY <3>1, <3>4 DEF ReadRevision
    <3> QED
      BY <1>6, <1>9, <3>2, <3>3, <3>4 DEF PullStep, ApplySnapshot, RefuseStale, PullFails
  <2> QED
    BY <2>1, <2>2
<1>10. ASSUME NEW f \in Device, CycleStep(f) PROVE Moves
  BY <1>1, <1>5, <1>10
     DEF CycleStep, PushStep, StartCycle, SessionValid, SessionUnknown, SessionSuperseded,
         TakeBatch, EndPush, SchemaRefused, Prefetch, AckKnown, PushApplied, PushRefused,
         PushLost, PushDelayed, BatchFails, RevisionUnknown, ApplyResults
<1>11. CASE \/ UNCHANGED vars
            \/ \E x \in Entity : WebWrite(x) \/ WebDelete(x)
            \/ Replicate
            \/ \E e \in Issued : LateCommit(e) \/ LateDrop(e) \/ BackoffElapses(e)
            \/ \E f \in Device : \/ \E x \in Entity : LocalWrite(f, x)
                                 \/ OperatorStep(f)
  BY <1>1, <1>11
     DEF vars, WebWrite, WebDelete, WebSet, Replicate, LateCommit, LateDrop, BackoffElapses,
         LocalWrite, OperatorStep, RetryFailed, ClearFailed, ResolveConflicts,
         ResolveConflictsLocal, ReleaseQuarantine, DiscardQuarantine, Discard
<1> QED
  BY <1>7, <1>8, <1>9, <1>10, <1>11 DEF Next


\* Pulses are numbers and never fall.
LEMMA PulsesTyped ==
  ASSUME TypeInv, [Next]_vars, NEW d \in Device, NEW p \in Puller, NEW t \in Table
  PROVE  /\ pull[d][p].seen[t] \in Int
         /\ pulse[t] \in Int /\ pulse'[t] \in Int /\ pulse[t] <= pulse'[t]
<1>1. TypeOK /\ TypeOK'
  BY StepTyped DEF TypeInv
<1>2. pull[d][p] \in PullRec
  BY <1>1 DEF TypeOK
<1>3. pull[d][p].seen[t] \in Int
  BY <1>2 DEF PullRec
<1>4. pulse[t] \in Int
  BY <1>1 DEF TypeOK
<1>5. pulse' \in [Table -> Nat]
  BY <1>1 DEF TypeOK
<1> QED
  BY <1>3, <1>4, <1>5, CloudMoves

\* A cursor is a pulse that was read before: it is never ahead.
LEMMA CursorsStayBehind ==
  ASSUME TypeInv, LaggingReads = FALSE, CursorsBehind, [Next]_vars
  PROVE  CursorsBehind'
<1> USE DEF TypeInv
<1>1. ASSUME NEW d \in Device, NEW p \in Puller
      PROVE  /\ \A t \in Table : pull[d][p].seen[t] \in Int
             /\ \A t \in Table : pulse[t] \in Int /\ pulse'[t] \in Int /\ pulse[t] <= pulse'[t]
  BY PulsesTyped
<1>2. ASSUME NEW d \in Device, NEW t \in Table PROVE cursor'[d][t] <= pulse'[t]
  <2>1. /\ cursor[d][t] \in Int /\ pulse[t] \in Int /\ pulse'[t] \in Int
        /\ pulse[t] <= pulse'[t] /\ cursor[d][t] <= pulse[t]
    <3>1. pulse[t] <= pulse'[t]
      BY CloudMoves
    <3>2. cursor[d][t] \in Int /\ pulse[t] \in Int /\ cursor[d][t] <= pulse[t]
      BY DEF TypeOK, CursorsBehind
    <3>3. pulse'[t] \in Int
      <4>1. TypeOK'
        BY StepTyped
      <4> QED
        BY <4>1 DEF TypeOK
    <3> QED
      BY <3>1, <3>2, <3>3
  <2>2. CASE cursor'[d][t] = cursor[d][t]
    BY <2>1, <2>2
  <2>3. ASSUME NEW p \in Puller, ApplySnapshot(d, p) PROVE cursor'[d][t] <= pulse'[t]
    <3>1. cursor'[d][t] = NewCursor(d, p, t)
      BY <2>3 DEF ApplySnapshot, TypeOK
    <3>2. pull[d][p].seen[t] <= pulse[t] /\ pull[d][p].seen[t] \in Int
      BY <1>1, <2>3 DEF ApplySnapshot, CursorsBehind, Loading
    <3>3. NewCursor(d, p, t) \in {pull[d][p].seen[t], cursor[d][t]}
      BY DEF NewCursor
    <3> QED
      BY <2>1, <3>1, <3>2, <3>3
  <2>4. ASSUME NEW f \in Device \ {d}, NEW p \in Puller, ApplySnapshot(f, p)
        PROVE  cursor'[d][t] = cursor[d][t]
    BY <2>4 DEF ApplySnapshot, TypeOK
  <2> QED
    BY <2>2, <2>3, <2>4, TraceWriters DEF LocalWrite, ApplyResults, Discard
<1>3. ASSUME NEW d \in Device, NEW p \in Puller, NEW t \in Table, Loading(d, p)'
      PROVE  pull'[d][p].seen[t] <= pulse'[t]
  <2>1. CASE pull'[d][p] = pull[d][p]
    BY <1>1, <1>3, <2>1 DEF CursorsBehind, Loading
  <2>2. CASE Probed(d, p)
    BY <1>1, <2>2 DEF Probed
  <2>3. CASE Completed(d, p) \/ \E u \in pull[d][p].left : Loaded(d, p, u)
    BY <1>1, <2>3 DEF CursorsBehind, Loading, Completed, Loaded
  <2> QED
    BY <1>3, <2>1, <2>2, <2>3, PullMoves DEF Loading
<1> QED
  BY <1>2, <1>3 DEF CursorsBehind

\* A table read after its pulse is current until the pulse rises.
LEMMA ReadsStayCurrent ==
  ASSUME TypeInv, LaggingReads = FALSE, CursorsBehind, ReadsCurrent, [Next]_vars
  PROVE  ReadsCurrent'
<1> USE DEF TypeInv
<1> SUFFICES ASSUME NEW d \in Device, NEW p \in Puller, NEW x \in Entity,
                    Loading(d, p)',
                    TableOf[x] \in pull'[d][p].wanted \ pull'[d][p].left,
                    pull'[d][p].seen[TableOf[x]] = pulse'[TableOf[x]]
             PROVE  pull'[d][p].rows[x] = cloudRow'[x]
  BY DEF ReadsCurrent
<1>1. TableOf[x] \in Table
  BY TableAssumption
<1>2. /\ pulse[TableOf[x]] \in Int /\ pulse'[TableOf[x]] \in Int
      /\ pull[d][p].seen[TableOf[x]] \in Int
      /\ pulse[TableOf[x]] <= pulse'[TableOf[x]]
  BY <1>1, PulsesTyped
<1>3. CASE pull'[d][p] = pull[d][p]
  <2>1. pull[d][p].seen[TableOf[x]] <= pulse[TableOf[x]]
    BY <1>1, <1>3 DEF CursorsBehind, Loading
  <2>2. pulse[TableOf[x]] = pulse'[TableOf[x]]
    BY <1>2, <1>3, <2>1
  <2>3. cloudRow'[x] = cloudRow[x]
    BY <1>2, <2>2, CloudMoves
  <2> QED
    BY <1>3, <2>2, <2>3 DEF ReadsCurrent, Loading
<1>4. ASSUME NEW t \in pull[d][p].left, Loaded(d, p, t)
      PROVE  pull'[d][p].rows[x] = cloudRow'[x]
  <2>1. pull'[d][p].rows[x] = IF TableOf[x] = t THEN cloudRow[x] ELSE pull[d][p].rows[x]
    BY <1>4 DEF Loaded, WithTable, Primary
  <2>2. TableOf[x] # t => TableOf[x] \in pull[d][p].wanted \ pull[d][p].left
    BY <1>4 DEF Loaded
  <2>3. Loading(d, p)
    BY <1>4 DEF Loaded, Loading
  <2> QED
    BY <1>4, <2>1, <2>2, <2>3 DEF Loaded, ReadsCurrent
<1>5. CASE Completed(d, p)
  BY <1>5 DEF Completed, ReadsCurrent, Loading
<1>6. CASE Probed(d, p)
  BY <1>6 DEF Probed
<1> QED
  BY <1>3, <1>4, <1>5, <1>6, PullMoves DEF Loading

\* A snapshot is applied when every table was read.
LEMMA ReadStaysAll ==
  ASSUME TypeInv, LaggingReads = FALSE, AllRead, [Next]_vars
  PROVE  AllRead'
<1> SUFFICES ASSUME NEW d \in Device, NEW p \in Puller, pull'[d][p].pc = "apply"
             PROVE  pull'[d][p].left = {}
  BY DEF AllRead
<1>1. CASE pull'[d][p] = pull[d][p]
  BY <1>1 DEF AllRead
<1>2. CASE Completed(d, p)
  BY <1>2 DEF Completed
<1>3. CASE Probed(d, p) \/ \E t \in pull[d][p].left : Loaded(d, p, t)
  BY <1>3 DEF Probed, Loaded
<1> QED
  BY <1>1, <1>2, <1>3, PullMoves

\* A row with a cleared change stays one.
LEMMA ClearedStays ==
  ASSUME TypeInv, HistoryIssued, [Next]_vars, NEW d, NEW x, WasCleared(d, x)
  PROVE  WasCleared(d, x)'
BY ClearedGrows, StepKeepsEntries DEF TypeInv, HistoryIssued, WasCleared, EntriesKept

\* How a change of a row stops waiting.
LEMMA UnsentEnds ==
  ASSUME TypeInv, ResultsOwned, HistoryIssued, [Next]_vars, NEW d \in Device, NEW x \in Entity,
         HasUnsent(d, x), ~HasUnsent(d, x)'
  PROVE  \/ WasCleared(d, x)'
         \/ /\ ApplyResults(d)
            /\ \E e \in cycle[d].applied :
                 events[e].ent = x /\ events[e].status # "discarded"
         \/ \E S : /\ Discard(d, S) /\ S \subseteq Outbox(d)
                   /\ \E e \in S : events[e].ent = x
<1> USE DEF TypeInv
<1>1. PICK e \in Issued : /\ events[e].dev = d
                          /\ events[e].ent = x
                          /\ events[e].status \notin {"synced", "discarded"}
  BY DEF HasUnsent
<1>2. /\ e \in Issued' /\ events'[e].dev = d /\ events'[e].ent = x
      /\ events[e] \in EventRec
  <2>1. Issued \subseteq Issued'
    BY StepKeepsEntries DEF EntriesKept, Issued, TypeOK
  <2> QED
    BY <1>1, <2>1, StepKeepsEntries, EventTyped DEF EntriesKept
<1>3. events'[e].status \in {"synced", "discarded"}
  BY <1>2 DEF HasUnsent
<1>4. ASSUME UNCHANGED events PROVE FALSE
  BY <1>1, <1>3, <1>4
<1>5. ASSUME NEW f \in Device, NEW y \in Entity, LocalWrite(f, y) PROVE FALSE
  BY <1>1, <1>3, <1>5 DEF LocalWrite, Issued, TypeOK
<1>6. ASSUME NEW g \in Issued, BackoffElapses(g) PROVE FALSE
  BY <1>1, <1>3, <1>6, EventTyped DEF BackoffElapses, Issued, EventRec
<1>7. ASSUME NEW f \in Device, SessionSuperseded(f) PROVE FALSE
  BY <1>1, <1>2, <1>3, <1>7 DEF SessionSuperseded, EventRec
<1>8. ASSUME NEW S, MarkFailed(S) PROVE FALSE
  BY <1>1, <1>2, <1>3, <1>8 DEF MarkFailed, Failed, EventRec
<1>9. ASSUME NEW f \in Device, ApplyResults(f)
      PROVE  f = d /\ e \in cycle[d].applied
  <2>1. events'[e] = Resulting(f, e)
    BY <1>1, <1>9 DEF ApplyResults
  <2>2. e \in cycle[f].applied
    BY <1>1, <1>2, <1>3, <2>1 DEF Resulting, EventRec
  <2>3. events[e].dev = f
    BY <2>2 DEF ResultsOwned, BatchOwned
  <2> QED
    BY <1>1, <2>2, <2>3
<1>10. ASSUME NEW S, Update(S, Resent) \/ Update(S, Insisted) \/ Update(S, Released)
       PROVE  FALSE
  <2>1. events'[e] \in {events[e], Resent(events[e]), Insisted(events[e]), Released(events[e])}
    BY <1>1, <1>10 DEF Update
  <2>2. /\ Resent(events[e]).status = "pending"
        /\ Insisted(events[e]).status = "pending"
        /\ Released(events[e]).status \in {"pending", events[e].status}
    BY <1>2 DEF Resent, Insisted, Released, EventRec
  <2> QED
    BY <1>1, <1>3, <2>1, <2>2
<1>11. ASSUME NEW f \in Device, ClearFailed(f) PROVE WasCleared(d, x)'
  <2>1. PICK S : Update(S, Retired) /\ cleared' = cleared \cup S
    BY <1>11 DEF ClearFailed
  <2>2. e \in S
    BY <1>1, <1>3, <2>1 DEF Update
  <2> QED
    BY <1>2, <2>1, <2>2 DEF WasCleared
<1>12. ASSUME NEW f \in Device, NEW S, Discard(f, S), S \subseteq Outbox(f)
       PROVE  f = d /\ e \in S
  <2>1. e \in S
    BY <1>1, <1>3, <1>12 DEF Discard, Update
  <2> QED
    BY <1>1, <1>12, <2>1 DEF Outbox
<1>13. ASSUME NEW f \in Device, OperatorStep(f)
       PROVE  \/ WasCleared(d, x)'
              \/ \E S : Discard(f, S) /\ S \subseteq Outbox(f)
  <2>1. CASE ResolveConflicts(f)
    BY <2>1 DEF ResolveConflicts, Chosen, OpenConflicts
  <2>2. CASE DiscardQuarantine(f)
    BY <2>2 DEF DiscardQuarantine, Quarantined
  <2> QED
    BY <1>10, <1>11, <1>13, <2>1, <2>2
       DEF OperatorStep, RetryFailed, ResolveConflictsLocal, ReleaseQuarantine
<1> QED
  BY <1>1, <1>4, <1>5, <1>6, <1>7, <1>8, <1>9, <1>12, <1>13, EntryChanges
     DEF BatchFails, RevisionUnknown

\* A row with a discarded change keeps no trace, unless others still wait.
LEMMA DiscardForgets ==
  ASSUME TypeOK, NEW d \in Device, NEW S, S \subseteq Outbox(d), Discard(d, S),
         NEW x \in Entity, NEW e \in S, events[e].ent = x, ~HasUnsent(d, x)'
  PROVE  trace'[d][x] = NoTrace
<1> DEFINE C == {f \in S : events[f].ent = x}
<1>2. IsFiniteSet(Issued) /\ C \subseteq Issued
  <2>1. Len(events) \in Nat
    BY DEF TypeOK
  <2>2. IsFiniteSet(Issued)
    BY <2>1, FS_Interval, 1 \in Int DEF Issued
  <2> QED
    BY <2>2 DEF Outbox
<1>3. Cardinality(C) \in Nat /\ Cardinality(C) # 0
  BY <1>2, FS_Subset, FS_CardinalityType, FS_EmptySet
<1>4. ASSUME NEW f \in Outbox(d) \ S, events[f].ent = x, events[f].status \in Unsent
      PROVE  FALSE
  <2>1. f \in Issued /\ events[f].dev = d
    BY DEF Outbox
  <2>2. f \in Issued' /\ events'[f] = events[f]
    <3>1. Len(events') = Len(events)
      BY UpdateKept DEF Discard
    <3> QED
      BY <2>1, <3>1 DEF Discard, Update, Issued
  <2> QED
    BY <1>4, <2>1, <2>2 DEF HasUnsent, Unsent
<1>5. trace'[d] = [y \in Entity |->
        IF /\ Cardinality({f \in S : events[f].ent = y}) > 0
           /\ ~\E f \in Outbox(d) \ S : events[f].ent = y /\ events[f].status \in Unsent
        THEN NoTrace ELSE trace[d][y]]
  BY DEF Discard, ForgetRows, TypeOK
<1>6. ~\E f \in Outbox(d) \ S : events[f].ent = x /\ events[f].status \in Unsent
  BY <1>4
<1>7. Cardinality({f \in S : events[f].ent = x}) > 0
  BY <1>3
<1> QED
  BY <1>5, <1>6, <1>7

\* A row keeps what it settled on, or settles anew by the pull that writes it.
LEMMA SettledBefore ==
  ASSUME TypeInv, ResultsOwned, HistoryIssued, [Next]_vars,
         NEW d \in Device, NEW x \in Entity, Settled(d, x)'
  PROVE  ~HasUnsent(d, x) /\ ~WasCleared(d, x)
<1> USE DEF TypeInv
<1>1. ~WasCleared(d, x)
  BY ClearedStays DEF Settled
<1>2. trace'[d][x] \in Int /\ NoTrace \notin Int /\ PushTrace \notin Int
  BY TraceAssumption DEF Settled
<1>3. ASSUME ApplyResults(d), NEW e \in cycle[d].applied, events[e].ent = x,
             events[e].status # "discarded"
      PROVE  FALSE
  <2>1. trace'[d][x] = PushTrace
    BY <1>3 DEF ApplyResults, TypeOK
  <2> QED
    BY <1>2, <2>1
<1>4. ASSUME NEW S, Discard(d, S), S \subseteq Outbox(d), NEW e \in S, events[e].ent = x
      PROVE  FALSE
  BY <1>2, <1>4, DiscardForgets DEF Settled
<1> QED
  BY <1>1, <1>3, <1>4, UnsentEnds DEF Settled

\* A settled row that nothing touches stays current: a change in the cloud
\* raises the pulse above the cursor.
LEMMA TraceKept ==
  ASSUME TypeInv, PullInv, [Next]_vars, NEW d \in Device, NEW x \in Entity,
         Settled(d, x), localRow'[d][x] = localRow[d][x], trace'[d][x] = trace[d][x],
         cursor'[d][TableOf[x]] = cursor[d][TableOf[x]]
  PROVE  /\ localRow'[d][x] = trace'[d][x]
         /\ cursor'[d][TableOf[x]] = pulse'[TableOf[x]] => trace'[d][x] = cloudRow'[x]
<1> USE DEF TypeInv
<1>1. TableOf[x] \in Table
  BY TableAssumption
<1>2. /\ pulse[TableOf[x]] \in Int /\ pulse'[TableOf[x]] \in Int
      /\ cursor[d][TableOf[x]] \in Int
      /\ cursor[d][TableOf[x]] <= pulse[TableOf[x]]
      /\ pulse[TableOf[x]] <= pulse'[TableOf[x]]
  BY <1>1, PulsesTyped DEF TypeOK, PullInv, CursorsBehind, Puller
<1>3. cursor'[d][TableOf[x]] = pulse'[TableOf[x]] =>
        cursor[d][TableOf[x]] = pulse[TableOf[x]] /\ cloudRow'[x] = cloudRow[x]
  BY <1>2, CloudMoves
<1> QED
  BY <1>3 DEF PullInv, TraceCurrent

\* Applying a snapshot leaves its settled rows current.
LEMMA TraceApplied ==
  ASSUME TypeInv, PullInv, [Next]_vars, NEW d \in Device, NEW p \in Puller,
         ApplySnapshot(d, p), NEW x \in Entity, Settled(d, x)'
  PROVE  /\ localRow'[d][x] = trace'[d][x]
         /\ cursor'[d][TableOf[x]] = pulse'[TableOf[x]] => trace'[d][x] = cloudRow'[x]
<1> USE DEF TypeInv
<1> DEFINE rows == pull[d][p].rows
           got  == TableOf[x] \in pull[d][p].wanted
<1>1. TableOf[x] \in Table
  BY TableAssumption
<1>2. ~HasUnsent(d, x) /\ ~WasCleared(d, x) /\ ~Guarded(d, x)
  BY SettledBefore, UnsentIsGuarded DEF PullInv
<1>3. UNCHANGED <<cloudRow, pulse>>
  BY DEF ApplySnapshot, cloudVars
<1>4. cursor'[d][TableOf[x]] = IF got THEN pull[d][p].seen[TableOf[x]]
                               ELSE cursor[d][TableOf[x]]
  BY <1>1 DEF ApplySnapshot, NewCursor, TypeOK
<1>5. localRow'[d][x] = IF got /\ (Upserts(d, rows, x) \/ Deletes(d, rows, x))
                        THEN rows[x] ELSE localRow[d][x]
  BY DEF ApplySnapshot, TypeOK
<1>6. trace'[d][x] = IF got /\ Upserts(d, rows, x) THEN rows[x]
                     ELSE IF got /\ Deletes(d, rows, x) THEN NoTrace ELSE trace[d][x]
  BY DEF ApplySnapshot, TypeOK
<1>7. trace'[d][x] \in Int /\ NoTrace \notin Int
  BY TraceAssumption DEF Settled
<1>8. got /\ pull[d][p].seen[TableOf[x]] = pulse[TableOf[x]] => rows[x] = cloudRow[x]
  BY DEF ApplySnapshot, PullInv, AllRead, ReadsCurrent, Loading
<1> HIDE DEF rows, got
<1>9. CASE got /\ Upserts(d, rows, x)
  BY <1>3, <1>4, <1>5, <1>6, <1>8, <1>9
<1>10. CASE got /\ ~Upserts(d, rows, x)
  <2>1. ~Deletes(d, rows, x)
    BY <1>6, <1>7, <1>10
  <2>2. localRow'[d][x] = localRow[d][x] /\ trace'[d][x] = trace[d][x]
    BY <1>5, <1>6, <1>10, <2>1
  <2>3. /\ Settled(d, x)
        /\ localRow[d][x] = trace[d][x]
        /\ trace[d][x] # NoRow
    BY <1>2, <1>7, <2>2 DEF PullInv, TraceCurrent, Settled
  <2>4. rows[x] # NoRow
    BY <1>2, <1>7, <2>1, <2>2, <2>3 DEF Deletes
  <2>5. trace[d][x] = rows[x]
    BY <1>2, <1>10, <2>4 DEF Upserts
  <2> QED
    BY <1>3, <1>4, <1>8, <1>10, <2>2, <2>3, <2>5
<1>11. CASE ~got
  <2>1. /\ localRow'[d][x] = localRow[d][x] /\ trace'[d][x] = trace[d][x]
        /\ cursor'[d][TableOf[x]] = cursor[d][TableOf[x]]
    BY <1>4, <1>5, <1>6, <1>11
  <2>2. Settled(d, x)
    BY <1>2, <1>7, <2>1 DEF Settled
  <2> QED
    BY <2>1, <2>2, TraceKept
<1> QED
  BY <1>9, <1>10, <1>11

\* Every step leaves the settled rows current.
LEMMA TraceStaysCurrent ==
  ASSUME TypeInv, PullInv, [Next]_vars
  PROVE  TraceCurrent'
<1> USE DEF TypeInv
<1> DEFINE Current(d, x) ==
      /\ localRow'[d][x] = trace'[d][x]
      /\ cursor'[d][TableOf[x]] = pulse'[TableOf[x]] => trace'[d][x] = cloudRow'[x]
<1>1. NoTrace # NoRow /\ PushTrace # NoRow /\ NoTrace \notin Int /\ PushTrace \notin Int
  BY TraceAssumption DEF NoRow
<1>2. ASSUME NEW d \in Device, NEW x \in Entity PROVE trace'[d][x] # NoRow
  <2>1. trace[d][x] # NoRow
    BY DEF PullInv, TraceCurrent
  <2>2. ASSUME NEW f \in Device, NEW p \in Puller, ApplySnapshot(f, p)
        PROVE  trace'[d][x] # NoRow
    BY <1>1, <2>1, <2>2 DEF ApplySnapshot, Upserts, TypeOK
  <2>3. ASSUME NEW f \in Device, ApplyResults(f) PROVE trace'[d][x] # NoRow
    BY <1>1, <2>1, <2>3 DEF ApplyResults, TypeOK
  <2>4. ASSUME NEW f \in Device, NEW S, Discard(f, S) PROVE trace'[d][x] # NoRow
    BY <1>1, <2>1, <2>4 DEF Discard, ForgetRows, TypeOK
  <2> QED
    BY <2>1, <2>2, <2>3, <2>4, TraceWriters DEF LocalWrite
<1>3. ASSUME NEW d \in Device, NEW x \in Entity, Settled(d, x)' PROVE Current(d, x)
  <2>1. ~HasUnsent(d, x) /\ ~WasCleared(d, x)
    BY <1>3, SettledBefore DEF PullInv
  <2>2. ASSUME /\ localRow'[d][x] = localRow[d][x]
               /\ trace'[d][x] = trace[d][x]
               /\ cursor'[d][TableOf[x]] = cursor[d][TableOf[x]]
        PROVE  Current(d, x)
    <3>1. Settled(d, x)
      BY <1>3, <2>1, <2>2 DEF Settled
    <3> QED
      BY <2>2, <3>1, TraceKept
  <2>3. ASSUME NEW p \in Puller, ApplySnapshot(d, p) PROVE Current(d, x)
    BY <1>3, <2>3, TraceApplied
  <2>4. ASSUME NEW f \in Device \ {d}, NEW p \in Puller, ApplySnapshot(f, p)
        PROVE  Current(d, x)
    BY <2>2, <2>4 DEF ApplySnapshot, TypeOK
  <2>5. ASSUME NEW f \in Device, ApplyResults(f) PROVE Current(d, x)
    <3>1. trace'[d][x] \in {trace[d][x], PushTrace} /\ UNCHANGED <<localRow, cursor>>
      BY <2>5 DEF ApplyResults, TypeOK
    <3>2. trace'[d][x] \in Int
      BY <1>3 DEF Settled
    <3> QED
      BY <1>1, <2>2, <3>1, <3>2
  <2>6. ASSUME NEW f \in Device, NEW S, Discard(f, S), S \subseteq Outbox(f)
        PROVE  Current(d, x)
    <3>1. trace'[d][x] \in Int /\ ~HasUnsent(d, x)'
      BY <1>3 DEF Settled
    <3>2. UNCHANGED cursor
      BY <2>6 DEF Discard
    <3>3. CASE f # d
      BY <2>2, <2>6, <3>2, <3>3 DEF Discard, ForgetRows, TypeOK
    <3>4. CASE f = d
      <4>1. \/ trace'[d][x] = NoTrace
            \/ trace'[d][x] = trace[d][x] /\ localRow'[d][x] = localRow[d][x]
        BY <2>6, <3>4 DEF Discard, ForgetRows, TypeOK
      <4> QED
        BY <1>1, <2>2, <3>1, <3>2, <4>1
    <3> QED
      BY <3>3, <3>4
  <2>7. ASSUME NEW f \in Device, NEW y \in Entity, LocalWrite(f, y) PROVE Current(d, x)
    <3>1. UNCHANGED <<trace, cursor>>
      BY <2>7 DEF LocalWrite
    <3>2. localRow'[d][x] = localRow[d][x] \/ (f = d /\ y = x)
      BY <2>7 DEF LocalWrite, TypeOK
    <3>3. CASE f = d /\ y = x
      <4> DEFINE r == [dev |-> f, ent |-> y, status |-> "pending", due |-> FALSE,
                       quarantined |-> FALSE, conflict |-> "none"]
      <4>1. events' = Append(events, r)
        BY <2>7 DEF LocalWrite
      <4>2. r.dev = d /\ r.ent = x /\ r.status = "pending"
        BY <3>3
      <4> HIDE DEF r
      <4>3. /\ Len(events) \in Nat /\ Len(events') = Len(events) + 1
            /\ events'[Len(events) + 1] = r
        BY <4>1 DEF TypeOK
      <4>4. HasUnsent(d, x)'
        BY <4>2, <4>3 DEF HasUnsent, Issued
      <4> QED
        BY <1>3, <4>4 DEF Settled
    <3> QED
      BY <2>2, <3>1, <3>2, <3>3
  <2> QED
    BY <2>2, <2>3, <2>4, <2>5, <2>6, <2>7, TraceWriters
<1> QED
  BY <1>2, <1>3 DEF TraceCurrent

\* Every step keeps the inductive invariant.
LEMMA PullInvStep ==
  ASSUME LaggingReads = FALSE, TypeInv, PullInv, [Next]_vars
  PROVE  PullInv'
BY CursorsStayBehind, ReadsStayCurrent, ReadStaysAll, TraceStaysCurrent, ResultsStayOwned,
   HistoryStaysIssued DEF PullInv

\* A device whose cursor equals the pulse of a table holds the version of the
\* cloud of each settled row that a pull was the last to trace.  A replica
\* that lags behind can break it (the run SyncStale shows how).
THEOREM RowsMirrorCloud == ASSUME LaggingReads = FALSE PROVE Spec => []PulledRowMirrorsCloud
<1>1. Init => PullInv
  BY PullInvInit
<1>2. TypeInv /\ PullInv /\ [Next]_vars => PullInv'
  BY PullInvStep
<1>3. PullInv => PulledRowMirrorsCloud
  BY DEF PullInv, TraceCurrent, Settled, PulledRowMirrorsCloud
<1> QED
  BY <1>1, <1>2, <1>3, TypeInvariant, PTL DEF Spec
=============================================================================
