---------------------------- MODULE SyncLiveness ----------------------------
(***************************************************************************)
(* What the sync timer achieves in SyncEngine when failures do not go on   *)
(* forever, nor an operator who sends a refused event again: a behaviour   *)
(* meets at most MaxFaults such disturbances, at any place.  (A refused    *)
(* event sent again and again would starve the later ones, as the oldest   *)
(* eligible events come first.)                                            *)
(***************************************************************************)
EXTENDS SyncEngine

CONSTANT MaxFaults   \* bound: failures and events sent again by hand

ASSUME FaultAssumption == MaxFaults \in Nat

VARIABLE faults

Fault(d) ==
  \/ SessionUnknown(d) \/ SchemaRefused(d) \/ BatchFails(d)
  \/ PushLost(d) \/ PushDelayed(d) \/ RevisionUnknown(d) \/ Crash(d)
  \/ \E p \in Puller : PullFails(d, p)
  \/ RetryFailed(d) \/ ResolveConflictsLocal(d)

\* The steps of a cycle that meets no failure; a refusal is an answer.
GoodCycleStep(d) ==
  \/ StartCycle(d) \/ SessionValid(d) \/ TakeBatch(d) \/ EndPush(d)
  \/ Prefetch(d) \/ AckKnown(d) \/ PushApplied(d) \/ PushRefused(d)
  \/ ApplyResults(d)

GoodPullStep(d, p) ==
  \/ ReadPulse(d, p) \/ ReadTable(d, p) \/ ReadRevision(d, p)
  \/ ApplySnapshot(d, p) \/ RefuseStale(d, p)

Calm ==
  \/ Replicate
  \/ \E x \in Entity : WebWrite(x) \/ WebDelete(x)
  \/ \E e \in Issued : LateCommit(e) \/ LateDrop(e) \/ BackoffElapses(e)
  \/ \E d \in Device : \/ \E x \in Entity : LocalWrite(d, x)
                       \/ GoodCycleStep(d)
                       \/ SessionSuperseded(d)
                       \/ StartDirectPull(d)
                       \/ \E p \in Puller : GoodPullStep(d, p)
                       \/ ClearFailed(d) \/ ResolveConflicts(d)
                       \/ ReleaseQuarantine(d) \/ DiscardQuarantine(d)

LiveNext ==
  \/ Calm /\ UNCHANGED faults
  \/ /\ faults < MaxFaults
     /\ faults' = faults + 1
     /\ \E d \in Device : Fault(d)

\* The timer starts cycle after cycle and a request that meets no failure is
\* answered; the backoff elapses, and a replica catches up.
LiveSpec ==
  /\ Init /\ faults = 0
  /\ [][LiveNext]_<<vars, faults>>
  /\ WF_vars(Replicate)
  /\ \A e \in 1 .. MaxEvents : WF_vars(e \in Issued /\ BackoffElapses(e))
  /\ \A d \in Device : /\ WF_vars(GoodCycleStep(d))
                       /\ \A p \in Puller : WF_vars(GoodPullStep(d, p))

Waiting(e) == /\ e \in Issued
              /\ ~events[e].quarantined
              /\ events[e].status \in {"pending", "failed"}

\* An event in the outbox that is not quarantined is settled: applied, refused
\* as a conflict, or retired by the operator; no backoff or batch limit
\* strands it.
EventSettles == \A e \in 1 .. MaxEvents : Waiting(e) ~> ~Waiting(e)

\* When the writers rest, every device catches up with the pulse of every
\* table and stays there.
DeviceCatchesUp ==
  <>[](\A d \in Device, t \in Table : cursor[d][t] = pulse[t])
=============================================================================
