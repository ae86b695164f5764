---------------------------- MODULE MCSyncEngine ----------------------------
(***************************************************************************)
(* Instances of SyncEngine for TLC.                                        *)
(***************************************************************************)
EXTENDS SyncEngine, TLC

CONSTANTS d1, d2, x1, x2, t1, t2

OneRow == [x \in {x1} |-> t1]

TwoTables == (x1 :> t1) @@ (x2 :> t2)

Writes == Len(events) + webWrites

\* Bound: two writes in all; a settings command applies its rows beside a cycle
\* only when that is a mere pull, and with one write at most.
TwoWrites ==
  /\ Writes <= 2
  /\ \A d \in Device : \/ pull[d]["direct"].pc = "idle"
                       \/ cycle[d].pc = "idle"
                       \/ /\ pull[d]["direct"].pc = "apply"
                          /\ cycle[d].pc \in {"session", "pull"}
                          /\ Writes <= 1

NoParents == [x \in Entity |-> {}]

=============================================================================
