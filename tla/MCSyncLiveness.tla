--------------------------- MODULE MCSyncLiveness ---------------------------
(***************************************************************************)
(* The instance of SyncLiveness for TLC.                                   *)
(***************************************************************************)
EXTENDS SyncLiveness, TLC

CONSTANTS d1, x1, x2, t1

TwoRows == (x1 :> t1) @@ (x2 :> t1)
PhotoOfTicket == (x1 :> {}) @@ (x2 :> {x1})

\* Bound: two writes in all, whoever writes them.
TwoWrites == Len(events) + webWrites <= 2

\* Bound: a settings command's pull overlaps with one write at most.
OneBeside ==
  \A d \in Device : pull[d]["direct"].pc # "idle" => Len(events) + webWrites <= 1

=============================================================================
