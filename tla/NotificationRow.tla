-------------------------- MODULE NotificationRow ---------------------------
(***************************************************************************)
(* What the notification outbox promises about a row, whoever sends it: a  *)
(* row is born waiting or skipped, a waiting row gets one verdict, and     *)
(* only a failed row is put back in the queue, by the operator.  A row     *)
(* that was sent or skipped never changes again.                           *)
(***************************************************************************)
CONSTANT Row

VARIABLE status

Status == {"NONE", "PENDING", "SENT", "SKIPPED", "FAILED"}

Init == status = [r \in Row |-> "NONE"]

Birth(r, verdict) ==
  /\ status[r] = "NONE"
  /\ verdict \in {"PENDING", "SKIPPED"}
  /\ status' = [status EXCEPT ![r] = verdict]

Settle(r, verdict) ==
  /\ status[r] = "PENDING"
  /\ verdict \in {"SENT", "SKIPPED", "FAILED"}
  /\ status' = [status EXCEPT ![r] = verdict]

Reopen ==
  status' = [r \in Row |-> IF status[r] = "FAILED" THEN "PENDING" ELSE status[r]]

Next ==
  \/ \E r \in Row, verdict \in Status : Birth(r, verdict) \/ Settle(r, verdict)
  \/ Reopen

Spec == Init /\ [][Next]_status

=============================================================================
