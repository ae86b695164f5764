------------------------ MODULE MCNotificationOutbox ------------------------
(***************************************************************************)
(* Instances of NotificationOutbox for TLC.                                *)
(***************************************************************************)
EXTENDS NotificationOutbox, TLC

CONSTANTS s1, s2, cs

AllCs == [r \in Row |-> cs]

OneDelay == <<1>>

\* Bound: one crash, one edit of the settings or one "retry failed".
OneFault == budget.crash + budget.edit + budget.retry <= 1

=============================================================================
