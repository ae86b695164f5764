------------------------------ MODULE MCAccess ------------------------------
(***************************************************************************)
(* Access for TLC: two superadmins and one other account, two tabs, one    *)
(* role to create beside the system's two.                                 *)
(***************************************************************************)
EXTENDS Access, TLC

Alike == Permutations(Tabs) \cup Permutations(Superadmins)

\* How much is not as it was at the start: accounts, roles, saved permissions, enrolments.
Changes ==
    Cardinality({o \in Operators : operator[o].status # IF o \in Superadmins THEN "Active" ELSE "None"})
    + Cardinality({o \in Operators : operator[o].status = "Active" /\ o \in Superadmins
                                       /\ operator[o].role # Super})
    + Cardinality({r \in Roles : role[r].totp \/ role[r].status #
                                   IF r \in {Super, StaffRole} THEN "Active" ELSE "None"})
    + (IF revision > 1 THEN 1 ELSE 0)
    + Cardinality({o \in Operators : totp[o].issued > 0})

\* A run goes on while one thing has changed at most, through edits that
\* change something, and while at most one handler has died.
OneChange ==
    /\ Changes <= 1 /\ Cardinality(cut) <= 1
    /\ \A t \in Tabs :
          /\ At(t, "edit") => job[t].row # operator[job[t].operator]
          /\ At(t, "role") => LET r == role[job[t].role]
                             IN  job[t].status # r.status \/ job[t].totp # r.totp
==============================================================================
