--------------------------- MODULE MCPasswordReset ---------------------------
(***************************************************************************)
(* PasswordReset for TLC: one account, two tabs, two requests, and two     *)
(* sheets of recovery codes.                                               *)
(***************************************************************************)
EXTENDS PasswordReset, TLC

SameTabs == Permutations(Tabs)

\* The first request is followed to its end; the second is opened beside it
\* and cancels it, but its challenge is not taken, and it does not expire.  A
\* replaced challenge is followed while there is no second request.  A run
\* goes on until the password was changed twice.
FirstFollowed ==
    /\ request[2] \in {NoRow, [NoRow EXCEPT !.status = "Pending Verification"]}
    /\ request[1].swaps = 0 \/ request[2] = NoRow
    /\ \A o \in Operators : account[o].password <= 3
==============================================================================
