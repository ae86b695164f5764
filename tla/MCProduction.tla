---------------------------- MODULE MCProduction ----------------------------
(* Small instances of Production for TLC. *)
EXTENDS Production, TLC

CONSTANTS w1, p1, t1

\* A run goes on only from states in which no event has been written too late.
Unraced == ~raced

\* A second MoU, made when the first has come to nothing, is followed to its work
\* order; from there on the way is the one of the first.
Followed == Unraced /\ (Len(mou) > 1 => \A b \in DOMAIN batch : batch[b].plan = <<>> /\ po = <<>>)

EarlyPlan == <<1, 1, 1, 1>>
LatePlan == <<1, 2, 2, 2>>
TwoPlans == {EarlyPlan, LatePlan}
OnePlan == {EarlyPlan}
HalalOnly == {<<"HALAL", "ISSUED">>}
=============================================================================
