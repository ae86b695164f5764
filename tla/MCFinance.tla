----------------------------- MODULE MCFinance -----------------------------
(* Small instances of Finance for TLC. *)
EXTENDS Finance, TLC

CONSTANTS w1, w2, p1, p2, t1, c1, c2

OfFirstClient == [t \in Ticket |-> c1]

Option(bp, on) == [rate_bp |-> bp, installment_count |-> 2, is_active |-> on]
Packed(packed) == [t \in Ticket |->
  [is_paid_sample |-> TRUE, is_test_requested |-> TRUE, revision_fee |-> 1, revision_index |-> 1,
   dummy_round |-> 1, mou_accepted |-> TRUE, batch_packed |-> packed, storage_fee |-> 0]]
InProduction == Packed(FALSE)
HalfOff == [DISCOUNT |-> Option(5000, TRUE), TAX |-> Option(1100, TRUE),
            INSTALLMENT_PLAN |-> Option(5000, TRUE)]
PlanEdits == {Option(5000, TRUE), Option(0, FALSE)}
=============================================================================
