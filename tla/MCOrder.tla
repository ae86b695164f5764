------------------------------ MODULE MCOrder ------------------------------
(* Small instances of Order for TLC. *)
EXTENDS Order, TLC

CONSTANTS w1, k1, t1, c1

OfClient == [t \in Ticket |-> c1]
NothingElse == [t \in Ticket |->
  [is_paid_sample |-> FALSE, is_test_requested |-> FALSE, revision_fee |-> 0, revision_index |-> 0,
   dummy_round |-> None, mou_accepted |-> FALSE, batch_packed |-> FALSE, storage_fee |-> 0]]
TwoParts == [kind \in {"DISCOUNT", "TAX", "INSTALLMENT_PLAN"} |->
              [rate_bp |-> 0, installment_count |-> 2, is_active |-> TRUE]]
NoEdit == {TwoParts["TAX"]}
OnePlan == {<<1, 1, 1, 1>>}
HalalOnly == {<<"HALAL", "ISSUED">>}
=============================================================================
