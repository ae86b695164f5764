-------------------------- MODULE MCSampleRequest --------------------------
(* Small instances of SampleRequest for TLC. *)
EXTENDS SampleRequest, TLC

CONSTANTS w1, p1

Plain == [is_paid_sample |-> FALSE, is_dummy_required |-> FALSE, is_test_requested |-> FALSE]
DummyPaidFor == {[Plain EXCEPT !.is_paid_sample = TRUE, !.is_dummy_required = TRUE]}

\* A run goes on only from states in which no event has been written too late.
Unraced == ~raced

\* ... and in which no MoU is beside two links: no link is for an MoU where this is used.
Apart == Len(link) < 2 \/ mou = <<>>
=============================================================================
