----------------------------- MODULE MCClients -----------------------------
(* Small instances of Clients for TLC. *)
EXTENDS Clients, TLC

CONSTANTS p1, p2, crm1

FirstTags == <<"01", "02", "03">>
\* A file with a code of its own, without one, and the first code once more.
OneFile == {<< <<"s1", 0>>, None, <<"s1", 0>> >>}

Desks == Permutations(Device)
\* The contacts of one lead, and the codes and lifecycles of two clients without
\* contacts; of the second client, and once the web has another tag, only the codes
\* matter.
Contacted == contact # <<>> \/ \E d \in Device : \E k \in DOMAIN outbox[d] : outbox[d][k].op = "contact"
OneFollowed ==
  /\ \A i \in DOMAIN client : client[i].created = 1 /\ (i > 1 \/ Contacted \/ webTag # FirstWebTag => client[i].lifecycle = "LEAD" /\ client[i].crm = None)
  /\ Contacted => Cardinality(Known) = 1 /\ webTag = FirstWebTag
  /\ \A d \in Device : \A k \in DOMAIN outbox[d] : outbox[d][k].op # "register" => outbox[d][k].id = 1 /\ webTag = FirstWebTag
=============================================================================
