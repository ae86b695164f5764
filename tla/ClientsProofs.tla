--------------------------- MODULE ClientsProofs ---------------------------
(* Proofs about Clients, for every number of devices, clients and contacts. *)
EXTENDS Clients, SequenceTheorems, FiniteSetTheorems, WellFoundedInduction, TLAPS

---------------------------------------------------------------------------
(* Least and greatest numbers *)

LEMMA Least ==
  ASSUME NEW S, S \subseteq Nat, S # {}
  PROVE  \E m \in S : \A n \in S : m <= n
<1>1. \E m \in S : \A n \in S : ~ (<<n, m>> \in OpToRel(<, Nat))
  BY NatLessThanWellFounded, WFMin
<1>2. PICK m \in S : \A n \in S : ~ (<<n, m>> \in OpToRel(<, Nat))
  BY <1>1
<1>3. ASSUME NEW n \in S, n < m
      PROVE  FALSE
  <2>1. <<n, m>> \in OpToRel(<, Nat)
    BY <1>3 DEF OpToRel
  <2> QED BY <2>1, <1>2
<1>4. \A n \in S : m <= n
  BY <1>3
<1> QED BY <1>4

LEMMA Greatest ==
  ASSUME NEW S, NEW top \in Nat, S \subseteq 0 .. top, S # {}
  PROVE  \E m \in S : \A n \in S : n <= m
<1> DEFINE B == {u \in 0 .. top : \A n \in S : n <= u}
<1>1. B \subseteq Nat /\ top \in B
  OBVIOUS
<1>2. PICK m \in B : \A u \in B : m <= u
  BY <1>1, Least
<1>3. m \in S
  <2> SUFFICES ASSUME m \notin S
               PROVE  FALSE
    OBVIOUS
  <2>1. \A n \in S : n < m
    OBVIOUS
  <2>2. PICK n \in S : n < m /\ n \in 0 .. top
    BY <2>1
  <2>3. m - 1 \in 0 .. top /\ \A k \in S : k <= m - 1
    BY <2>1, <2>2
  <2> QED BY <2>3, <1>2
<1> QED BY <1>3

\* A number for the next code is above those in use.
LEMMA NextIs ==
  ASSUME NEW codes, codes \subseteq ClientCodes, NEW tag, tag \in Tags \cup WebTags
  PROVE  /\ NextSequence(codes, tag) \in 1 .. MaxNumber + 1
         /\ \A c \in codes : c[1] = tag => c[2] < NextSequence(codes, tag)
<1> DEFINE used == {0} \cup {c[2] : c \in {k \in codes : k[1] = tag}}
           Next1(n) == n - 1 \in used /\ \A u \in used : u < n
<1>0. MaxNumber \in Nat
  BY ClientsAssumption
<1>1. \A c \in ClientCodes : c[2] \in 0 .. MaxNumber
  <2>1. \A c \in SheetCodes : c[2] = 0
    BY DEF SheetCodes
  <2>2. \A c \in (Tags \cup WebTags) \X (1 .. MaxNumber) : c[2] \in 1 .. MaxNumber
    OBVIOUS
  <2> QED BY <2>1, <2>2, <1>0 DEF ClientCodes
<1>2. used \subseteq 0 .. MaxNumber /\ 0 \in used
  BY <1>1, <1>0
<1>3. PICK m \in used : \A u \in used : u <= m
  BY <1>2, <1>0, Greatest
<1>4. m + 1 \in 1 .. MaxNumber + 1 /\ Next1(m + 1)
  <2>1. m \in 0 .. MaxNumber
    BY <1>2, <1>3
  <2>2. \A u \in used : u \in Nat /\ u <= m
    BY <1>2, <1>3
  <2>3. (m + 1) - 1 = m
    BY <2>1
  <2> HIDE DEF used
  <2>4. m + 1 \in 1 .. MaxNumber + 1
    BY <2>1, <1>0
  <2>5. \A u \in used : u < m + 1
    BY <2>2, <2>1
  <2> QED BY <2>3, <2>4, <2>5, <1>3
<1>5. NextSequence(codes, tag) = CHOOSE n \in 1 .. MaxNumber + 1 : Next1(n)
  BY DEF NextSequence
<1> HIDE DEF Next1
<1>6. NextSequence(codes, tag) \in 1 .. MaxNumber + 1 /\ Next1(NextSequence(codes, tag))
  BY <1>4, <1>5
<1>7. \A c \in codes : c[1] = tag => c[2] \in used
  OBVIOUS
<1> QED BY <1>6, <1>7 DEF Next1

LEMMA LastIs ==
  ASSUME Known \subseteq Ids
  PROVE  LastId \in 0 .. MaxClients /\ \A i \in Known : i <= LastId
<1> DEFINE Last(m) == m \in Known \cup {0} /\ \A i \in Known : i <= m
<1>0. MaxClients \in Nat
  BY ClientsAssumption
<1>1. Known \cup {0} \subseteq 0 .. MaxClients
  BY <1>0 DEF Ids
<1>2. PICK m \in Known \cup {0} : \A i \in Known \cup {0} : i <= m
  BY <1>0, <1>1, Greatest
<1>3. m \in 0 .. MaxClients /\ Last(m)
  BY <1>1, <1>2
<1>4. LastId = CHOOSE n \in 0 .. MaxClients : Last(n)
  BY DEF LastId
<1> HIDE DEF Last
<1>5. LastId \in 0 .. MaxClients /\ Last(LastId)
  BY <1>3, <1>4
<1> QED BY <1>5 DEF Last

LEMMA FreshId ==
  ASSUME Known \subseteq Ids, NEW n \in Nat, n > 0
  PROVE  LastId + n \notin Known /\ LastId + n \in Nat
<1>1. LastId \in Nat /\ \A i \in Known : i <= LastId
  BY LastIs, ClientsAssumption
<1> QED BY <1>1

\* A tag that a device is given is one that no device has.
LEMMA FreeTagIs ==
  ASSUME NEW d
  PROVE  FreeTag(d) = None \/ (FreeTag(d) \in Tags /\ \A e \in Device : registry[e] # FreeTag(d))
<1> DEFINE taken == Cardinality({e \in Device : registry[e] # None})
           free == {k \in DOMAIN TagOrder : /\ k > taken /\ TagOrder[k] # seenTag[d]
                                            /\ \A e \in Device : registry[e] # TagOrder[k]}
<1>1. free \subseteq Nat /\ free \subseteq DOMAIN TagOrder
  BY ClientsAssumption
<1>2. FreeTag(d) = IF free = {} THEN None ELSE TagOrder[CHOOSE k \in free : \A l \in free : k <= l]
  BY DEF FreeTag
<1>3. \A k \in free : \A e \in Device : registry[e] # TagOrder[k]
  OBVIOUS
<1> HIDE DEF free
<1>4. ASSUME free # {}
      PROVE  (CHOOSE k \in free : \A l \in free : k <= l) \in free
  <2>1. \E k \in free : \A l \in free : k <= l
    BY <1>1, <1>4, Least
  <2> QED BY <2>1
<1> QED BY <1>1, <1>2, <1>3, <1>4 DEF Tags

---------------------------------------------------------------------------
(* Rows *)

LEMMA TableIs ==
  ASSUME NEW rows
  PROVE  rows \in Tables <=> /\ rows = [i \in DOMAIN rows |-> rows[i]] /\ DOMAIN rows \subseteq Ids
                             /\ \A i \in DOMAIN rows : rows[i] \in Row
<1>1. ASSUME rows \in Tables
      PROVE  /\ rows = [i \in DOMAIN rows |-> rows[i]] /\ DOMAIN rows \subseteq Ids
             /\ \A i \in DOMAIN rows : rows[i] \in Row
  <2>1. PICK ids \in SUBSET Ids : rows \in [ids -> Row]
    BY <1>1 DEF Tables
  <2> QED BY <2>1
<1>2. ASSUME /\ rows = [i \in DOMAIN rows |-> rows[i]] /\ DOMAIN rows \subseteq Ids
             /\ \A i \in DOMAIN rows : rows[i] \in Row
      PROVE  rows \in Tables
  <2>1. rows \in [DOMAIN rows -> Row]
    BY <1>2
  <2> QED BY <2>1, <1>2 DEF Tables
<1> QED BY <1>1, <1>2

\* A client as a registration writes it.
Newborn(row) == /\ row.lifecycle = "LEAD" /\ row.total_followups = 0 /\ row.last_followup = 0
                /\ row.last_response = row.created

LEMMA NewRowIs ==
  ASSUME NEW code \in ClientCodes, NEW quota \in Quotas, NEW at \in Times
  PROVE  /\ NewRow(code, quota, at) \in Row /\ NewRow(code, quota, at).code = code
         /\ Newborn(NewRow(code, quota, at))
BY DEF NewRow, Row, Newborn, Lifecycles

LEMMA EventIs ==
  ASSUME NEW op, NEW id, NEW arg
  PROVE  /\ Event(op, id, arg) = [op |-> op, id |-> id, arg |-> arg]
         /\ Event(op, id, arg).op = op /\ Event(op, id, arg).id = id /\ Event(op, id, arg).arg = arg
BY DEF Event

LEMMA EventsAre ==
  ASSUME NEW e \in Events
  PROVE  /\ e.op \in {"register", "update", "assign-crm", "contact"} /\ e.id \in Ids
         /\ e.op \in {"register", "update"} => e.arg \in Row
         /\ e.op = "assign-crm" => e.arg \in Crm
         /\ e.op = "contact" => e.arg[1] \in Directions /\ e.arg[2] \in Times
BY DEF Events

\* What the forms ask for.
LEMMA RegistrationIs ==
  ASSUME NEW rows \in Tables, NEW tag \in Tags \cup WebTags, Known \subseteq Ids,
         NEW e \in Registrations(rows, tag)
  PROVE  /\ e \in Events /\ e.op = "register" /\ e.id \notin Known /\ Newborn(e.arg)
         /\ e.arg.code \in {tag} \X (1 .. MaxNumber)
         /\ \A i \in DOMAIN rows : rows[i].code # e.arg.code
<1> DEFINE new == NextSequence(Codes(rows), tag)
<1>1. PICK id \in {LastId + 1} \cap Ids : \E quota \in Quotas, at \in Times, n \in {new} \cap (1 .. MaxNumber) :
        e = Event("register", id, NewRow(<<tag, n>>, quota, at))
  BY DEF Registrations, Ids
<1>2. PICK quota \in Quotas : \E at \in Times, n \in {new} \cap (1 .. MaxNumber) :
        e = Event("register", id, NewRow(<<tag, n>>, quota, at))
  BY <1>1
<1>3. PICK at \in Times : \E n \in {new} \cap (1 .. MaxNumber) :
        e = Event("register", id, NewRow(<<tag, n>>, quota, at))
  BY <1>2
<1>4. new \in 1 .. MaxNumber /\ e = Event("register", id, NewRow(<<tag, new>>, quota, at))
  BY <1>3
<1> DEFINE code == <<tag, new>>
<1>5. code \in {tag} \X (1 .. MaxNumber) /\ code \in ClientCodes
  BY <1>4 DEF ClientCodes
<1> HIDE DEF new
<1>6. /\ NewRow(code, quota, at) \in Row /\ NewRow(code, quota, at).code = code
      /\ Newborn(NewRow(code, quota, at))
  BY <1>5, NewRowIs
<1> HIDE DEF code
<1>7. e.op = "register" /\ e.id = id /\ e.arg = NewRow(code, quota, at)
  BY <1>4, EventIs DEF code
<1>8. e \in Events
  BY <1>4, <1>6, EventIs DEF Events, code
<1>9. id \notin Known
  BY FreshId, <1>1
<1>10. \A i \in DOMAIN rows : rows[i].code # code
  <2>1. Codes(rows) \subseteq ClientCodes
    BY TableIs DEF Codes, Row
  <2>2. \A c \in Codes(rows) : c[1] = tag => c[2] < new
    BY <2>1, NextIs DEF new
  <2>3. code[1] = tag /\ code[2] = new /\ ~(new < new)
    BY <1>4 DEF code
  <2>4. code \notin Codes(rows)
    BY <2>2, <2>3
  <2> QED BY <2>4 DEF Codes
<1> QED BY <1>5, <1>6, <1>7, <1>8, <1>9, <1>10

LEMMA OtherFormIs ==
  ASSUME NEW rows \in Tables, NEW e \in ProfileEdits(rows) \cup Contacts(rows) \cup Assignments(rows)
  PROVE  e \in Events /\ e.op # "register" /\ e.id \in DOMAIN rows
<1>0. DOMAIN rows \subseteq Ids /\ \A i \in DOMAIN rows : rows[i] \in Row
  BY TableIs
<1>1. CASE e \in ProfileEdits(rows)
  <2>0. \E id \in DOMAIN rows, quota \in Quotas : e = Event("update", id, [rows[id] EXCEPT !.quota = quota])
    BY <1>1 DEF ProfileEdits, Event
  <2>1. PICK id \in DOMAIN rows : \E quota \in Quotas : e = Event("update", id, [rows[id] EXCEPT !.quota = quota])
    BY <2>0
  <2>2. PICK quota \in Quotas : e = Event("update", id, [rows[id] EXCEPT !.quota = quota])
    BY <2>1
  <2>3. [rows[id] EXCEPT !.quota = quota] \in Row
    BY <1>0 DEF Row
  <2> QED BY <2>2, <2>3, <1>0, EventIs DEF Events
<1>2. CASE e \in Contacts(rows)
  <2>0. \E id \in DOMAIN rows, direction \in Directions, at \in Times : e = Event("contact", id, <<direction, at>>)
    BY <1>2 DEF Contacts, Event
  <2>1. PICK id \in DOMAIN rows : \E direction \in Directions, at \in Times : e = Event("contact", id, <<direction, at>>)
    BY <2>0
  <2>2. PICK direction \in Directions : \E at \in Times : e = Event("contact", id, <<direction, at>>)
    BY <2>1
  <2>3. PICK at \in Times : e = Event("contact", id, <<direction, at>>)
    BY <2>2
  <2>4. <<direction, at>> \in Directions \X Times
    OBVIOUS
  <2> QED BY <2>3, <2>4, <1>0, EventIs DEF Events
<1>3. CASE e \in Assignments(rows)
  <2>1. PICK id \in CrmClients(rows) : \E crm \in Crm : e = Event("assign-crm", id, crm)
    BY <1>3 DEF Assignments
  <2>2. PICK crm \in Crm : e = Event("assign-crm", id, crm)
    BY <2>1
  <2>3. id \in DOMAIN rows
    BY DEF CrmClients
  <2> QED BY <2>2, <2>3, <1>0, EventIs DEF Events
<1> QED BY <1>1, <1>2, <1>3

---------------------------------------------------------------------------
(* What the statements do *)

\* What no statement about a client changes, and what only a contact changes.
SameClient(old, new) == new.code = old.code /\ new.lifecycle = old.lifecycle /\ new.created = old.created
SameSummary(old, new) == /\ new.total_followups = old.total_followups /\ new.last_followup = old.last_followup
                         /\ new.last_response = old.last_response

LEMMA ProfileIs ==
  ASSUME NEW row \in Row, NEW form \in Row, NEW new \in {Edited(row, form), PushedOver(row, form)}
  PROVE  new \in Row /\ SameClient(row, new) /\ SameSummary(row, new)
BY DEF Edited, PushedOver, Row, SameClient, SameSummary

LEMMA AssignedIs ==
  ASSUME NEW row \in Row, NEW crm \in Crm
  PROVE  Assigned(row, crm) \in Row /\ SameClient(row, Assigned(row, crm)) /\ SameSummary(row, Assigned(row, crm))
BY DEF Assigned, Row, SameClient, SameSummary

LEMMA SummarisedIs ==
  ASSUME NEW row \in Row, NEW direction, NEW at \in Times, NEW new, new = Summarised(row, direction, at)
  PROVE  /\ new \in Row /\ SameClient(row, new)
         /\ new.total_followups = IF direction = "OUTBOUND" THEN row.total_followups + 1 ELSE row.total_followups
         /\ new.last_followup = IF direction = "OUTBOUND" /\ at > row.last_followup THEN at ELSE row.last_followup
         /\ new.last_response = IF direction = "INBOUND" /\ at > row.last_response THEN at ELSE row.last_response
<1> DEFINE total == IF direction = "OUTBOUND" THEN row.total_followups + 1 ELSE row.total_followups
           followup == IF direction = "OUTBOUND" /\ at > row.last_followup THEN at ELSE row.last_followup
           response == IF direction = "INBOUND" /\ at > row.last_response THEN at ELSE row.last_response
<1>1. total \in Nat /\ followup \in Times \cup {0} /\ response \in Times \cup {0}
  BY DEF Row
<1>2. new = [row EXCEPT !.total_followups = total, !.last_followup = followup, !.last_response = response]
  BY DEF Summarised, Row
<1> HIDE DEF total, followup, response
<1>3. /\ new \in Row /\ SameClient(row, new)
      /\ new.total_followups = total /\ new.last_followup = followup /\ new.last_response = response
  BY <1>1, <1>2 DEF Row, SameClient
<1> QED BY <1>3 DEF total, followup, response

LEMMA SetRow ==
  ASSUME NEW rows \in Tables, NEW id \in DOMAIN rows, NEW row \in Row, NEW new, new = [rows EXCEPT ![id] = row]
  PROVE  /\ new \in Tables /\ DOMAIN new = DOMAIN rows
         /\ new[id] = row /\ \A i \in DOMAIN rows : i # id => new[i] = rows[i]
<1>1. /\ rows = [i \in DOMAIN rows |-> rows[i]] /\ DOMAIN rows \subseteq Ids
      /\ \A i \in DOMAIN rows : rows[i] \in Row
  BY TableIs
<1>2. /\ DOMAIN new = DOMAIN rows /\ new[id] = row /\ \A i \in DOMAIN rows : i # id => new[i] = rows[i]
      /\ new = [i \in DOMAIN new |-> new[i]]
  BY <1>1
<1> QED BY <1>1, <1>2, TableIs

LEMMA InsertRow ==
  ASSUME NEW rows \in Tables, NEW id \in Ids, NEW row \in Row, NEW new, new = Inserted(rows, id, row)
  PROVE  /\ new \in Tables /\ DOMAIN new = DOMAIN rows \cup {id}
         /\ new[id] = row /\ \A i \in DOMAIN rows : i # id => new[i] = rows[i]
<1>1. /\ rows = [i \in DOMAIN rows |-> rows[i]] /\ DOMAIN rows \subseteq Ids
      /\ \A i \in DOMAIN rows : rows[i] \in Row
  BY TableIs
<1>2. /\ DOMAIN new = DOMAIN rows \cup {id} /\ new[id] = row /\ \A i \in DOMAIN rows : i # id => new[i] = rows[i]
      /\ new = [i \in DOMAIN new |-> new[i]]
  BY <1>1 DEF Inserted
<1> QED BY <1>1, <1>2, TableIs

LEMMA AppliedIs ==
  ASSUME NEW rows \in Tables, NEW e \in Events, e.op # "register" => e.id \in DOMAIN rows,
         NEW new, new = Applied(rows, e, Edited) \/ new = Applied(rows, e, PushedOver)
  PROVE  /\ new \in Tables /\ DOMAIN new = DOMAIN rows \cup {e.id}
         /\ \A i \in DOMAIN rows : i # e.id => new[i] = rows[i]
         /\ e.op = "register" => new[e.id] = e.arg
         /\ e.op # "register" => SameClient(rows[e.id], new[e.id])
         /\ e.op \in {"update", "assign-crm"} => SameSummary(rows[e.id], new[e.id])
         /\ e.op = "contact" => new[e.id] = Summarised(rows[e.id], e.arg[1], e.arg[2])
<1>0. \A i \in DOMAIN rows : rows[i] \in Row
  BY TableIs
<1>1. CASE e.op = "register"
  <2>1. new = Inserted(rows, e.id, e.arg)
    BY <1>1 DEF Applied
  <2>2. e.id \in Ids /\ e.arg \in Row
    BY <1>1, EventsAre
  <2> QED BY <2>1, <2>2, <1>1, InsertRow
<1>2. CASE e.op = "update"
  <2>1. PICK row \in {Edited(rows[e.id], e.arg), PushedOver(rows[e.id], e.arg)} : new = [rows EXCEPT ![e.id] = row]
    BY <1>2 DEF Applied
  <2>2. e.arg \in Row /\ e.id \in DOMAIN rows
    BY <1>2, EventsAre
  <2>3. row \in Row /\ SameClient(rows[e.id], row) /\ SameSummary(rows[e.id], row)
    BY <2>2, <1>0, ProfileIs
  <2>5. new \in Tables /\ DOMAIN new = DOMAIN rows /\ new[e.id] = row /\ \A i \in DOMAIN rows : i # e.id => new[i] = rows[i]
    BY <2>1, <2>2, <2>3, SetRow
  <2> QED BY <2>2, <2>3, <2>5, <1>2
<1>3. CASE e.op = "assign-crm"
  <2> DEFINE row == Assigned(rows[e.id], e.arg)
  <2>1. new = [rows EXCEPT ![e.id] = row]
    BY <1>3 DEF Applied
  <2>2. e.arg \in Crm /\ e.id \in DOMAIN rows
    BY <1>3, EventsAre
  <2>3. row \in Row /\ SameClient(rows[e.id], row) /\ SameSummary(rows[e.id], row)
    BY <2>2, <1>0, AssignedIs
  <2> HIDE DEF row
  <2>5. new \in Tables /\ DOMAIN new = DOMAIN rows /\ new[e.id] = row /\ \A i \in DOMAIN rows : i # e.id => new[i] = rows[i]
    BY <2>1, <2>2, <2>3, SetRow
  <2> QED BY <2>2, <2>3, <2>5, <1>3
<1>4. CASE e.op = "contact"
  <2> DEFINE row == Summarised(rows[e.id], e.arg[1], e.arg[2])
  <2>1. new = [rows EXCEPT ![e.id] = row]
    BY <1>4 DEF Applied
  <2>2. e.arg[2] \in Times /\ e.id \in DOMAIN rows
    BY <1>4, EventsAre
  <2>3. row \in Row /\ SameClient(rows[e.id], row)
    BY <2>2, <1>0, SummarisedIs
  <2>4. row = Summarised(rows[e.id], e.arg[1], e.arg[2])
    OBVIOUS
  <2> HIDE DEF row
  <2>5. new \in Tables /\ DOMAIN new = DOMAIN rows /\ new[e.id] = row /\ \A i \in DOMAIN rows : i # e.id => new[i] = rows[i]
    BY <2>1, <2>2, <2>3, SetRow
  <2> QED BY <2>2, <2>3, <2>4, <2>5, <1>4
<1> QED BY <1>1, <1>2, <1>3, <1>4, EventsAre

---------------------------------------------------------------------------
(* The import of a file *)

LEMMA Smaller ==
  ASSUME NEW S, NEW T, IsFiniteSet(S), T \subseteq S, NEW x \in S, x \notin T
  PROVE  Cardinality(T) \in Nat /\ Cardinality(S) \in Nat /\ Cardinality(T) < Cardinality(S)
<1>1. IsFiniteSet(T) /\ Cardinality(T) <= Cardinality(S) /\ Cardinality(T) # Cardinality(S)
  BY FS_Subset
<1>2. Cardinality(T) \in Nat /\ Cardinality(S) \in Nat
  BY <1>1, FS_CardinalityType
<1> QED BY <1>1, <1>2

FileCodes == {None} \cup SheetCodes \cup (WebTags \X (1 .. MaxNumber))

LEMMA PlanIs ==
  ASSUME NEW codes, codes \subseteq ClientCodes, NEW tag \in WebTags, NEW file \in Sheets,
         NEW added, added = PlanImport(codes, tag, file)
  PROVE  /\ added \subseteq Nat /\ IsFiniteSet(added)
         /\ \A k \in added : CodeOf(codes, tag, file, k) \in SheetCodes \cup (WebTags \X (1 .. MaxNumber))
         /\ \A k \in added : file[k] = None => /\ CodeOf(codes, tag, file, k) \in {tag} \X (1 .. MaxNumber)
                                               /\ CodeOf(codes, tag, file, k) \notin codes
         /\ \A j, k \in added : file[j] = None /\ file[k] = None /\ j < k
              => CodeOf(codes, tag, file, j) # CodeOf(codes, tag, file, k)
<1> DEFINE before(k) == {j \in DOMAIN file : j < k /\ file[j] = None}
           next == NextSequence(codes, tag)
<1>0. MaxNumber \in Nat
  BY ClientsAssumption
<1>1. DOMAIN file = 1 .. Len(file) /\ Len(file) \in Nat /\ \A k \in DOMAIN file : file[k] \in FileCodes
  <2>1. file \in Seq(FileCodes)
    BY ClientsAssumption DEF FileCodes
  <2> HIDE DEF FileCodes
  <2> QED BY <2>1, LenProperties, ElementOfSeq
<1>2. IsFiniteSet(DOMAIN file) /\ added \subseteq DOMAIN file
  BY <1>1, FS_Interval DEF PlanImport
<1>3. next \in 1 .. MaxNumber + 1 /\ \A c \in codes : c[1] = tag => c[2] < next
  BY NextIs
<1>4. \A k : IsFiniteSet(before(k)) /\ Cardinality(before(k)) \in Nat
  <2> TAKE k
  <2>1. before(k) \subseteq DOMAIN file
    OBVIOUS
  <2> HIDE DEF before
  <2> QED BY <2>1, <1>2, FS_Subset, FS_CardinalityType
<1>5. \A k : NumberOf(codes, tag, file, k) = next + Cardinality(before(k))
  BY DEF NumberOf
<1>6. ASSUME NEW j \in DOMAIN file, NEW k \in DOMAIN file, file[j] = None, j < k
      PROVE  Cardinality(before(j)) < Cardinality(before(k))
  <2>1. before(j) \subseteq before(k) /\ j \in before(k) /\ j \notin before(j)
    BY <1>6, <1>1
  <2> HIDE DEF before
  <2> QED BY <2>1, <1>4, Smaller
<1> HIDE DEF before, next
<1>7. ASSUME NEW k \in added, file[k] = None
      PROVE  /\ NumberOf(codes, tag, file, k) \in 1 .. MaxNumber
             /\ CodeOf(codes, tag, file, k) = <<tag, NumberOf(codes, tag, file, k)>>
             /\ CodeOf(codes, tag, file, k) \notin codes
  <2>1. NumberOf(codes, tag, file, k) <= MaxNumber
    BY <1>7 DEF PlanImport
  <2>2. NumberOf(codes, tag, file, k) \in 1 .. MaxNumber /\ next <= NumberOf(codes, tag, file, k)
    BY <2>1, <1>0, <1>3, <1>4, <1>5
  <2>3. CodeOf(codes, tag, file, k) = <<tag, NumberOf(codes, tag, file, k)>>
    BY <1>7 DEF CodeOf
  <2> DEFINE c == <<tag, NumberOf(codes, tag, file, k)>>
  <2>4. c[1] = tag /\ c[2] = NumberOf(codes, tag, file, k)
    OBVIOUS
  <2>5. ~(c[2] < next)
    BY <2>2, <2>4, <1>3
  <2> QED BY <2>2, <2>3, <2>4, <2>5, <1>3
<1>8. ASSUME NEW k \in added, file[k] # None
      PROVE  CodeOf(codes, tag, file, k) \in SheetCodes \cup (WebTags \X (1 .. MaxNumber))
  BY <1>8, <1>1, <1>2 DEF CodeOf, FileCodes
<1>9. ASSUME NEW j \in added, NEW k \in added, file[j] = None, file[k] = None, j < k
      PROVE  CodeOf(codes, tag, file, j) # CodeOf(codes, tag, file, k)
  <2>1. Cardinality(before(j)) < Cardinality(before(k)) /\ Cardinality(before(j)) \in Nat
        /\ Cardinality(before(k)) \in Nat /\ next \in Nat
    BY <1>9, <1>2, <1>3, <1>4, <1>6
  <2>2. NumberOf(codes, tag, file, j) # NumberOf(codes, tag, file, k)
    BY <2>1, <1>5
  <2> QED BY <2>2, <1>7, <1>9
<1>10. added \subseteq Nat /\ IsFiniteSet(added)
  BY <1>1, <1>2, FS_Subset
<1>11. \A k \in added : file[k] = None => CodeOf(codes, tag, file, k) \in {tag} \X (1 .. MaxNumber)
  BY <1>7
<1> QED BY <1>7, <1>8, <1>9, <1>10, <1>11

\* Files bring codes of another time along, not codes a desk may give today.
FilesBringOldCodes ==
  \A file \in Sheets : \A k \in DOMAIN file : file[k] = None \/ file[k] \in SheetCodes

LEMMA ImportIs ==
  ASSUME NEW rows \in Tables, NEW tag \in WebTags, Known \subseteq Ids, NEW events \in Imports(rows, tag)
  PROVE  /\ \A e \in events : /\ e \in Events /\ e.op = "register" /\ e.id \notin Known /\ Newborn(e.arg)
                              /\ e.arg.code \in SheetCodes \cup (WebTags \X (1 .. MaxNumber))
         /\ \A e, f \in events : e.id = f.id => e = f
         /\ FilesBringOldCodes =>
              \A e \in events : e.arg.code \notin SheetCodes =>
                /\ e.arg.code[1] = tag /\ \A i \in DOMAIN rows : rows[i].code # e.arg.code
                /\ \A f \in events : f.arg.code = e.arg.code => f = e
<1> DEFINE codes == Codes(rows)
<1>0. codes \subseteq ClientCodes
  BY TableIs DEF Codes, Row
<1>1. PICK file \in {f \in Sheets : LastId + Cardinality(PlanImport(codes, tag, f)) <= MaxClients} :
        \E quota \in Quotas, at \in Times :
          events = {Event("register", LastId + Cardinality({j \in PlanImport(codes, tag, file) : j <= k}),
                          NewRow(CodeOf(codes, tag, file, k), quota, at)) : k \in PlanImport(codes, tag, file)}
  BY DEF Imports
<1>2. PICK quota \in Quotas, at \in Times :
        events = {Event("register", LastId + Cardinality({j \in PlanImport(codes, tag, file) : j <= k}),
                        NewRow(CodeOf(codes, tag, file, k), quota, at)) : k \in PlanImport(codes, tag, file)}
  BY <1>1
<1> DEFINE added == PlanImport(codes, tag, file)
           rank(k) == {j \in added : j <= k}
           code(k) == CodeOf(codes, tag, file, k)
           event(k) == Event("register", LastId + Cardinality(rank(k)), NewRow(code(k), quota, at))
<1>3. events = {event(k) : k \in added}
  BY <1>2
<1>4. /\ added \subseteq Nat /\ IsFiniteSet(added)
      /\ \A k \in added : code(k) \in SheetCodes \cup (WebTags \X (1 .. MaxNumber))
      /\ \A k \in added : file[k] = None => code(k) \in {tag} \X (1 .. MaxNumber) /\ code(k) \notin codes
      /\ \A j, k \in added : file[j] = None /\ file[k] = None /\ j < k => code(j) # code(k)
  BY <1>0, <1>1, PlanIs
<1>5. LastId + Cardinality(added) <= MaxClients /\ LastId \in Nat /\ MaxClients \in Nat
  BY <1>1, LastIs, ClientsAssumption
<1>5a. FilesBringOldCodes => \A k \in added : file[k] = None \/ code(k) \in SheetCodes
  BY <1>1 DEF FilesBringOldCodes, CodeOf, PlanImport
<1> HIDE DEF added, code
<1>6. \A k \in added : /\ IsFiniteSet(rank(k)) /\ Cardinality(rank(k)) \in Nat
                       /\ Cardinality(rank(k)) > 0 /\ Cardinality(rank(k)) <= Cardinality(added)
  <2> TAKE k \in added
  <2>1. rank(k) \subseteq added /\ k \in rank(k)
    BY <1>4
  <2> HIDE DEF rank
  <2>2. IsFiniteSet(rank(k)) /\ Cardinality(rank(k)) <= Cardinality(added) /\ Cardinality(rank(k)) \in Nat
    BY <2>1, <1>4, FS_Subset, FS_CardinalityType
  <2>3. Cardinality(rank(k)) # 0
    BY <2>1, <2>2, FS_EmptySet
  <2> QED BY <2>2, <2>3
<1>7. ASSUME NEW j \in added, NEW k \in added, j < k
      PROVE  Cardinality(rank(j)) # Cardinality(rank(k))
  <2>0. j \in Nat /\ k \in Nat /\ \A i \in added : i \in Nat
    BY <1>4
  <2>1. k \in rank(k) /\ k \notin rank(j)
    BY <1>7, <2>0
  <2>2. rank(j) \subseteq rank(k)
    <3> SUFFICES ASSUME NEW i \in added, i <= j
                 PROVE  i <= k
      OBVIOUS
    <3>1. i \in Nat
      BY <2>0
    <3> QED BY <3>1, <2>0, <1>7
  <2>3. IsFiniteSet(rank(k))
    BY <1>6
  <2> HIDE DEF rank
  <2> QED BY <2>1, <2>2, <2>3, Smaller
<1> HIDE DEF rank
<1>8. \A k \in added : /\ event(k).op = "register" /\ event(k).id = LastId + Cardinality(rank(k))
                       /\ event(k).arg = NewRow(code(k), quota, at)
  BY EventIs
<1>9. \A k \in added : /\ code(k) \in ClientCodes /\ NewRow(code(k), quota, at) \in Row
                       /\ event(k).arg.code = code(k) /\ Newborn(event(k).arg)
  <2> TAKE k \in added
  <2>1. code(k) \in ClientCodes
    BY <1>4 DEF ClientCodes
  <2> QED BY <2>1, <1>2, <1>8, NewRowIs
<1>10. \A k \in added : event(k).id \in Ids /\ event(k).id \notin Known
  <2> TAKE k \in added
  <2>1. LastId + Cardinality(rank(k)) \in Ids
    <3>1. Cardinality(rank(k)) \in Nat /\ Cardinality(rank(k)) > 0 /\ Cardinality(rank(k)) <= Cardinality(added)
      BY <1>6
    <3>2. Cardinality(added) \in Nat
      BY <1>4, FS_CardinalityType
    <3> QED BY <3>1, <3>2, <1>5 DEF Ids
  <2>2. LastId + Cardinality(rank(k)) \notin Known
    BY <1>6, FreshId
  <2> QED BY <2>1, <2>2, <1>8
<1>11. \A k \in added : event(k) \in Events
  <2> TAKE k \in added
  <2>1. event(k) = [op |-> "register", id |-> event(k).id, arg |-> event(k).arg]
    BY EventIs, <1>8
  <2> QED BY <2>1, <1>8, <1>9, <1>10 DEF Events
<1>12. \A j, k \in added : event(j).id = event(k).id => j = k
  <2> SUFFICES ASSUME NEW j \in added, NEW k \in added, event(j).id = event(k).id, j # k
               PROVE  FALSE
    OBVIOUS
  <2>1. Cardinality(rank(j)) = Cardinality(rank(k))
    BY <1>5, <1>6, <1>8
  <2>2. j < k \/ k < j
    BY <1>4
  <2> QED BY <2>1, <2>2, <1>7
<1>13. FilesBringOldCodes =>
         \A k \in added : code(k) \notin SheetCodes =>
           /\ code(k)[1] = tag /\ \A i \in DOMAIN rows : rows[i].code # code(k)
           /\ \A j \in added : code(j) = code(k) => j = k
  <2> SUFFICES ASSUME FilesBringOldCodes, NEW k \in added, code(k) \notin SheetCodes
               PROVE  /\ code(k)[1] = tag /\ \A i \in DOMAIN rows : rows[i].code # code(k)
                      /\ \A j \in added : code(j) = code(k) => j = k
    OBVIOUS
  <2>1. file[k] = None
    BY <1>5a
  <2>2. code(k)[1] = tag /\ code(k) \notin codes
    BY <2>1, <1>4
  <2>3. ASSUME NEW j \in added, code(j) = code(k)
        PROVE  j = k
    <3>1. file[j] = None
      BY <1>5a, <2>3
    <3>2. ~(j < k) /\ ~(k < j)
      BY <3>1, <2>1, <2>3, <1>4
    <3> QED BY <3>2, <1>4
  <2> QED BY <2>2, <2>3 DEF Codes
<1> HIDE DEF event
<1>14. \A e \in events : /\ e \in Events /\ e.op = "register" /\ e.id \notin Known /\ Newborn(e.arg)
                         /\ e.arg.code \in SheetCodes \cup (WebTags \X (1 .. MaxNumber))
  BY <1>3, <1>4, <1>8, <1>9, <1>10, <1>11
<1>15. \A e, f \in events : e.id = f.id => e = f
  BY <1>3, <1>12
<1>16. FilesBringOldCodes =>
         \A e \in events : e.arg.code \notin SheetCodes =>
           /\ e.arg.code[1] = tag /\ \A i \in DOMAIN rows : rows[i].code # e.arg.code
           /\ \A f \in events : f.arg.code = e.arg.code => f = e
  <2> SUFFICES ASSUME FilesBringOldCodes, NEW e \in events, e.arg.code \notin SheetCodes
               PROVE  /\ e.arg.code[1] = tag /\ \A i \in DOMAIN rows : rows[i].code # e.arg.code
                      /\ \A f \in events : f.arg.code = e.arg.code => f = e
    OBVIOUS
  <2>1. PICK k \in added : e = event(k) /\ e.arg.code = code(k)
    BY <1>3, <1>9
  <2>2. \A f \in events : \E j \in added : f = event(j) /\ f.arg.code = code(j)
    BY <1>3, <1>9
  <2> QED BY <2>1, <2>2, <1>13
<1> QED BY <1>14, <1>15, <1>16

---------------------------------------------------------------------------
(* The queues and the rows they are about *)

LEMMA Add ==
  ASSUME NEW S, NEW s \in Seq(S), NEW r \in S, NEW t, t = Append(s, r)
  PROVE  /\ t \in Seq(S) /\ Len(t) = Len(s) + 1
         /\ DOMAIN t = DOMAIN s \cup {Len(s) + 1} /\ Len(s) + 1 \notin DOMAIN s /\ DOMAIN s = 1 .. Len(s)
         /\ t[Len(s) + 1] = r /\ \A k \in DOMAIN s : t[k] = s[k]
<1> DEFINE n == Len(s) + 1
<1>1. DOMAIN s = 1 .. Len(s) /\ Len(s) \in Nat
  BY LenProperties
<1>2. t \in Seq(S) /\ Len(t) = n /\ t[n] = r /\ \A k \in 1 .. Len(s) : t[k] = s[k]
  BY AppendProperties
<1>3. DOMAIN t = 1 .. n
  BY <1>2, LenProperties
<1>4. 1 .. n = 1 .. Len(s) \cup {n} /\ n \notin 1 .. Len(s)
  BY <1>1
<1> QED BY <1>1, <1>2, <1>3, <1>4

LEMMA Rest ==
  ASSUME NEW S, NEW s \in Seq(S), s # <<>>, NEW t, t = Tail(s)
  PROVE  /\ t \in Seq(S) /\ 1 \in DOMAIN s /\ Head(s) = s[1] /\ DOMAIN t \subseteq Nat /\ DOMAIN s \subseteq Nat
         /\ \A k \in DOMAIN t : k + 1 \in DOMAIN s /\ k + 1 # 1 /\ t[k] = s[k + 1]
         /\ \A k \in DOMAIN s : k # 1 => k - 1 \in DOMAIN t /\ t[k - 1] = s[k]
<1>1. DOMAIN s = 1 .. Len(s) /\ Len(s) \in Nat /\ Len(s) # 0
  BY LenProperties, EmptySeq
<1>2. t \in Seq(S) /\ Len(t) = Len(s) - 1 /\ \A k \in 1 .. Len(t) : t[k] = s[k + 1]
  BY HeadTailProperties
<1>3. DOMAIN t = 1 .. Len(t) /\ Len(t) \in Nat
  BY <1>2, LenProperties
<1>4. Head(s) = s[1]
  BY <1>1 DEF Head
<1>5. \A k \in DOMAIN t : k + 1 \in DOMAIN s /\ k + 1 # 1 /\ t[k] = s[k + 1]
  BY <1>1, <1>2, <1>3
<1>6. \A k \in DOMAIN s : k # 1 => k - 1 \in DOMAIN t /\ (k - 1) + 1 = k
  BY <1>1, <1>2, <1>3
<1> QED BY <1>1, <1>2, <1>3, <1>4, <1>5, <1>6

Registers(s, k, i) == s[k].op = "register" /\ s[k].id = i

\* Each event is about a row of the copy.
EventsHaveRows == \A d \in Device : \A k \in DOMAIN outbox[d] : outbox[d][k].id \in DOMAIN copy[d]

\* A client whose registration waits is not in the cloud, and waits in one place.
WaitingIsNew ==
  /\ \A d \in Device : \A k \in DOMAIN outbox[d] :
       outbox[d][k].op = "register" => outbox[d][k].id \notin DOMAIN client
  /\ \A d, e \in Device : \A k \in DOMAIN outbox[d], l \in DOMAIN outbox[e] :
       outbox[d][k].op = "register" /\ outbox[e][l].op = "register" /\ outbox[d][k].id = outbox[e][l].id
         => d = e /\ k = l

\* An event about a client that is not in the cloud waits behind its registration.
Grounded ==
  \A d \in Device : \A k \in DOMAIN outbox[d] :
    \/ outbox[d][k].op = "register" \/ outbox[d][k].id \in DOMAIN client
    \/ \E j \in DOMAIN outbox[d] : j < k /\ Registers(outbox[d], j, outbox[d][k].id)

\* A row that only a copy has is one whose registration waits there.
CopiesAreKnown ==
  \A d \in Device : \A i \in DOMAIN copy[d] :
    i \in DOMAIN client \/ \E k \in DOMAIN outbox[d] : Registers(outbox[d], k, i)

\* A registration waits as it was written, under the code that the copy shows.
WaitingIsNewborn ==
  \A d \in Device : \A k \in DOMAIN outbox[d] :
    outbox[d][k].op = "register" =>
      Newborn(outbox[d][k].arg) /\ outbox[d][k].arg.code = copy[d][outbox[d][k].id].code

QueueInv == EventsHaveRows /\ WaitingIsNew /\ Grounded /\ CopiesAreKnown /\ WaitingIsNewborn
Inv == TypeOK /\ QueueInv

LEMMA TypesAre ==
  ASSUME TypeOK
  PROVE  /\ Known \subseteq Ids
         /\ client \in Tables /\ DOMAIN client \subseteq Known /\ \A i \in DOMAIN client : client[i] \in Row
         /\ contact \in Seq(Ids \X Directions \X Times) /\ webTag \in WebTags
         /\ \A d \in Device : /\ copy[d] \in Tables /\ DOMAIN copy[d] \subseteq Known
                              /\ \A i \in DOMAIN copy[d] : copy[d][i] \in Row
                              /\ outbox[d] \in Seq(Events) /\ DOMAIN outbox[d] \subseteq Nat
                              /\ \A k \in DOMAIN outbox[d] : outbox[d][k] \in Events
                              /\ deviceTag[d] \in Tags \cup {None} /\ registry[d] \in Tags \cup {None}
<1>1. /\ client \in Tables /\ contact \in Seq(Ids \X Directions \X Times) /\ webTag \in WebTags
      /\ \A d \in Device : /\ copy[d] \in Tables /\ outbox[d] \in Seq(Events)
                           /\ deviceTag[d] \in Tags \cup {None} /\ registry[d] \in Tags \cup {None}
  BY DEF TypeOK
<1>2. DOMAIN client \subseteq Ids /\ \A i \in DOMAIN client : client[i] \in Row
  BY <1>1, TableIs
<1>3. \A d \in Device : /\ DOMAIN copy[d] \subseteq Ids /\ \A i \in DOMAIN copy[d] : copy[d][i] \in Row
  BY <1>1, TableIs
<1>4. \A d \in Device : /\ DOMAIN outbox[d] \subseteq Nat
                        /\ \A k \in DOMAIN outbox[d] : outbox[d][k] \in Events
  BY <1>1, LenProperties, ElementOfSeq
<1>5. Known \subseteq Ids /\ DOMAIN client \subseteq Known /\ \A d \in Device : DOMAIN copy[d] \subseteq Known
  BY <1>2, <1>3 DEF Known
<1> QED BY <1>1, <1>2, <1>3, <1>4, <1>5

---------------------------------------------------------------------------
(* What each action does *)

\* An event as the form of a desk makes it that knows the rows.
FormOf(e, rows, tag) ==
  /\ e \in Events
  /\ e.op # "register" => e.id \in DOMAIN rows
  /\ e.op = "register" => /\ e.id \notin Known /\ Newborn(e.arg) /\ e.arg.code \in {tag} \X (1 .. MaxNumber)
                          /\ \A i \in DOMAIN rows : rows[i].code # e.arg.code

LEMMA WebWritesIs ==
  ASSUME TypeOK, WebWrites
  PROVE  \E e \in Events : /\ FormOf(e, client, webTag)
                           /\ client' = Applied(client, e, Edited) /\ contact' = ContactsAfter(e)
<1>1. PICK e \in WebForms : client' = Applied(client, e, Edited) /\ contact' = ContactsAfter(e)
  BY DEF WebWrites
<1>2. \/ e \in Registrations(client, webTag)
      \/ e \in ProfileEdits(client) \cup Contacts(client) \cup Assignments(client)
  BY DEF WebForms
<1>3. client \in Tables /\ webTag \in Tags \cup WebTags /\ Known \subseteq Ids
  BY TypesAre
<1>4. FormOf(e, client, webTag)
  BY <1>2, <1>3, RegistrationIs, OtherFormIs DEF FormOf
<1> QED BY <1>1, <1>4 DEF FormOf

LEMMA DeviceWritesIs ==
  ASSUME TypeOK, NEW d \in Device, DeviceWrites(d)
  PROVE  \E e \in Events : /\ FormOf(e, copy[d], deviceTag[d])
                           /\ e.op = "register" => deviceTag[d] # None
                           /\ copy' = [copy EXCEPT ![d] = Applied(copy[d], e, Edited)]
                           /\ outbox' = [outbox EXCEPT ![d] = Append(outbox[d], e)]
<1>1. PICK e \in DeviceForms(d) : /\ copy' = [copy EXCEPT ![d] = Applied(copy[d], e, Edited)]
                                  /\ outbox' = [outbox EXCEPT ![d] = Append(outbox[d], e)]
  BY DEF DeviceWrites
<1>2. \/ deviceTag[d] # None /\ e \in Registrations(copy[d], deviceTag[d])
      \/ e \in ProfileEdits(copy[d]) \cup Contacts(copy[d]) \cup Assignments(copy[d])
  BY DEF DeviceForms
<1>3. copy[d] \in Tables /\ deviceTag[d] \in Tags \cup {None} /\ Known \subseteq Ids
  BY TypesAre
<1>4. CASE deviceTag[d] # None /\ e \in Registrations(copy[d], deviceTag[d])
  <2>1. deviceTag[d] \in Tags \cup WebTags
    BY <1>3, <1>4
  <2>2. FormOf(e, copy[d], deviceTag[d])
    BY <2>1, <1>3, <1>4, RegistrationIs DEF FormOf
  <2> QED BY <2>2, <1>1, <1>4 DEF FormOf
<1>5. CASE e \in ProfileEdits(copy[d]) \cup Contacts(copy[d]) \cup Assignments(copy[d])
  <2>1. FormOf(e, copy[d], deviceTag[d]) /\ e.op # "register"
    BY <1>3, <1>5, OtherFormIs DEF FormOf
  <2> QED BY <2>1, <1>1 DEF FormOf
<1> QED BY <1>2, <1>4, <1>5

LEMMA ImportClientsIs ==
  ASSUME TypeOK, ImportClients
  PROVE  \E events \in Imports(client, webTag) :
           /\ client' \in Tables /\ DOMAIN client' = DOMAIN client \cup {e.id : e \in events}
           /\ \A i \in DOMAIN client : client'[i] = client[i]
           /\ \A e \in events : client'[e.id] = e.arg
<1> DEFINE ids(events) == {e.id : e \in events}
           row(events, i) == IF i \in DOMAIN client THEN client[i] ELSE (CHOOSE e \in events : e.id = i).arg
<1>1. PICK events \in Imports(client, webTag) : client' = [i \in DOMAIN client \cup ids(events) |-> row(events, i)]
  BY DEF ImportClients
<1>2. client \in Tables /\ Known \subseteq Ids /\ webTag \in WebTags /\ DOMAIN client \subseteq Known
      /\ \A i \in DOMAIN client : client[i] \in Row
  BY TypesAre
<1>3. /\ \A e \in events : e \in Events /\ e.op = "register" /\ e.id \notin Known
      /\ \A e, f \in events : e.id = f.id => e = f
  BY <1>1, <1>2, ImportIs
<1>4. ASSUME NEW e \in events
      PROVE  e.id \notin DOMAIN client /\ row(events, e.id) = e.arg
  <2>1. (CHOOSE f \in events : f.id = e.id) = e
    BY <1>3
  <2> QED BY <2>1, <1>2, <1>3
<1>5. DOMAIN client \cup ids(events) \subseteq Ids
  BY <1>2, <1>3, EventsAre
<1>6. \A i \in DOMAIN client \cup ids(events) : row(events, i) \in Row
  <2>1. \A e \in events : e.arg \in Row
    BY <1>3, EventsAre
  <2>2. \A i \in ids(events) : \E e \in events : i = e.id
    OBVIOUS
  <2> HIDE DEF row, ids
  <2>3. \A i \in ids(events) : row(events, i) \in Row
    BY <2>1, <2>2, <1>4
  <2>4. \A i \in DOMAIN client : row(events, i) = client[i]
    BY DEF row
  <2> QED BY <2>3, <2>4, <1>2
<1>7. \A i \in DOMAIN client : row(events, i) = client[i]
  OBVIOUS
<1>8. \A e \in events : e.id \in ids(events)
  OBVIOUS
<1> HIDE DEF row, ids
<1>9. DOMAIN client' = DOMAIN client \cup ids(events) /\ client' = [i \in DOMAIN client' |-> client'[i]]
      /\ \A i \in DOMAIN client' : client'[i] = row(events, i)
  BY <1>1
<1>10. client' \in Tables
  BY <1>5, <1>6, <1>9, TableIs
<1>11. /\ \A i \in DOMAIN client : client'[i] = client[i]
       /\ \A e \in events : client'[e.id] = e.arg
  BY <1>4, <1>7, <1>8, <1>9
<1> QED BY <1>1, <1>9, <1>10, <1>11 DEF ids

\* The actions that only move a client along.
Relabelled ==
  /\ client' \in Tables /\ DOMAIN client' = DOMAIN client
  /\ \A i \in DOMAIN client :
       /\ client'[i].code = client[i].code /\ client'[i].created = client[i].created
       /\ SameSummary(client[i], client'[i])
       /\ client[i].lifecycle = "EXISTING_CLIENT" => client'[i].lifecycle = "EXISTING_CLIENT"

LEMMA RelabelledIs ==
  ASSUME TypeOK, ImportSheet \/ HandOverToCrm \/ LifecycleFromSamples
  PROVE  Relabelled
<1>0. client \in Tables /\ \A i \in DOMAIN client : client[i] \in Row
  BY TypesAre
<1>1. \E id \in DOMAIN client, row \in Row :
        /\ client' = [client EXCEPT ![id] = row]
        /\ row.code = client[id].code /\ row.created = client[id].created /\ SameSummary(client[id], row)
        /\ client[id].lifecycle = "EXISTING_CLIENT" => row.lifecycle = "EXISTING_CLIENT"
  <2>1. CASE ImportSheet
    <3>1. PICK id \in DOMAIN client : client' = [client EXCEPT ![id].lifecycle = "EXISTING_CLIENT"]
      BY <2>1 DEF ImportSheet
    <3> DEFINE row == [client[id] EXCEPT !.lifecycle = "EXISTING_CLIENT"]
    <3>2. client' = [client EXCEPT ![id] = row]
      BY <3>1
    <3>3. /\ row \in Row /\ row.code = client[id].code /\ row.created = client[id].created
          /\ SameSummary(client[id], row) /\ row.lifecycle = "EXISTING_CLIENT"
      BY <1>0 DEF Row, SameSummary, Lifecycles
    <3> HIDE DEF row
    <3> QED BY <3>2, <3>3
  <2>2. CASE HandOverToCrm
    <3>1. PICK id \in DOMAIN client, pic \in Crm \cup {None} :
            client' = [client EXCEPT ![id].lifecycle = "EXISTING_CLIENT", ![id].crm = IF @ = None THEN pic ELSE @]
      BY <2>2 DEF HandOverToCrm
    <3> DEFINE operator == IF client[id].crm = None THEN pic ELSE client[id].crm
               row == [client[id] EXCEPT !.lifecycle = "EXISTING_CLIENT", !.crm = operator]
    <3>2. client' = [client EXCEPT ![id] = row]
      <4>1. client[id] \in Row
        BY <1>0
      <4> QED BY <3>1, <4>1 DEF Row
    <3>3. operator \in Crm \cup {None}
      BY <1>0 DEF Row
    <3> HIDE DEF operator
    <3>4. /\ row \in Row /\ row.code = client[id].code /\ row.created = client[id].created
          /\ SameSummary(client[id], row) /\ row.lifecycle = "EXISTING_CLIENT"
      BY <1>0, <3>3 DEF Row, SameSummary, Lifecycles
    <3> HIDE DEF row
    <3> QED BY <3>2, <3>4
  <2>3. CASE LifecycleFromSamples
    <3>1. PICK id \in DOMAIN client, status \in {"LEAD", "FIRST_ORDER_ACTIVE"} :
            /\ client[id].lifecycle \in {"LEAD", "FIRST_ORDER_ACTIVE"}
            /\ client' = [client EXCEPT ![id].lifecycle = status]
      BY <2>3 DEF LifecycleFromSamples
    <3> DEFINE row == [client[id] EXCEPT !.lifecycle = status]
    <3>2. client' = [client EXCEPT ![id] = row]
      BY <3>1
    <3>3. /\ row \in Row /\ row.code = client[id].code /\ row.created = client[id].created
          /\ SameSummary(client[id], row) /\ client[id].lifecycle # "EXISTING_CLIENT"
      BY <1>0, <3>1 DEF Row, SameSummary, Lifecycles
    <3> HIDE DEF row
    <3> QED BY <3>2, <3>3
  <2> QED BY <2>1, <2>2, <2>3
<1>2. PICK id \in DOMAIN client, row \in Row :
        /\ client' = [client EXCEPT ![id] = row]
        /\ row.code = client[id].code /\ row.created = client[id].created /\ SameSummary(client[id], row)
        /\ client[id].lifecycle = "EXISTING_CLIENT" => row.lifecycle = "EXISTING_CLIENT"
  BY <1>1
<1>3. /\ client' \in Tables /\ DOMAIN client' = DOMAIN client
      /\ client'[id] = row /\ \A i \in DOMAIN client : i # id => client'[i] = client[i]
  BY <1>0, <1>2, SetRow
<1> QED BY <1>2, <1>3 DEF Relabelled, SameSummary

LEMMA ContactsAre ==
  ASSUME TypeOK, NEW e \in Events, contact' = ContactsAfter(e)
  PROVE  contact' \in Seq(Ids \X Directions \X Times)
<1>1. contact \in Seq(Ids \X Directions \X Times)
  BY TypesAre
<1>2. CASE e.op = "contact"
  <2>1. <<e.id, e.arg[1], e.arg[2]>> \in Ids \X Directions \X Times
    BY <1>2, EventsAre
  <2> QED BY <1>1, <1>2, <2>1, Add DEF ContactsAfter
<1>3. CASE e.op # "contact"
  BY <1>1, <1>3 DEF ContactsAfter
<1> QED BY <1>2, <1>3

\* The head of a queue that the cloud applies.
LEMMA PushIs ==
  ASSUME TypeOK, Grounded, NEW d \in Device, Push(d), NEW e, e = outbox[d][1]
  PROVE  /\ e \in Events /\ 1 \in DOMAIN outbox[d] /\ outbox[d] # <<>>
         /\ e.op # "register" => e.id \in DOMAIN client
         /\ client' = Applied(client, e, PushedOver) /\ contact' = ContactsAfter(e)
         /\ outbox' = [outbox EXCEPT ![d] = Tail(outbox[d])] /\ copy' = copy
<1>1. outbox[d] \in Seq(Events) /\ outbox[d] # <<>> /\ DOMAIN outbox[d] \subseteq Nat
      /\ \A k \in DOMAIN outbox[d] : outbox[d][k] \in Events
  BY TypesAre DEF Push
<1>2. Head(outbox[d]) = e /\ 1 \in DOMAIN outbox[d]
  BY <1>1, Rest
<1>3. e.op # "register" => e.id \in DOMAIN client
  <2>1. DOMAIN outbox[d] = 1 .. Len(outbox[d])
    BY <1>1, LenProperties
  <2>2. ~ \E j \in DOMAIN outbox[d] : j < 1
    BY <2>1
  <2> QED BY <2>2, <1>2 DEF Grounded
<1> QED BY <1>1, <1>2, <1>3 DEF Push

LEMMA PullIs ==
  ASSUME TypeOK, EventsHaveRows, NEW d \in Device, Pull(d)
  PROVE  /\ Unsent(d) \subseteq DOMAIN copy[d]
         /\ copy' = [copy EXCEPT ![d] = copy'[d]] /\ copy'[d] \in Tables
         /\ DOMAIN copy'[d] = DOMAIN client \cup Unsent(d)
         /\ \A i \in DOMAIN copy'[d] : copy'[d][i] = IF i \in Unsent(d) THEN copy[d][i] ELSE client[i]
         /\ UNCHANGED <<client, contact, outbox, webTag, registry, deviceTag>>
<1> DEFINE rows == [i \in DOMAIN client \cup (DOMAIN copy[d] \cap Unsent(d)) |->
                      IF i \in Unsent(d) THEN copy[d][i] ELSE client[i]]
<1>1. copy' = [copy EXCEPT ![d] = rows] /\ copy \in [Device -> Tables]
  BY DEF Pull, TypeOK
<1>2. Unsent(d) \subseteq DOMAIN copy[d]
  BY DEF Unsent, EventsHaveRows
<1>3. /\ DOMAIN client \subseteq Ids /\ DOMAIN copy[d] \subseteq Ids
      /\ \A i \in DOMAIN client : client[i] \in Row
      /\ \A i \in DOMAIN copy[d] : copy[d][i] \in Row
  BY TypesAre
<1>4. /\ DOMAIN rows = DOMAIN client \cup Unsent(d)
      /\ \A i \in DOMAIN rows : rows[i] = IF i \in Unsent(d) THEN copy[d][i] ELSE client[i]
      /\ rows = [i \in DOMAIN rows |-> rows[i]]
  BY <1>2
<1> HIDE DEF rows
<1>5. rows \in Tables
  BY <1>2, <1>3, <1>4, TableIs
<1>6. copy'[d] = rows
  BY <1>1
<1>7. UNCHANGED <<client, contact, outbox, webTag, registry, deviceTag>>
  BY DEF Pull, cloud
<1> QED BY <1>1, <1>2, <1>4, <1>5, <1>6, <1>7

LEMMA TypeStep ==
  ASSUME Inv, [Next]_vars
  PROVE  TypeOK'
<1>0. TypeOK /\ Grounded /\ EventsHaveRows
  BY DEF Inv, QueueInv
<1>1. CASE UNCHANGED vars
  BY <1>0, <1>1 DEF TypeOK, vars, cloud, device
<1>2. CASE WebWrites
  <2>1. PICK e \in Events : /\ FormOf(e, client, webTag)
                           /\ client' = Applied(client, e, Edited) /\ contact' = ContactsAfter(e)
    BY <1>0, <1>2, WebWritesIs
  <2>2. client' \in Tables
    BY <2>1, <1>0, TypesAre, AppliedIs DEF FormOf
  <2>3. contact' \in Seq(Ids \X Directions \X Times)
    BY <2>1, <1>0, ContactsAre
  <2> QED BY <1>0, <1>2, <2>2, <2>3 DEF TypeOK, WebWrites, device
<1>3. CASE ImportClients
  <2>1. client' \in Tables
    BY <1>0, <1>3, ImportClientsIs
  <2> QED BY <1>0, <1>3, <2>1 DEF TypeOK, ImportClients, device
<1>4. CASE SaveClientCodeSettings
  BY <1>0, <1>4 DEF TypeOK, SaveClientCodeSettings, device
<1>5. CASE ImportSheet \/ HandOverToCrm \/ LifecycleFromSamples
  <2>1. client' \in Tables
    BY <1>0, <1>5, RelabelledIs DEF Relabelled
  <2> QED BY <1>0, <1>5, <2>1 DEF TypeOK, ImportSheet, HandOverToCrm, LifecycleFromSamples, device
<1>6. ASSUME NEW d \in Device, DeviceWrites(d)
      PROVE  TypeOK'
  <2>1. PICK e \in Events : /\ FormOf(e, copy[d], deviceTag[d])
                           /\ copy' = [copy EXCEPT ![d] = Applied(copy[d], e, Edited)]
                           /\ outbox' = [outbox EXCEPT ![d] = Append(outbox[d], e)]
    BY <1>0, <1>6, DeviceWritesIs
  <2>2. Applied(copy[d], e, Edited) \in Tables
    BY <2>1, <1>0, TypesAre, AppliedIs DEF FormOf
  <2>3. Append(outbox[d], e) \in Seq(Events)
    BY <1>0, TypesAre, Add
  <2>4. copy' \in [Device -> Tables] /\ outbox' \in [Device -> Seq(Events)]
    BY <1>0, <2>1, <2>2, <2>3 DEF TypeOK
  <2> QED BY <1>0, <1>6, <2>4 DEF TypeOK, DeviceWrites, cloud
<1>7. ASSUME NEW d \in Device, Push(d)
      PROVE  TypeOK'
  <2> DEFINE e == outbox[d][1]
  <2>1. /\ e \in Events /\ outbox[d] # <<>>
        /\ e.op # "register" => e.id \in DOMAIN client
        /\ client' = Applied(client, e, PushedOver) /\ contact' = ContactsAfter(e)
        /\ outbox' = [outbox EXCEPT ![d] = Tail(outbox[d])]
    BY <1>0, <1>7, PushIs
  <2> HIDE DEF e
  <2>2. client' \in Tables
    BY <2>1, <1>0, TypesAre, AppliedIs
  <2>3. contact' \in Seq(Ids \X Directions \X Times)
    BY <2>1, <1>0, ContactsAre
  <2>4. Tail(outbox[d]) \in Seq(Events)
    BY <1>0, <2>1, TypesAre, Rest
  <2>5. outbox' \in [Device -> Seq(Events)]
    BY <1>0, <2>1, <2>4 DEF TypeOK
  <2> QED BY <1>0, <1>7, <2>2, <2>3, <2>5 DEF TypeOK, Push
<1>8. ASSUME NEW d \in Device, Pull(d)
      PROVE  TypeOK'
  <2>1. copy' = [copy EXCEPT ![d] = copy'[d]] /\ copy'[d] \in Tables
    BY <1>0, <1>8, PullIs
  <2>2. copy' \in [Device -> Tables]
    BY <2>1, <1>0 DEF TypeOK
  <2> QED BY <1>0, <1>8, <2>2 DEF TypeOK, Pull, cloud
<1>9. ASSUME NEW d \in Device, EnsureDeviceTag(d)
      PROVE  TypeOK'
  <2>1. FreeTag(d) \in Tags \cup {None}
    BY FreeTagIs
  <2>2. registry' \in [Device -> Tags \cup {None}]
    BY <2>1, <1>0, <1>9 DEF TypeOK, EnsureDeviceTag
  <2>3. deviceTag' \in [Device -> Tags \cup {None}]
    BY <2>2, <1>0, <1>9 DEF TypeOK, EnsureDeviceTag
  <2> QED BY <1>0, <1>9, <2>2, <2>3 DEF TypeOK, EnsureDeviceTag
<1> QED BY <1>1, <1>2, <1>3, <1>4, <1>5, <1>6, <1>7, <1>8, <1>9 DEF Next

---------------------------------------------------------------------------
(* The queues are kept in order *)

\* The cloud keeps its clients and may get some that no desk knows.
CloudGrows ==
  /\ DOMAIN client \subseteq DOMAIN client' /\ \A i \in DOMAIN client' : i \in DOMAIN client \/ i \notin Known
  /\ UNCHANGED <<copy, outbox>>

LEMMA QueueCloud ==
  ASSUME Inv, CloudGrows
  PROVE  QueueInv'
<1>1. \A d \in Device : DOMAIN copy[d] \subseteq Known
  BY TypesAre DEF Inv
<1>2. EventsHaveRows'
  BY DEF Inv, QueueInv, EventsHaveRows, CloudGrows
<1>3. WaitingIsNew'
  BY <1>1 DEF Inv, QueueInv, EventsHaveRows, WaitingIsNew, CloudGrows
<1>4. Grounded'
  BY DEF Inv, QueueInv, Grounded, CloudGrows, Registers
<1>5. CopiesAreKnown'
  BY DEF Inv, QueueInv, CopiesAreKnown, CloudGrows, Registers
<1>6. WaitingIsNewborn'
  BY DEF Inv, QueueInv, WaitingIsNewborn, CloudGrows, Newborn
<1> QED BY <1>2, <1>3, <1>4, <1>5, <1>6 DEF QueueInv

LEMMA WebGrows ==
  ASSUME TypeOK, WebWrites \/ ImportClients \/ ImportSheet \/ HandOverToCrm \/ LifecycleFromSamples
  PROVE  CloudGrows
<1>0. client \in Tables
  BY TypesAre
<1>1. CASE WebWrites
  <2>1. PICK e \in Events : FormOf(e, client, webTag) /\ client' = Applied(client, e, Edited)
    BY <1>1, WebWritesIs
  <2>2. DOMAIN client' = DOMAIN client \cup {e.id}
    BY <2>1, <1>0, AppliedIs DEF FormOf
  <2> QED BY <1>1, <2>1, <2>2 DEF CloudGrows, WebWrites, FormOf, device
<1>2. CASE ImportClients
  <2>1. PICK events \in Imports(client, webTag) : DOMAIN client' = DOMAIN client \cup {e.id : e \in events}
    BY <1>2, ImportClientsIs
  <2>2. \A e \in events : e.id \notin Known
    BY <1>0, TypesAre, ImportIs
  <2> QED BY <1>2, <2>1, <2>2 DEF CloudGrows, ImportClients, device
<1>3. CASE ImportSheet \/ HandOverToCrm \/ LifecycleFromSamples
  <2>1. DOMAIN client' = DOMAIN client
    BY <1>3, RelabelledIs DEF Relabelled
  <2> QED BY <1>3, <2>1 DEF CloudGrows, ImportSheet, HandOverToCrm, LifecycleFromSamples, device
<1> QED BY <1>1, <1>2, <1>3

LEMMA QueueDeviceWrites ==
  ASSUME Inv, NEW d \in Device, DeviceWrites(d)
  PROVE  QueueInv'
<1>0. TypeOK /\ EventsHaveRows /\ WaitingIsNew /\ Grounded /\ CopiesAreKnown /\ WaitingIsNewborn
  BY DEF Inv, QueueInv
<1>1. PICK e \in Events : /\ FormOf(e, copy[d], deviceTag[d])
                         /\ copy' = [copy EXCEPT ![d] = Applied(copy[d], e, Edited)]
                         /\ outbox' = [outbox EXCEPT ![d] = Append(outbox[d], e)]
  BY <1>0, DeviceWritesIs
<1>2. /\ copy[d] \in Tables /\ outbox[d] \in Seq(Events) /\ \A x \in Device : DOMAIN copy[x] \subseteq Known
      /\ DOMAIN client \subseteq Known
  BY <1>0, TypesAre
<1>3. /\ DOMAIN copy' = Device /\ DOMAIN outbox' = Device
      /\ copy'[d] = Applied(copy[d], e, Edited) /\ \A x \in Device : x # d => copy'[x] = copy[x]
      /\ outbox'[d] = Append(outbox[d], e) /\ \A x \in Device : x # d => outbox'[x] = outbox[x]
  BY <1>0, <1>1 DEF TypeOK
<1>4. /\ DOMAIN copy'[d] = DOMAIN copy[d] \cup {e.id}
      /\ \A i \in DOMAIN copy[d] : i # e.id => copy'[d][i] = copy[d][i]
      /\ e.op = "register" => copy'[d][e.id] = e.arg
      /\ e.op # "register" => copy'[d][e.id].code = copy[d][e.id].code
  <2> DEFINE new == Applied(copy[d], e, Edited)
  <2>1. e.op # "register" => e.id \in DOMAIN copy[d]
    BY <1>1 DEF FormOf
  <2>2. /\ DOMAIN new = DOMAIN copy[d] \cup {e.id}
        /\ \A i \in DOMAIN copy[d] : i # e.id => new[i] = copy[d][i]
        /\ e.op = "register" => new[e.id] = e.arg
        /\ e.op # "register" => SameClient(copy[d][e.id], new[e.id])
    <3>1. PICK rows \in Tables : rows = copy[d]
      BY <1>2
    <3>2. e \in Events /\ (e.op # "register" => e.id \in DOMAIN rows) /\ new = Applied(rows, e, Edited)
      BY <2>1, <3>1
    <3> HIDE DEF new
    <3>3. /\ DOMAIN new = DOMAIN rows \cup {e.id}
          /\ \A i \in DOMAIN rows : i # e.id => new[i] = rows[i]
          /\ e.op = "register" => new[e.id] = e.arg
          /\ e.op # "register" => SameClient(rows[e.id], new[e.id])
      BY ONLY <3>1, <3>2, AppliedIs
    <3> QED BY <3>1, <3>3
  <2> HIDE DEF new
  <2>3. copy'[d] = new
    BY <1>3 DEF new
  <2> QED BY <2>2, <2>3 DEF SameClient
<1> DEFINE n == Len(outbox[d]) + 1
<1>5. /\ DOMAIN outbox'[d] = DOMAIN outbox[d] \cup {n} /\ n \notin DOMAIN outbox[d]
      /\ DOMAIN outbox[d] = 1 .. Len(outbox[d]) /\ Len(outbox[d]) \in Nat
      /\ outbox'[d][n] = e /\ \A k \in DOMAIN outbox[d] : outbox'[d][k] = outbox[d][k]
  BY <1>2, <1>3, Add, LenProperties
<1> HIDE DEF n
<1>6. /\ e.op = "register" => e.id \notin Known /\ Newborn(e.arg)
      /\ e.op # "register" => e.id \in DOMAIN copy[d]
  BY <1>1 DEF FormOf
<1>7. client' = client
  BY DEF DeviceWrites, cloud
<1>8. EventsHaveRows'
  <2>1. \A k \in DOMAIN outbox'[d] : outbox'[d][k].id \in DOMAIN copy'[d]
    BY <1>0, <1>4, <1>5 DEF EventsHaveRows
  <2>2. \A x \in Device : x # d => \A k \in DOMAIN outbox'[x] : outbox'[x][k].id \in DOMAIN copy'[x]
    BY <1>0, <1>3 DEF EventsHaveRows
  <2> QED BY <2>1, <2>2 DEF EventsHaveRows
<1>9. \A x \in Device : \A k \in DOMAIN outbox[x] : outbox[x][k].id \in Known
  BY <1>0, <1>2 DEF EventsHaveRows
<1>10. WaitingIsNew'
  <2>1. \A x \in Device : \A k \in DOMAIN outbox'[x] :
          outbox'[x][k].op = "register" => outbox'[x][k].id \notin DOMAIN client
    <3>1. \A x \in Device : x # d => \A k \in DOMAIN outbox'[x] :
            outbox'[x][k].op = "register" => outbox'[x][k].id \notin DOMAIN client
      BY <1>0, <1>3 DEF WaitingIsNew
    <3>2. \A k \in DOMAIN outbox'[d] : outbox'[d][k].op = "register" => outbox'[d][k].id \notin DOMAIN client
      BY <1>0, <1>2, <1>5, <1>6 DEF WaitingIsNew
    <3> QED BY <3>1, <3>2
  <2>2. ASSUME NEW x \in Device, NEW y \in Device, NEW k \in DOMAIN outbox'[x], NEW l \in DOMAIN outbox'[y],
               outbox'[x][k].op = "register", outbox'[y][l].op = "register", outbox'[x][k].id = outbox'[y][l].id
        PROVE  x = y /\ k = l
    <3>1. \/ x = d /\ k = n /\ outbox'[x][k] = e
          \/ k \in DOMAIN outbox[x] /\ outbox'[x][k] = outbox[x][k]
      BY <1>3, <1>5
    <3>2. \/ y = d /\ l = n /\ outbox'[y][l] = e
          \/ l \in DOMAIN outbox[y] /\ outbox'[y][l] = outbox[y][l]
      BY <1>3, <1>5
    <3> QED BY <3>1, <3>2, <2>2, <1>0, <1>6, <1>9 DEF WaitingIsNew
  <2> QED BY <2>1, <2>2, <1>7 DEF WaitingIsNew
<1>11. Grounded'
  <2>1. \A x \in Device : x # d => \A k \in DOMAIN outbox'[x] :
          \/ outbox'[x][k].op = "register" \/ outbox'[x][k].id \in DOMAIN client
          \/ \E j \in DOMAIN outbox'[x] : j < k /\ Registers(outbox'[x], j, outbox'[x][k].id)
    BY <1>0, <1>3 DEF Grounded
  <2>2. ASSUME NEW k \in DOMAIN outbox[d]
        PROVE  \/ outbox'[d][k].op = "register" \/ outbox'[d][k].id \in DOMAIN client
               \/ \E j \in DOMAIN outbox'[d] : j < k /\ Registers(outbox'[d], j, outbox'[d][k].id)
    BY <1>0, <1>5 DEF Grounded, Registers
  <2>3. \/ e.op = "register" \/ e.id \in DOMAIN client
        \/ \E j \in DOMAIN outbox'[d] : j < n /\ Registers(outbox'[d], j, e.id)
    <3>1. SUFFICES ASSUME e.op # "register", e.id \notin DOMAIN client
                   PROVE  \E j \in DOMAIN outbox'[d] : j < n /\ Registers(outbox'[d], j, e.id)
      OBVIOUS
    <3>2. PICK j \in DOMAIN outbox[d] : Registers(outbox[d], j, e.id)
      BY <3>1, <1>0, <1>6 DEF CopiesAreKnown
    <3>3. j < n
      BY <1>5 DEF n
    <3> QED BY <3>2, <3>3, <1>5 DEF Registers
  <2>4. \A k \in DOMAIN outbox'[d] :
          \/ outbox'[d][k].op = "register" \/ outbox'[d][k].id \in DOMAIN client
          \/ \E j \in DOMAIN outbox'[d] : j < k /\ Registers(outbox'[d], j, outbox'[d][k].id)
    BY <2>2, <2>3, <1>5
  <2> QED BY <2>1, <2>4, <1>7 DEF Grounded, Registers
<1>12. CopiesAreKnown'
  <2>1. \A x \in Device : x # d => \A i \in DOMAIN copy'[x] :
          i \in DOMAIN client \/ \E k \in DOMAIN outbox'[x] : Registers(outbox'[x], k, i)
    BY <1>0, <1>3 DEF CopiesAreKnown
  <2>2. ASSUME NEW i \in DOMAIN copy[d]
        PROVE  i \in DOMAIN client \/ \E k \in DOMAIN outbox'[d] : Registers(outbox'[d], k, i)
    BY <1>0, <1>5 DEF CopiesAreKnown, Registers
  <2>3. e.id \in DOMAIN copy[d] \/ Registers(outbox'[d], n, e.id)
    BY <1>5, <1>6 DEF Registers
  <2>4. \A i \in DOMAIN copy'[d] :
          i \in DOMAIN client \/ \E k \in DOMAIN outbox'[d] : Registers(outbox'[d], k, i)
    BY <2>2, <2>3, <1>4, <1>5
  <2> QED BY <2>1, <2>4, <1>7 DEF CopiesAreKnown, Registers
<1>13. WaitingIsNewborn'
  <2> DEFINE Fine(r, row) == Newborn(r) /\ r.code = row.code
  <2>1. \A x \in Device : x # d => \A k \in DOMAIN outbox'[x] : outbox'[x][k].op = "register" =>
          Fine(outbox'[x][k].arg, copy'[x][outbox'[x][k].id])
    BY <1>0, <1>3 DEF WaitingIsNewborn
  <2>2. ASSUME NEW k \in DOMAIN outbox[d], outbox[d][k].op = "register"
        PROVE  Fine(outbox[d][k].arg, copy'[d][outbox[d][k].id])
    <3>1. Fine(outbox[d][k].arg, copy[d][outbox[d][k].id]) /\ outbox[d][k].id \in DOMAIN copy[d]
      BY <2>2, <1>0 DEF WaitingIsNewborn, EventsHaveRows
    <3>2. copy'[d][outbox[d][k].id].code = copy[d][outbox[d][k].id].code
      BY <3>1, <1>2, <1>4, <1>6
    <3> QED BY <3>1, <3>2
  <2>3. e.op = "register" => Fine(e.arg, copy'[d][e.id])
    BY <1>4, <1>6
  <2> HIDE DEF Fine
  <2>4. \A k \in DOMAIN outbox'[d] : outbox'[d][k].op = "register" =>
          Fine(outbox'[d][k].arg, copy'[d][outbox'[d][k].id])
    BY <2>2, <2>3, <1>5
  <2> QED BY <2>1, <2>4 DEF WaitingIsNewborn, Fine, Newborn
<1> QED BY <1>8, <1>10, <1>11, <1>12, <1>13 DEF QueueInv

LEMMA QueuePush ==
  ASSUME Inv, NEW d \in Device, Push(d)
  PROVE  QueueInv'
<1> DEFINE e == outbox[d][1]
<1>0. TypeOK /\ EventsHaveRows /\ WaitingIsNew /\ Grounded /\ CopiesAreKnown /\ WaitingIsNewborn
  BY DEF Inv, QueueInv
<1>1. /\ e \in Events /\ 1 \in DOMAIN outbox[d] /\ outbox[d] # <<>>
      /\ e.op # "register" => e.id \in DOMAIN client
      /\ client' = Applied(client, e, PushedOver)
      /\ outbox' = [outbox EXCEPT ![d] = Tail(outbox[d])] /\ copy' = copy
  BY <1>0, PushIs
<1> HIDE DEF e
<1>2. client \in Tables /\ outbox[d] \in Seq(Events) /\ outbox \in [Device -> Seq(Events)]
  BY <1>0, TypesAre DEF TypeOK
<1>3. DOMAIN client' = DOMAIN client \cup {e.id}
  <2>1. e \in Events /\ (e.op # "register" => e.id \in DOMAIN client) /\ client' = Applied(client, e, PushedOver)
    BY <1>1
  <2>2. client \in Tables
    BY <1>2
  <2> QED BY ONLY <2>1, <2>2, AppliedIs
<1>4. /\ DOMAIN outbox'[d] \subseteq Nat /\ DOMAIN outbox[d] \subseteq Nat
      /\ \A k \in DOMAIN outbox'[d] : k + 1 \in DOMAIN outbox[d] /\ k + 1 # 1 /\ outbox'[d][k] = outbox[d][k + 1]
      /\ \A k \in DOMAIN outbox[d] : k # 1 => k - 1 \in DOMAIN outbox'[d] /\ outbox'[d][k - 1] = outbox[d][k]
  <2>1. outbox'[d] = Tail(outbox[d])
    BY <1>1, <1>2
  <2> QED BY <2>1, <1>1, <1>2, Rest
<1>5. \A x \in Device : x # d => outbox'[x] = outbox[x]
  BY <1>1, <1>2
\* Where an event stood before.
<1> DEFINE was(x, k) == IF x = d THEN k + 1 ELSE k
<1>6. \A x \in Device : \A k \in DOMAIN outbox'[x] :
        /\ was(x, k) \in DOMAIN outbox[x] /\ outbox'[x][k] = outbox[x][was(x, k)]
        /\ x = d => was(x, k) # 1
  BY <1>4, <1>5
<1>7. \A x \in Device : \A k, l \in DOMAIN outbox'[x] : was(x, k) = was(x, l) => k = l
  BY <1>4
<1>8. EventsHaveRows'
  <2> HIDE DEF was
  <2> QED BY <1>0, <1>1, <1>6 DEF EventsHaveRows
<1>9. WaitingIsNew'
  <2> HIDE DEF was
  <2>1. ASSUME NEW x \in Device, NEW k \in DOMAIN outbox'[x], outbox'[x][k].op = "register"
        PROVE  outbox'[x][k].id \notin DOMAIN client'
    <3>1. outbox'[x][k].id \notin DOMAIN client
      BY <2>1, <1>0, <1>6 DEF WaitingIsNew
    <3>2. outbox'[x][k].id # e.id
      <4>1. CASE e.op = "register"
        <5>1. ~ (x = d /\ was(x, k) = 1)
          BY <1>6
        <5> QED BY <5>1, <4>1, <2>1, <1>0, <1>1, <1>6 DEF WaitingIsNew, e
      <4>2. CASE e.op # "register"
        BY <4>2, <3>1, <1>1
      <4> QED BY <4>1, <4>2
    <3> QED BY <3>1, <3>2, <1>3
  <2>2. ASSUME NEW x \in Device, NEW y \in Device, NEW k \in DOMAIN outbox'[x], NEW l \in DOMAIN outbox'[y],
               outbox'[x][k].op = "register", outbox'[y][l].op = "register", outbox'[x][k].id = outbox'[y][l].id
        PROVE  x = y /\ k = l
    <3>1. x = y /\ was(x, k) = was(y, l)
      BY <2>2, <1>0, <1>6 DEF WaitingIsNew
    <3> QED BY <3>1, <1>7
  <2> QED BY <2>1, <2>2 DEF WaitingIsNew
<1>10. Grounded'
  <2>1. ASSUME NEW x \in Device, x # d, NEW k \in DOMAIN outbox'[x]
        PROVE  \/ outbox'[x][k].op = "register" \/ outbox'[x][k].id \in DOMAIN client'
               \/ \E j \in DOMAIN outbox'[x] : j < k /\ Registers(outbox'[x], j, outbox'[x][k].id)
    BY <2>1, <1>0, <1>3, <1>5 DEF Grounded
  <2>2. ASSUME NEW k \in DOMAIN outbox'[d], outbox'[d][k].op # "register", outbox'[d][k].id \notin DOMAIN client'
        PROVE  \E j \in DOMAIN outbox'[d] : j < k /\ Registers(outbox'[d], j, outbox'[d][k].id)
    <3>1. k + 1 \in DOMAIN outbox[d] /\ outbox'[d][k] = outbox[d][k + 1] /\ k \in Nat
      BY <1>4
    <3>2. PICK j \in DOMAIN outbox[d] : j < k + 1 /\ Registers(outbox[d], j, outbox[d][k + 1].id)
      BY <3>1, <2>2, <1>0, <1>3 DEF Grounded
    <3>3. j # 1
      BY <3>1, <3>2, <2>2, <1>3 DEF Registers, e
    <3>4. j - 1 \in DOMAIN outbox'[d] /\ outbox'[d][j - 1] = outbox[d][j] /\ j \in Nat
      BY <3>2, <3>3, <1>4
    <3>5. j - 1 < k
      BY <3>1, <3>2, <3>4
    <3> QED BY <3>1, <3>2, <3>4, <3>5 DEF Registers
  <2> QED BY <2>1, <2>2 DEF Grounded, Registers
<1>11. CopiesAreKnown'
  <2>1. ASSUME NEW x \in Device, NEW i \in DOMAIN copy[x], i \notin DOMAIN client'
        PROVE  \E k \in DOMAIN outbox'[x] : Registers(outbox'[x], k, i)
    <3>1. PICK k \in DOMAIN outbox[x] : Registers(outbox[x], k, i)
      BY <2>1, <1>0, <1>3 DEF CopiesAreKnown
    <3>2. CASE x # d
      BY <3>1, <3>2, <1>5
    <3>3. CASE x = d
      <4>1. k # 1
        BY <3>1, <3>3, <2>1, <1>3 DEF Registers, e
      <4>2. k - 1 \in DOMAIN outbox'[d] /\ outbox'[d][k - 1] = outbox[d][k]
        BY <4>1, <3>3, <1>4
      <4> QED BY <3>1, <3>3, <4>2 DEF Registers
    <3> QED BY <3>2, <3>3
  <2> QED BY <2>1, <1>1 DEF CopiesAreKnown, Registers
<1>12. WaitingIsNewborn'
  <2> HIDE DEF was
  <2> QED BY <1>0, <1>1, <1>6 DEF WaitingIsNewborn, Newborn
<1> QED BY <1>8, <1>9, <1>10, <1>11, <1>12 DEF QueueInv

LEMMA QueuePull ==
  ASSUME Inv, NEW d \in Device, Pull(d)
  PROVE  QueueInv'
<1>0. TypeOK /\ EventsHaveRows /\ WaitingIsNew /\ Grounded /\ CopiesAreKnown /\ WaitingIsNewborn
  BY DEF Inv, QueueInv
<1>1. /\ Unsent(d) \subseteq DOMAIN copy[d] /\ copy' = [copy EXCEPT ![d] = copy'[d]]
      /\ DOMAIN copy'[d] = DOMAIN client \cup Unsent(d)
      /\ \A i \in DOMAIN copy'[d] : copy'[d][i] = IF i \in Unsent(d) THEN copy[d][i] ELSE client[i]
      /\ client' = client /\ outbox' = outbox
  BY <1>0, PullIs
<1>2. \A x \in Device : x # d => copy'[x] = copy[x]
  BY <1>0, <1>1 DEF TypeOK
<1>3. \A k \in DOMAIN outbox[d] : outbox[d][k].op # "contact" => outbox[d][k].id \in Unsent(d)
  BY DEF Unsent
<1>4. EventsHaveRows'
  <2>1. ASSUME NEW k \in DOMAIN outbox[d]
        PROVE  outbox[d][k].id \in DOMAIN copy'[d]
    <3>1. CASE outbox[d][k].op # "contact"
      BY <3>1, <1>1, <1>3
    <3>2. CASE outbox[d][k].op = "contact" /\ outbox[d][k].id \notin DOMAIN client
      <4>1. PICK j \in DOMAIN outbox[d] : Registers(outbox[d], j, outbox[d][k].id)
        BY <3>2, <1>0 DEF Grounded
      <4> QED BY <4>1, <1>1, <1>3 DEF Registers
    <3> QED BY <3>1, <3>2, <1>1
  <2> QED BY <2>1, <1>0, <1>1, <1>2 DEF EventsHaveRows
<1>5. WaitingIsNew' /\ Grounded'
  BY <1>0, <1>1 DEF WaitingIsNew, Grounded, Registers
<1>6. CopiesAreKnown'
  <2>1. ASSUME NEW i \in DOMAIN copy'[d], i \notin DOMAIN client
        PROVE  \E k \in DOMAIN outbox[d] : Registers(outbox[d], k, i)
    <3>1. i \in DOMAIN copy[d]
      BY <2>1, <1>1
    <3> QED BY <2>1, <3>1, <1>0 DEF CopiesAreKnown
  <2> QED BY <2>1, <1>0, <1>1, <1>2 DEF CopiesAreKnown, Registers
<1>7. WaitingIsNewborn'
  <2>1. ASSUME NEW k \in DOMAIN outbox[d], outbox[d][k].op = "register"
        PROVE  copy'[d][outbox[d][k].id] = copy[d][outbox[d][k].id]
    BY <2>1, <1>1, <1>3
  <2> QED BY <2>1, <1>0, <1>1, <1>2 DEF WaitingIsNewborn, Newborn
<1> QED BY <1>4, <1>5, <1>6, <1>7 DEF QueueInv

LEMMA QueueStep ==
  ASSUME Inv, [Next]_vars
  PROVE  QueueInv'
<1>0. TypeOK /\ QueueInv
  BY DEF Inv
<1>1. CASE client' = client /\ outbox' = outbox /\ copy' = copy
  BY <1>0, <1>1 DEF QueueInv, EventsHaveRows, WaitingIsNew, Grounded, CopiesAreKnown, WaitingIsNewborn, Registers, Newborn
<1>2. CASE WebWrites \/ ImportClients \/ ImportSheet \/ HandOverToCrm \/ LifecycleFromSamples
  BY <1>0, <1>2, WebGrows, QueueCloud
<1>3. ASSUME NEW d \in Device, DeviceWrites(d) \/ Push(d) \/ Pull(d)
      PROVE  QueueInv'
  BY <1>3, QueueDeviceWrites, QueuePush, QueuePull
<1>4. CASE SaveClientCodeSettings
  BY <1>1, <1>4 DEF SaveClientCodeSettings, device
<1>5. ASSUME NEW d \in Device, EnsureDeviceTag(d)
      PROVE  QueueInv'
  BY <1>1, <1>5 DEF EnsureDeviceTag
<1>6. CASE UNCHANGED vars
  BY <1>1, <1>6 DEF vars, cloud, device
<1> QED BY <1>2, <1>3, <1>4, <1>5, <1>6 DEF Next

LEMMA Start ==
  ASSUME Init
  PROVE  Inv
<1>1. TypeOK
  <2>1. <<>> \in Tables
    <3>1. DOMAIN <<>> = {} /\ <<>> = [i \in DOMAIN <<>> |-> <<>>[i]]
      OBVIOUS
    <3> QED BY <3>1, TableIs
  <2> QED BY <2>1, ClientsAssumption DEF Init, TypeOK
<1>2. \A d \in Device : DOMAIN outbox[d] = {} /\ DOMAIN copy[d] = {}
  BY DEF Init
<1>3. QueueInv
  BY <1>2 DEF QueueInv, EventsHaveRows, WaitingIsNew, Grounded, CopiesAreKnown, WaitingIsNewborn
<1> QED BY <1>1, <1>3 DEF Inv

LEMMA Always == Spec => []Inv
<1>1. Inv /\ [Next]_vars => Inv'
  BY TypeStep, QueueStep DEF Inv
<1> QED BY Start, <1>1, PTL DEF Spec

\* Every variable of Clients keeps its type.
THEOREM TypeCorrect == Spec => []TypeOK
<1>1. Inv => TypeOK
  BY DEF Inv
<1> QED BY Always, <1>1, PTL

---------------------------------------------------------------------------
(* The summary of a lead *)

Of(c, i, direction) == {k \in DOMAIN c : c[k][1] = i /\ c[k][2] = direction}
TimesOf(c, i, direction) == {c[k][3] : k \in Of(c, i, direction)}
Latest(T, t) == t \in T /\ \A u \in T : u <= t

Sums(c, i, row) ==
  /\ row.total_followups = Cardinality(Of(c, i, "OUTBOUND"))
  /\ Latest(TimesOf(c, i, "OUTBOUND") \cup {0}, row.last_followup)
  /\ Latest(TimesOf(c, i, "INBOUND") \cup {row.created}, row.last_response)

LEMMA SummaryIs == SummaryMatches <=> \A i \in DOMAIN client : Sums(contact, i, client[i])
BY DEF SummaryMatches, Sums, Of, TimesOf, Latest

\* A contact is one of a client.
ContactsKnown == \A k \in DOMAIN contact : contact[k][1] \in DOMAIN client

ContactRows == Ids \X Directions \X Times

LEMMA RowTimes ==
  ASSUME NEW row \in Row
  PROVE  /\ row.last_followup \in Nat /\ row.last_response \in Nat /\ row.created \in Nat
         /\ row.total_followups \in Nat
<1>1. row.last_followup \in Times \cup {0} /\ row.last_response \in Times \cup {0} /\ row.created \in Times
      /\ row.total_followups \in Nat
  BY DEF Row
<1>2. Times \cup {0} \subseteq Nat /\ Times \subseteq Nat
  BY ClientsAssumption
<1>3. row.last_followup \in Nat
  BY ONLY <1>1, <1>2
<1>4. row.last_response \in Nat
  BY ONLY <1>1, <1>2
<1>5. row.created \in Nat
  BY ONLY <1>1, <1>2
<1> QED BY <1>1, <1>3, <1>4, <1>5

LEMMA NoContacts ==
  ASSUME NEW c, NEW i, \A k \in DOMAIN c : c[k][1] # i, NEW row \in Row, Newborn(row)
  PROVE  Sums(c, i, row)
<1>1. \A direction : Of(c, i, direction) = {}
  BY DEF Of
<1>2. \A direction : TimesOf(c, i, direction) = {}
  BY <1>1 DEF TimesOf
<1>3. row.created \in Nat
  BY ClientsAssumption DEF Row
<1> QED BY <1>1, <1>2, <1>3, FS_EmptySet DEF Sums, Latest, Newborn

LEMMA OfIs ==
  ASSUME NEW c \in Seq(ContactRows), NEW j, NEW way
  PROVE  /\ Of(c, j, way) \subseteq DOMAIN c /\ IsFiniteSet(Of(c, j, way)) /\ Cardinality(Of(c, j, way)) \in Nat
         /\ TimesOf(c, j, way) \subseteq Nat
<1>1. DOMAIN c = 1 .. Len(c) /\ Len(c) \in Nat /\ \A k \in DOMAIN c : c[k] \in ContactRows
  BY LenProperties, ElementOfSeq
<1>2. Of(c, j, way) \subseteq DOMAIN c
  BY DEF Of
<1>3. IsFiniteSet(Of(c, j, way)) /\ Cardinality(Of(c, j, way)) \in Nat
  <2>1. IsFiniteSet(DOMAIN c)
    BY <1>1, FS_Interval
  <2> QED BY <2>1, <1>2, FS_Subset, FS_CardinalityType
<1>4. \A s \in ContactRows : s[3] \in Times
  BY DEF ContactRows
<1>5. \A k \in DOMAIN c : c[k][3] \in Nat
  BY <1>1, <1>4, ClientsAssumption
<1>6. TimesOf(c, j, way) \subseteq Nat
  BY <1>2, <1>5 DEF TimesOf
<1> QED BY <1>2, <1>3, <1>6

LEMMA OthersAsBefore ==
  ASSUME NEW c \in Seq(ContactRows), NEW r \in ContactRows, NEW j, NEW way, j # r[1] \/ way # r[2]
  PROVE  /\ Of(Append(c, r), j, way) = Of(c, j, way)
         /\ TimesOf(Append(c, r), j, way) = TimesOf(c, j, way)
<1> DEFINE n == Len(c) + 1
           t == Append(c, r)
<1>1. /\ DOMAIN t = DOMAIN c \cup {n} /\ n \notin DOMAIN c
      /\ t[n] = r /\ \A k \in DOMAIN c : t[k] = c[k]
  BY Add
<1> HIDE DEF n, t
<1>2. Of(t, j, way) = Of(c, j, way) /\ Of(c, j, way) \subseteq DOMAIN c
  BY <1>1 DEF Of
<1>3. TimesOf(t, j, way) = TimesOf(c, j, way)
  BY <1>1, <1>2 DEF TimesOf
<1> QED BY <1>2, <1>3 DEF t

LEMMA OneMore ==
  ASSUME NEW c \in Seq(ContactRows), NEW r \in ContactRows
  PROVE  /\ Cardinality(Of(Append(c, r), r[1], r[2])) = Cardinality(Of(c, r[1], r[2])) + 1
         /\ TimesOf(Append(c, r), r[1], r[2]) = TimesOf(c, r[1], r[2]) \cup {r[3]}
<1> DEFINE n == Len(c) + 1
           t == Append(c, r)
           old == Of(c, r[1], r[2])
<1>1. /\ DOMAIN t = DOMAIN c \cup {n} /\ n \notin DOMAIN c
      /\ t[n] = r /\ \A k \in DOMAIN c : t[k] = c[k]
  BY Add
<1>2. old \subseteq DOMAIN c /\ IsFiniteSet(old)
  BY OfIs
<1> HIDE DEF n, t
<1>3. Of(t, r[1], r[2]) = old \cup {n} /\ n \notin old
  BY <1>1 DEF Of
<1> HIDE DEF old
<1>4. Cardinality(Of(t, r[1], r[2])) = Cardinality(old) + 1
  BY <1>2, <1>3, FS_AddElement
<1>5. TimesOf(t, r[1], r[2]) = {t[k][3] : k \in old} \cup {t[n][3]}
  BY <1>3 DEF TimesOf
<1>6. {t[k][3] : k \in old} = {c[k][3] : k \in old}
  BY <1>1, <1>2
<1> QED BY <1>1, <1>4, <1>5, <1>6 DEF TimesOf, old, t

LEMMA SumsAfter ==
  ASSUME NEW c \in Seq(ContactRows), NEW r \in ContactRows, NEW t, t = Append(c, r),
         NEW row \in Row, Sums(c, r[1], row), NEW new, new = Summarised(row, r[2], r[3])
  PROVE  Sums(t, r[1], new)
<1> DEFINE i == r[1]
           direction == r[2]
           at == r[3]
<1>1. at \in Times /\ direction \in Directions
  BY DEF ContactRows
<1>2. /\ \A way : TimesOf(c, i, way) \subseteq Nat
       /\ \A other : other # direction
            => Of(t, i, other) = Of(c, i, other) /\ TimesOf(t, i, other) = TimesOf(c, i, other)
       /\ Cardinality(Of(t, i, direction)) = Cardinality(Of(c, i, direction)) + 1
       /\ TimesOf(t, i, direction) = TimesOf(c, i, direction) \cup {at}
  BY OfIs, OthersAsBefore, OneMore
<1>3. new = Summarised(row, direction, at) /\ Sums(c, i, row)
  OBVIOUS
<1> HIDE DEF i, direction, at
<1>4. /\ new.created = row.created
      /\ new.total_followups = IF direction = "OUTBOUND" THEN row.total_followups + 1 ELSE row.total_followups
      /\ new.last_followup = IF direction = "OUTBOUND" /\ at > row.last_followup THEN at ELSE row.last_followup
      /\ new.last_response = IF direction = "INBOUND" /\ at > row.last_response THEN at ELSE row.last_response
  BY <1>1, <1>3, SummarisedIs DEF SameClient
<1>5. at \in Nat /\ row.last_followup \in Nat /\ row.last_response \in Nat /\ row.created \in Nat
  <2>1. at \in Nat
    BY ONLY <1>1, ClientsAssumption
  <2> QED BY <2>1, RowTimes
<1>6. ASSUME NEW T, T \subseteq Nat, NEW last \in Nat, Latest(T, last)
      PROVE  Latest(T \cup {at}, IF at > last THEN at ELSE last)
  BY <1>5, <1>6 DEF Latest
<1>7. TimesOf(c, i, "OUTBOUND") \cup {0} \subseteq Nat /\ TimesOf(c, i, "INBOUND") \cup {row.created} \subseteq Nat
  BY <1>5, <1>2
<1>8. CASE direction = "OUTBOUND"
  <2>1. /\ Cardinality(Of(t, i, "OUTBOUND")) = Cardinality(Of(c, i, "OUTBOUND")) + 1
        /\ TimesOf(t, i, "OUTBOUND") = TimesOf(c, i, "OUTBOUND") \cup {at}
        /\ TimesOf(t, i, "INBOUND") = TimesOf(c, i, "INBOUND")
    BY <1>8, <1>2
  <2>2. Latest((TimesOf(c, i, "OUTBOUND") \cup {0}) \cup {at}, new.last_followup)
    BY <1>3, <1>4, <1>5, <1>6, <1>7, <1>8 DEF Sums
  <2>3. (TimesOf(c, i, "OUTBOUND") \cup {0}) \cup {at} = TimesOf(t, i, "OUTBOUND") \cup {0}
    BY <2>1
  <2>4. new.last_response = row.last_response /\ new.total_followups = row.total_followups + 1
    BY <1>4, <1>8
  <2>5. Latest(TimesOf(t, i, "OUTBOUND") \cup {0}, new.last_followup)
    BY <2>2, <2>3
  <2> QED BY <1>3, <1>4, <2>1, <2>4, <2>5 DEF Sums, i
<1>9. CASE direction = "INBOUND"
  <2>1. /\ Of(t, i, "OUTBOUND") = Of(c, i, "OUTBOUND")
        /\ TimesOf(t, i, "INBOUND") = TimesOf(c, i, "INBOUND") \cup {at}
        /\ TimesOf(t, i, "OUTBOUND") = TimesOf(c, i, "OUTBOUND")
    BY <1>9, <1>2
  <2>2. Latest((TimesOf(c, i, "INBOUND") \cup {row.created}) \cup {at}, new.last_response)
    BY <1>3, <1>4, <1>5, <1>6, <1>7, <1>9 DEF Sums
  <2>3. (TimesOf(c, i, "INBOUND") \cup {row.created}) \cup {at} = TimesOf(t, i, "INBOUND") \cup {new.created}
    BY <1>4, <2>1
  <2>4. new.last_followup = row.last_followup /\ new.total_followups = row.total_followups
    BY <1>4, <1>9
  <2>5. Latest(TimesOf(t, i, "INBOUND") \cup {new.created}, new.last_response)
    BY <2>2, <2>3
  <2> QED BY <1>3, <2>1, <2>4, <2>5 DEF Sums, i
<1> QED BY <1>1, <1>8, <1>9 DEF Directions

\* What an event does to the summaries, from whichever desk it comes.
SummaryInv == ContactsKnown /\ \A i \in DOMAIN client : Sums(contact, i, client[i])

LEMMA SummaryEvent ==
  ASSUME TypeOK, SummaryInv, NEW e \in Events, e.op # "register" => e.id \in DOMAIN client,
         e.op = "register" => e.id \notin DOMAIN client /\ Newborn(e.arg),
         client' = Applied(client, e, Edited) \/ client' = Applied(client, e, PushedOver),
         contact' = ContactsAfter(e)
  PROVE  SummaryInv'
<1>1. client \in Tables /\ contact \in Seq(ContactRows) /\ \A i \in DOMAIN client : client[i] \in Row
  BY TypesAre DEF ContactRows
<1>2. /\ DOMAIN client' = DOMAIN client \cup {e.id}
      /\ \A i \in DOMAIN client : i # e.id => client'[i] = client[i]
      /\ e.op = "register" => client'[e.id] = e.arg
      /\ e.op # "register" => SameClient(client[e.id], client'[e.id])
      /\ e.op \in {"update", "assign-crm"} => SameSummary(client[e.id], client'[e.id])
      /\ e.op = "contact" => client'[e.id] = Summarised(client[e.id], e.arg[1], e.arg[2])
  <2>1. PICK rows \in Tables : rows = client
    BY <1>1
  <2>2. PICK new : new = client'
    OBVIOUS
  <2>3. /\ e \in Events /\ (e.op # "register" => e.id \in DOMAIN rows)
        /\ new = Applied(rows, e, Edited) \/ new = Applied(rows, e, PushedOver)
    BY <2>1, <2>2
  <2>4. /\ DOMAIN new = DOMAIN rows \cup {e.id}
        /\ \A i \in DOMAIN rows : i # e.id => new[i] = rows[i]
        /\ e.op = "register" => new[e.id] = e.arg
        /\ e.op # "register" => SameClient(rows[e.id], new[e.id])
        /\ e.op \in {"update", "assign-crm"} => SameSummary(rows[e.id], new[e.id])
        /\ e.op = "contact" => new[e.id] = Summarised(rows[e.id], e.arg[1], e.arg[2])
    <3>1. CASE new = Applied(rows, e, Edited)
      BY ONLY <2>1, <2>3, <3>1, AppliedIs
    <3>2. CASE new = Applied(rows, e, PushedOver)
      BY ONLY <2>1, <2>3, <3>2, AppliedIs
    <3> QED BY <2>3, <3>1, <3>2
  <2> QED BY <2>1, <2>2, <2>4
<1>3. CASE e.op = "contact"
  <2>1. e.id \in DOMAIN client /\ e.arg[1] \in Directions /\ e.arg[2] \in Times /\ e.id \in Ids
    BY <1>3, EventsAre
  <2> DEFINE r == <<e.id, e.arg[1], e.arg[2]>>
  <2>2. contact' = Append(contact, r)
    BY <1>3 DEF ContactsAfter
  <2>3. r \in ContactRows /\ r[1] = e.id /\ r[2] = e.arg[1] /\ r[3] = e.arg[2]
    BY <2>1 DEF ContactRows
  <2> HIDE DEF r
  <2>4. Sums(contact', e.id, client'[e.id])
    <3>1. Sums(contact, r[1], client[e.id]) /\ client[e.id] \in Row
          /\ client'[e.id] = Summarised(client[e.id], r[2], r[3])
      BY <2>1, <2>3, <1>1, <1>2, <1>3 DEF SummaryInv
    <3>2. Sums(contact', r[1], client'[e.id])
      BY ONLY <1>1, <2>2, <2>3, <3>1, SumsAfter
    <3> QED BY <2>3, <3>2
  <2>5. ASSUME NEW i \in DOMAIN client, i # e.id
        PROVE  Sums(contact', i, client'[i])
    <3>1. \A way : Of(contact', i, way) = Of(contact, i, way) /\ TimesOf(contact', i, way) = TimesOf(contact, i, way)
      BY <1>1, <2>2, <2>3, <2>5, OthersAsBefore
    <3>2. client'[i] = client[i] /\ Sums(contact, i, client[i])
      BY <2>5, <1>2 DEF SummaryInv
    <3>3. Sums(contact', i, client[i])
      BY <3>1, <3>2 DEF Sums
    <3> QED BY <3>2, <3>3
  <2>6. ContactsKnown'
    <3>1. /\ DOMAIN contact' = DOMAIN contact \cup {Len(contact) + 1}
          /\ contact'[Len(contact) + 1] = r /\ \A k \in DOMAIN contact : contact'[k] = contact[k]
      BY <1>1, <2>2, <2>3, Add
    <3> QED BY <3>1, <1>2, <2>1, <2>3 DEF SummaryInv, ContactsKnown
  <2> QED BY <2>1, <2>4, <2>5, <2>6, <1>2 DEF SummaryInv
<1>4. CASE e.op # "contact"
  <2>1. contact' = contact
    BY <1>4 DEF ContactsAfter
  <2>2. ContactsKnown'
    BY <2>1, <1>2 DEF SummaryInv, ContactsKnown
  <2>3. \A i \in DOMAIN client : i # e.id => Sums(contact, i, client'[i])
    BY <1>2 DEF SummaryInv
  <2>4. Sums(contact, e.id, client'[e.id])
    <3>1. CASE e.op = "register"
      <4>1. e.arg \in Row /\ \A k \in DOMAIN contact : contact[k][1] # e.id
        BY <3>1, EventsAre DEF SummaryInv, ContactsKnown
      <4> QED BY <4>1, <3>1, <1>2, NoContacts
    <3>2. CASE e.op # "register"
      <4>1. e.op \in {"update", "assign-crm"} /\ e.id \in DOMAIN client
        BY <3>2, <1>4, EventsAre
      <4>2. SameSummary(client[e.id], client'[e.id]) /\ client'[e.id].created = client[e.id].created
        BY <4>1, <3>2, <1>2 DEF SameClient
      <4> QED BY <4>1, <4>2 DEF SummaryInv, Sums, SameSummary
    <3> QED BY <3>1, <3>2
  <2> QED BY <2>1, <2>2, <2>3, <2>4, <1>2 DEF SummaryInv
<1> QED BY <1>3, <1>4

LEMMA SummaryStep ==
  ASSUME Inv, SummaryInv, [Next]_vars
  PROVE  SummaryInv'
<1>0. TypeOK /\ QueueInv /\ DOMAIN client \subseteq Known
  BY TypesAre DEF Inv
<1>1. CASE client' = client /\ contact' = contact
  BY <1>1 DEF SummaryInv, ContactsKnown, Sums
<1>2. CASE WebWrites
  <2>1. PICK e \in Events : /\ FormOf(e, client, webTag)
                           /\ client' = Applied(client, e, Edited) /\ contact' = ContactsAfter(e)
    BY <1>0, <1>2, WebWritesIs
  <2> QED BY <2>1, <1>0, SummaryEvent DEF FormOf
<1>3. CASE ImportClients
  <2>1. PICK events \in Imports(client, webTag) :
           /\ DOMAIN client' = DOMAIN client \cup {e.id : e \in events}
           /\ \A i \in DOMAIN client : client'[i] = client[i]
           /\ \A e \in events : client'[e.id] = e.arg
    BY <1>0, <1>3, ImportClientsIs
  <2>2. \A e \in events : e \in Events /\ e.op = "register" /\ e.id \notin Known /\ Newborn(e.arg)
    BY <1>0, TypesAre, ImportIs
  <2>3. contact' = contact
    BY <1>3 DEF ImportClients
  <2>4. ASSUME NEW e \in events
        PROVE  Sums(contact, e.id, client'[e.id])
    <3>1. e.arg \in Row /\ \A k \in DOMAIN contact : contact[k][1] # e.id
      BY <2>2, <1>0, EventsAre DEF SummaryInv, ContactsKnown
    <3> QED BY <3>1, <2>1, <2>2, NoContacts
  <2>5. \A i \in DOMAIN client : Sums(contact, i, client'[i])
    BY <2>1 DEF SummaryInv
  <2> QED BY <2>1, <2>3, <2>4, <2>5 DEF SummaryInv, ContactsKnown
<1>4. CASE ImportSheet \/ HandOverToCrm \/ LifecycleFromSamples
  <2>1. contact' = contact
    BY <1>4 DEF ImportSheet, HandOverToCrm, LifecycleFromSamples
  <2>2. /\ DOMAIN client' = DOMAIN client
        /\ \A i \in DOMAIN client : SameSummary(client[i], client'[i]) /\ client'[i].created = client[i].created
    BY <1>0, <1>4, RelabelledIs DEF Relabelled
  <2>3. \A i \in DOMAIN client : Sums(contact, i, client'[i])
    BY <2>2 DEF SummaryInv, Sums, SameSummary
  <2> QED BY <2>1, <2>2, <2>3 DEF SummaryInv, ContactsKnown
<1>5. ASSUME NEW d \in Device, Push(d)
      PROVE  SummaryInv'
  <2> DEFINE e == outbox[d][1]
  <2>1. /\ e \in Events /\ 1 \in DOMAIN outbox[d]
        /\ e.op # "register" => e.id \in DOMAIN client
        /\ client' = Applied(client, e, PushedOver) /\ contact' = ContactsAfter(e)
    BY <1>0, <1>5, PushIs DEF QueueInv
  <2>2. e.op = "register" => e.id \notin DOMAIN client /\ Newborn(e.arg)
    BY <1>0, <2>1 DEF QueueInv, WaitingIsNew, WaitingIsNewborn
  <2> HIDE DEF e
  <2> QED BY <2>1, <2>2, <1>0, SummaryEvent
<1>6. CASE SaveClientCodeSettings
  BY <1>1, <1>6 DEF SaveClientCodeSettings
<1>7. ASSUME NEW d \in Device, DeviceWrites(d) \/ Pull(d) \/ EnsureDeviceTag(d)
      PROVE  SummaryInv'
  BY <1>1, <1>7 DEF DeviceWrites, Pull, EnsureDeviceTag, cloud
<1>8. CASE UNCHANGED vars
  BY <1>1, <1>8 DEF vars, cloud
<1> QED BY <1>2, <1>3, <1>4, <1>5, <1>6, <1>7, <1>8 DEF Next

\* The summary of a lead is what its contacts amount to, in whichever order desks and
\* devices deliver them, whatever is imported, handed over or pushed in between.
THEOREM SummaryIsWhatContactsSay == Spec => []SummaryMatches
<1>1. Init => SummaryInv
  BY DEF Init, SummaryInv, ContactsKnown
<1>2. Inv /\ SummaryInv /\ [Next]_vars => SummaryInv'
  BY SummaryStep
<1>3. SummaryInv => SummaryMatches
  BY SummaryIs DEF SummaryInv
<1> QED BY Always, <1>1, <1>2, <1>3, PTL DEF Spec

---------------------------------------------------------------------------
(* The hand-over *)

LEMMA KeptByAStep ==
  ASSUME Inv, [Next]_vars
  PROVE  \A i \in DOMAIN client : /\ i \in DOMAIN client' /\ client'[i].code = client[i].code
                                  /\ client[i].lifecycle = "EXISTING_CLIENT"
                                       => client'[i].lifecycle = "EXISTING_CLIENT"
<1>0. TypeOK /\ QueueInv /\ client \in Tables /\ DOMAIN client \subseteq Known
  BY TypesAre DEF Inv
<1>1. CASE client' = client
  BY <1>1
<1>2. ASSUME NEW e \in Events, e.op # "register" => e.id \in DOMAIN client,
             e.op = "register" => e.id \notin DOMAIN client,
             client' = Applied(client, e, Edited) \/ client' = Applied(client, e, PushedOver)
      PROVE  \A i \in DOMAIN client : /\ i \in DOMAIN client' /\ client'[i].code = client[i].code
                                      /\ client'[i].lifecycle = client[i].lifecycle
  <2>1. /\ DOMAIN client' = DOMAIN client \cup {e.id}
        /\ \A i \in DOMAIN client : i # e.id => client'[i] = client[i]
        /\ e.op # "register" => SameClient(client[e.id], client'[e.id])
    <3>1. CASE client' = Applied(client, e, Edited)
      BY <1>0, <1>2, <3>1, AppliedIs
    <3>2. CASE client' = Applied(client, e, PushedOver)
      BY <1>0, <1>2, <3>2, AppliedIs
    <3> QED BY <1>2, <3>1, <3>2
  <2> QED BY <2>1, <1>2 DEF SameClient
<1>3. CASE WebWrites
  <2>1. PICK e \in Events : FormOf(e, client, webTag) /\ client' = Applied(client, e, Edited)
    BY <1>0, <1>3, WebWritesIs
  <2> QED BY <2>1, <1>0, <1>2 DEF FormOf
<1>4. CASE ImportClients
  BY <1>0, <1>4, ImportClientsIs
<1>5. CASE ImportSheet \/ HandOverToCrm \/ LifecycleFromSamples
  BY <1>0, <1>5, RelabelledIs DEF Relabelled
<1>6. ASSUME NEW d \in Device, Push(d)
      PROVE  \A i \in DOMAIN client : /\ i \in DOMAIN client' /\ client'[i].code = client[i].code
                                      /\ client'[i].lifecycle = client[i].lifecycle
  <2> DEFINE e == outbox[d][1]
  <2>1. /\ e \in Events /\ 1 \in DOMAIN outbox[d]
        /\ e.op # "register" => e.id \in DOMAIN client
        /\ client' = Applied(client, e, PushedOver)
    BY <1>0, <1>6, PushIs DEF QueueInv
  <2>2. e.op = "register" => e.id \notin DOMAIN client
    BY <1>0, <2>1 DEF QueueInv, WaitingIsNew
  <2> HIDE DEF e
  <2> QED BY <2>1, <2>2, <1>2
<1>7. CASE SaveClientCodeSettings
  BY <1>1, <1>7 DEF SaveClientCodeSettings
<1>8. ASSUME NEW d \in Device, DeviceWrites(d) \/ Pull(d) \/ EnsureDeviceTag(d)
      PROVE  client' = client
  BY <1>8 DEF DeviceWrites, Pull, EnsureDeviceTag, cloud
<1>9. CASE UNCHANGED vars
  BY <1>1, <1>9 DEF vars, cloud
<1> QED BY <1>1, <1>3, <1>4, <1>5, <1>6, <1>7, <1>8, <1>9 DEF Next

\* A client that was handed over to CRM stays there, and no client loses its code,
\* although devices push profiles they read long before.
THEOREM HandOverIsFinal == Spec => HandedOverForGood
<1>1. Inv /\ [Next]_vars => \A i \in DOMAIN client :
        /\ client'[i].code = client[i].code
        /\ client[i].lifecycle = "EXISTING_CLIENT" => client'[i].lifecycle = "EXISTING_CLIENT"
  BY KeptByAStep
<1> QED BY Always, <1>1, PTL DEF Spec, HandedOverForGood

---------------------------------------------------------------------------
(* The codes *)

\* The settings name no tag for the web that devices get.  Where they do, the tag of
\* the web can be given to a device (WebTagNotIssued) and both use the same codes.
DesksApart == Tags \cap WebTags = {}

\* A desk shows the client under the code.
HasCode(i, c) == \/ i \in DOMAIN client /\ client[i].code = c
                 \/ \E d \in Device : i \in DOMAIN copy[d] /\ copy[d][i].code = c

\* Each tag is given out once, and a device numbers under the one it was given.
TagsHeld ==
  /\ \A d, e \in Device : registry[d] # None /\ registry[d] = registry[e] => d = e
  /\ \A d \in Device : deviceTag[d] \in {None, registry[d]}

\* Desks agree on the code of a client.
Agreed == \A i, b, c : HasCode(i, b) /\ HasCode(i, c) => b = c

\* The desk that numbers under a tag knows every client with a code of that tag.
NumbersKnown ==
  \A i, c : HasCode(i, c) /\ c \notin SheetCodes =>
    IF c[1] \in WebTags THEN i \in DOMAIN client
    ELSE \E d \in Device : registry[d] = c[1] /\ i \in DOMAIN copy[d]

Unique == \A i, j, c : HasCode(i, c) /\ HasCode(j, c) /\ c \notin SheetCodes => i = j

CodeInv == TagsHeld /\ Agreed /\ NumbersKnown /\ Unique

LEMMA UniqueIs == Unique => CodesUnique
<1> SUFFICES ASSUME Unique, NEW r \in AllRows, NEW s \in AllRows, r[2] = s[2], r[2] \notin SheetCodes
             PROVE  r[1] = s[1]
  BY DEF CodesUnique
<1>1. ASSUME NEW q \in AllRows
      PROVE  HasCode(q[1], q[2])
  <2>1. CASE q \in {<<i, client[i].code>> : i \in DOMAIN client}
    BY <2>1 DEF HasCode
  <2>2. CASE \E d \in Device : q \in {<<i, copy[d][i].code>> : i \in DOMAIN copy[d]}
    <3>1. PICK d \in Device : q \in {<<i, copy[d][i].code>> : i \in DOMAIN copy[d]}
      BY <2>2
    <3>2. PICK i \in DOMAIN copy[d] : q = <<i, copy[d][i].code>>
      BY <3>1
    <3> QED BY <3>2 DEF HasCode
  <2> QED BY <2>1, <2>2 DEF AllRows
<1> QED BY <1>1 DEF Unique

LEMMA CodedIsKnown ==
  ASSUME TypeOK, NEW i, NEW c, HasCode(i, c)
  PROVE  i \in Known
BY TypesAre DEF HasCode

\* A step that gives new clients codes no client has.
LEMMA CodesAfter ==
  ASSUME TypeOK, Agreed, Unique, NEW New,
         \A i, c : HasCode(i, c)' => HasCode(i, c) \/ <<i, c>> \in New,
         \A i, c : <<i, c>> \in New => /\ i \notin Known
                                       /\ \A b : <<i, b>> \in New => b = c
                                       /\ c \notin SheetCodes => /\ \A j : ~ HasCode(j, c)
                                                                 /\ \A j : <<j, c>> \in New => i = j
  PROVE  Agreed' /\ Unique'
<1>1. \A i, c : HasCode(i, c) => i \in Known
  BY CodedIsKnown
<1>2. ASSUME NEW i, NEW b, NEW c, HasCode(i, b)', HasCode(i, c)'
      PROVE  b = c
  <2>1. (HasCode(i, b) \/ <<i, b>> \in New) /\ (HasCode(i, c) \/ <<i, c>> \in New)
    BY <1>2
  <2> QED BY <2>1, <1>1 DEF Agreed
<1>3. ASSUME NEW i, NEW j, NEW c, HasCode(i, c)', HasCode(j, c)', c \notin SheetCodes
      PROVE  i = j
  <2>1. (HasCode(i, c) \/ <<i, c>> \in New) /\ (HasCode(j, c) \/ <<j, c>> \in New)
    BY <1>3
  <2> QED BY <2>1, <1>3 DEF Unique
<1> QED BY <1>2, <1>3 DEF Agreed, Unique

\* The next number of the web, and that of a device, are free at every desk.
LEMMA FreeOnWeb ==
  ASSUME Agreed, NumbersKnown, NEW c, c \notin SheetCodes, c[1] \in WebTags,
         \A i \in DOMAIN client : client[i].code # c
  PROVE  \A j : ~ HasCode(j, c)
<1> SUFFICES ASSUME NEW j, HasCode(j, c)
             PROVE  FALSE
  OBVIOUS
<1>1. j \in DOMAIN client
  BY DEF NumbersKnown
<1>2. HasCode(j, client[j].code)
  BY <1>1 DEF HasCode
<1>3. client[j].code = c
  BY <1>2 DEF Agreed
<1> QED BY <1>1, <1>3

LEMMA FreeOnDevice ==
  ASSUME DesksApart, TypeOK, TagsHeld, Agreed, NumbersKnown, NEW d \in Device, deviceTag[d] # None,
         NEW c, c \notin SheetCodes, c[1] = deviceTag[d], \A i \in DOMAIN copy[d] : copy[d][i].code # c
  PROVE  /\ \A j : ~ HasCode(j, c)
         /\ registry[d] = c[1] /\ c[1] \notin WebTags
<1>1. registry[d] = c[1] /\ c[1] \notin WebTags /\ registry[d] # None
  BY TypesAre DEF TagsHeld, DesksApart
<1>2. ASSUME NEW j, HasCode(j, c)
      PROVE  FALSE
  <2>1. PICK e \in Device : registry[e] = c[1] /\ j \in DOMAIN copy[e]
    BY <1>1, <1>2 DEF NumbersKnown
  <2>2. j \in DOMAIN copy[d]
    BY <2>1, <1>1 DEF TagsHeld
  <2>3. HasCode(j, copy[d][j].code)
    BY <2>2 DEF HasCode
  <2>4. copy[d][j].code = c
    BY <2>3, <1>2 DEF Agreed
  <2> QED BY <2>2, <2>4
<1> QED BY <1>1, <1>2

LEMMA NotOfASheet ==
  ASSUME NEW tag, NEW c \in {tag} \X (1 .. MaxNumber)
  PROVE  c \notin SheetCodes /\ c[1] = tag
BY ClientsAssumption DEF SheetCodes

LEMMA CodesWebWrites ==
  ASSUME Inv, CodeInv, WebWrites
  PROVE  CodeInv'
<1>0. TypeOK /\ QueueInv /\ TagsHeld /\ Agreed /\ NumbersKnown /\ Unique
      /\ client \in Tables /\ webTag \in WebTags /\ DOMAIN client \subseteq Known
  BY TypesAre DEF Inv, CodeInv
<1>1. PICK e \in Events : FormOf(e, client, webTag) /\ client' = Applied(client, e, Edited)
  BY <1>0, WebWritesIs
<1>2. UNCHANGED <<copy, registry, deviceTag>>
  BY DEF WebWrites, device
<1>3. /\ DOMAIN client' = DOMAIN client \cup {e.id}
      /\ \A i \in DOMAIN client : i # e.id => client'[i] = client[i]
      /\ e.op = "register" => client'[e.id] = e.arg
      /\ e.op # "register" => SameClient(client[e.id], client'[e.id])
  BY <1>0, <1>1, AppliedIs DEF FormOf
<1> DEFINE New == {p \in {<<e.id, e.arg.code>>} : e.op = "register"}
<1>4. \A i, c : <<i, c>> \in New <=> e.op = "register" /\ i = e.id /\ c = e.arg.code
  OBVIOUS
<1>5. e.op # "register" => e.id \in DOMAIN client
  BY <1>1 DEF FormOf
<1>6. ASSUME NEW i, NEW c, HasCode(i, c)'
      PROVE  HasCode(i, c) \/ <<i, c>> \in New
  <2>1. CASE i \in DOMAIN client' /\ client'[i].code = c
    <3>1. i # e.id => i \in DOMAIN client /\ client[i].code = c
      BY <2>1, <1>3
    <3>2. i = e.id /\ e.op # "register" => i \in DOMAIN client /\ client[i].code = c
      BY <2>1, <1>3, <1>5 DEF SameClient
    <3>3. i = e.id /\ e.op = "register" => <<i, c>> \in New
      BY <2>1, <1>3, <1>4
    <3> QED BY <3>1, <3>2, <3>3 DEF HasCode
  <2>2. CASE \E d \in Device : i \in DOMAIN copy'[d] /\ copy'[d][i].code = c
    BY <2>2, <1>2 DEF HasCode
  <2> QED BY <1>6, <2>1, <2>2 DEF HasCode
<1>7. e.op = "register" => /\ e.id \notin Known /\ e.arg.code \notin SheetCodes /\ e.arg.code[1] = webTag
                           /\ \A j : ~ HasCode(j, e.arg.code)
  <2>1. e.op = "register" => /\ e.id \notin Known /\ e.arg.code \in {webTag} \X (1 .. MaxNumber)
                             /\ \A i \in DOMAIN client : client[i].code # e.arg.code
    BY <1>1 DEF FormOf
  <2>2. e.op = "register" => e.arg.code \notin SheetCodes /\ e.arg.code[1] = webTag
    BY <2>1, NotOfASheet
  <2> QED BY <2>1, <2>2, <1>0, FreeOnWeb
<1> HIDE DEF New
<1>8. Agreed' /\ Unique'
  BY <1>0, <1>4, <1>6, <1>7, CodesAfter
<1>9. NumbersKnown'
  <2>1. ASSUME NEW i, NEW c, HasCode(i, c)', c \notin SheetCodes
        PROVE  IF c[1] \in WebTags THEN i \in DOMAIN client'
               ELSE \E d \in Device : registry'[d] = c[1] /\ i \in DOMAIN copy'[d]
    <3>1. CASE HasCode(i, c)
      BY <3>1, <2>1, <1>0, <1>2, <1>3 DEF NumbersKnown
    <3>2. CASE <<i, c>> \in New
      BY <3>2, <1>0, <1>3, <1>4, <1>7
    <3> QED BY <2>1, <3>1, <3>2, <1>6
  <2> QED BY <2>1 DEF NumbersKnown
<1>10. TagsHeld'
  BY <1>0, <1>2 DEF TagsHeld
<1> QED BY <1>8, <1>9, <1>10 DEF CodeInv

LEMMA CodesImport ==
  ASSUME FilesBringOldCodes, Inv, CodeInv, ImportClients
  PROVE  CodeInv'
<1>0. TypeOK /\ TagsHeld /\ Agreed /\ NumbersKnown /\ Unique
      /\ client \in Tables /\ webTag \in WebTags /\ DOMAIN client \subseteq Known /\ Known \subseteq Ids
  BY TypesAre DEF Inv, CodeInv
<1>1. PICK events \in Imports(client, webTag) :
        /\ DOMAIN client' = DOMAIN client \cup {e.id : e \in events}
        /\ \A i \in DOMAIN client : client'[i] = client[i]
        /\ \A e \in events : client'[e.id] = e.arg
  BY <1>0, ImportClientsIs
<1>2. UNCHANGED <<copy, registry, deviceTag>>
  BY DEF ImportClients, device
<1>3. /\ \A e \in events : e.id \notin Known
      /\ \A e, f \in events : e.id = f.id => e = f
      /\ \A e \in events : e.arg.code \notin SheetCodes =>
           /\ e.arg.code[1] = webTag /\ \A i \in DOMAIN client : client[i].code # e.arg.code
           /\ \A f \in events : f.arg.code = e.arg.code => f = e
  <2>1. PICK rows \in Tables : rows = client
    BY <1>0
  <2>2. PICK tag \in WebTags : tag = webTag
    BY <1>0
  <2>3. events \in Imports(rows, tag)
    BY <2>1, <2>2
  <2>4. /\ \A e \in events : e.id \notin Known
        /\ \A e, f \in events : e.id = f.id => e = f
        /\ \A e \in events : e.arg.code \notin SheetCodes =>
             /\ e.arg.code[1] = tag /\ \A i \in DOMAIN rows : rows[i].code # e.arg.code
             /\ \A f \in events : f.arg.code = e.arg.code => f = e
    BY <1>0, <2>3, ImportIs
  <2> QED BY <2>1, <2>2, <2>4
<1> DEFINE New == {<<e.id, e.arg.code>> : e \in events}
<1>4. \A i, c : <<i, c>> \in New <=> \E e \in events : i = e.id /\ c = e.arg.code
  OBVIOUS
<1> HIDE DEF New
<1>5. ASSUME NEW i, NEW c, HasCode(i, c)'
      PROVE  HasCode(i, c) \/ <<i, c>> \in New
  <2>1. CASE i \in DOMAIN client' /\ client'[i].code = c
    <3>1. CASE i \in DOMAIN client
      BY <2>1, <3>1, <1>1 DEF HasCode
    <3>2. CASE i \notin DOMAIN client
      <4>1. PICK e \in events : e.id = i
        BY <2>1, <3>2, <1>1
      <4> QED BY <2>1, <4>1, <1>1, <1>4
    <3> QED BY <3>1, <3>2
  <2>2. CASE \E d \in Device : i \in DOMAIN copy'[d] /\ copy'[d][i].code = c
    BY <2>2, <1>2 DEF HasCode
  <2> QED BY <1>5, <2>1, <2>2 DEF HasCode
<1>6. ASSUME NEW i, NEW c, <<i, c>> \in New
      PROVE  /\ i \notin Known /\ \A b : <<i, b>> \in New => b = c
             /\ c \notin SheetCodes => /\ i \in DOMAIN client' /\ c[1] \in WebTags /\ \A j : ~ HasCode(j, c)
                                       /\ \A j : <<j, c>> \in New => i = j
  <2>1. PICK e \in events : i = e.id /\ c = e.arg.code
    BY <1>4, <1>6
  <2>2. i \notin Known /\ \A b : <<i, b>> \in New => b = c
    BY <2>1, <1>3, <1>4
  <2>3. c \notin SheetCodes => c[1] \in WebTags /\ \A j : ~ HasCode(j, c)
    <3>1. c \notin SheetCodes => c[1] \in WebTags /\ \A k \in DOMAIN client : client[k].code # c
      BY <2>1, <1>0, <1>3
    <3> QED BY <3>1, <1>0, FreeOnWeb
  <2>4. c \notin SheetCodes => \A j : <<j, c>> \in New => i = j
    BY <2>1, <1>3, <1>4
  <2> QED BY <2>1, <2>2, <2>3, <2>4, <1>1
<1>7. Agreed' /\ Unique'
  BY <1>0, <1>5, <1>6, CodesAfter
<1>8. NumbersKnown'
  <2>1. ASSUME NEW i, NEW c, HasCode(i, c)', c \notin SheetCodes
        PROVE  IF c[1] \in WebTags THEN i \in DOMAIN client'
               ELSE \E d \in Device : registry'[d] = c[1] /\ i \in DOMAIN copy'[d]
    <3>1. CASE HasCode(i, c)
      BY <3>1, <2>1, <1>0, <1>1, <1>2 DEF NumbersKnown
    <3>2. CASE <<i, c>> \in New
      BY <3>2, <2>1, <1>6
    <3> QED BY <2>1, <3>1, <3>2, <1>5
  <2> QED BY <2>1 DEF NumbersKnown
<1>9. TagsHeld'
  BY <1>0, <1>2 DEF TagsHeld
<1> QED BY <1>7, <1>8, <1>9 DEF CodeInv

\* A device registers a client under the next number of its tag: it holds all others.
LEMMA CodesDeviceWrites ==
  ASSUME DesksApart, Inv, CodeInv, NEW d \in Device, DeviceWrites(d)
  PROVE  CodeInv'
<1>0. TypeOK /\ TagsHeld /\ Agreed /\ NumbersKnown /\ Unique
  BY DEF Inv, CodeInv
<1>1. PICK e \in Events : /\ FormOf(e, copy[d], deviceTag[d]) /\ (e.op = "register" => deviceTag[d] # None)
                         /\ copy' = [copy EXCEPT ![d] = Applied(copy[d], e, Edited)]
  BY <1>0, DeviceWritesIs
<1>2. UNCHANGED <<client, registry, deviceTag>>
  BY DEF DeviceWrites, cloud
<1>3. /\ copy'[d] = Applied(copy[d], e, Edited) /\ \A x \in Device : x # d => copy'[x] = copy[x]
      /\ copy[d] \in Tables
  BY <1>0, <1>1, TypesAre DEF TypeOK
<1>4. /\ DOMAIN copy'[d] = DOMAIN copy[d] \cup {e.id}
      /\ \A i \in DOMAIN copy[d] : i # e.id => copy'[d][i] = copy[d][i]
      /\ e.op = "register" => copy'[d][e.id] = e.arg
      /\ e.op # "register" => e.id \in DOMAIN copy[d] /\ copy'[d][e.id].code = copy[d][e.id].code
  <2>1. PICK rows \in Tables : rows = copy[d]
    BY <1>3
  <2>2. PICK new : new = copy'[d]
    OBVIOUS
  <2>3. e \in Events /\ (e.op # "register" => e.id \in DOMAIN rows) /\ new = Applied(rows, e, Edited)
    BY <2>1, <2>2, <1>1, <1>3 DEF FormOf
  <2>4. /\ DOMAIN new = DOMAIN rows \cup {e.id}
        /\ \A i \in DOMAIN rows : i # e.id => new[i] = rows[i]
        /\ e.op = "register" => new[e.id] = e.arg
        /\ e.op # "register" => SameClient(rows[e.id], new[e.id])
    BY ONLY <2>1, <2>3, AppliedIs
  <2> QED BY <2>1, <2>2, <2>3, <2>4 DEF SameClient
<1> DEFINE New == {p \in {<<e.id, e.arg.code>>} : e.op = "register"}
<1>5. \A i, c : <<i, c>> \in New <=> e.op = "register" /\ i = e.id /\ c = e.arg.code
  OBVIOUS
<1> HIDE DEF New
<1>6. ASSUME NEW i, NEW c, HasCode(i, c)'
      PROVE  HasCode(i, c) \/ <<i, c>> \in New
  <2>1. CASE i \in DOMAIN client' /\ client'[i].code = c
    BY <2>1, <1>2 DEF HasCode
  <2>2. CASE \E x \in Device : i \in DOMAIN copy'[x] /\ copy'[x][i].code = c
    <3>1. PICK x \in Device : i \in DOMAIN copy'[x] /\ copy'[x][i].code = c
      BY <2>2
    <3>2. CASE x # d
      BY <3>1, <3>2, <1>3 DEF HasCode
    <3>3. CASE x = d /\ ~ (i = e.id /\ e.op = "register")
      <4>1. i \in DOMAIN copy[d] /\ copy[d][i].code = c
        BY <3>1, <3>3, <1>4
      <4> QED BY <4>1 DEF HasCode
    <3>4. CASE x = d /\ i = e.id /\ e.op = "register"
      BY <3>1, <3>4, <1>4, <1>5
    <3> QED BY <3>2, <3>3, <3>4
  <2> QED BY <1>6, <2>1, <2>2 DEF HasCode
<1>7. e.op = "register" => /\ e.id \notin Known /\ \A j : ~ HasCode(j, e.arg.code)
                           /\ registry[d] = e.arg.code[1] /\ e.arg.code[1] \notin WebTags
  <2>1. SUFFICES ASSUME e.op = "register"
                 PROVE  /\ e.id \notin Known /\ \A j : ~ HasCode(j, e.arg.code)
                        /\ registry[d] = e.arg.code[1] /\ e.arg.code[1] \notin WebTags
    OBVIOUS
  <2>2. PICK c : c = e.arg.code
    OBVIOUS
  <2>3. /\ e.id \notin Known /\ deviceTag[d] # None /\ c \in {deviceTag[d]} \X (1 .. MaxNumber)
        /\ \A i \in DOMAIN copy[d] : copy[d][i].code # c
    BY <1>1, <2>1, <2>2 DEF FormOf
  <2>4. c \notin SheetCodes /\ c[1] = deviceTag[d]
    BY <2>3, NotOfASheet
  <2>5. (\A j : ~ HasCode(j, c)) /\ registry[d] = c[1] /\ c[1] \notin WebTags
    BY <1>0, <2>3, <2>4, FreeOnDevice
  <2> QED BY <2>2, <2>3, <2>5
<1>8. Agreed' /\ Unique'
  BY <1>0, <1>5, <1>6, <1>7, CodesAfter
<1>9. NumbersKnown'
  <2>1. ASSUME NEW i, NEW c, HasCode(i, c)', c \notin SheetCodes
        PROVE  IF c[1] \in WebTags THEN i \in DOMAIN client'
               ELSE \E x \in Device : registry'[x] = c[1] /\ i \in DOMAIN copy'[x]
    <3>1. CASE HasCode(i, c)
      <4>1. \A x \in Device : DOMAIN copy[x] \subseteq DOMAIN copy'[x]
        BY <1>3, <1>4
      <4> QED BY <3>1, <4>1, <2>1, <1>0, <1>2 DEF NumbersKnown
    <3>2. CASE <<i, c>> \in New
      BY <3>2, <1>2, <1>4, <1>5, <1>7
    <3> QED BY <2>1, <3>1, <3>2, <1>6
  <2> QED BY <2>1 DEF NumbersKnown
<1>10. TagsHeld'
  BY <1>0, <1>2 DEF TagsHeld
<1> QED BY <1>8, <1>9, <1>10 DEF CodeInv

\* Steps that give no client a code: desks show what some desk showed before, and
\* keep the rows they had.
CodesShownBefore ==
  /\ \A i, c : HasCode(i, c)' => HasCode(i, c)
  /\ DOMAIN client \subseteq DOMAIN client' /\ \A d \in Device : DOMAIN copy[d] \subseteq DOMAIN copy'[d]

LEMMA CodesOnly ==
  ASSUME TypeOK, CodeInv, CodesShownBefore, UNCHANGED <<registry, deviceTag>>
  PROVE  CodeInv'
<1>1. TagsHeld' /\ Agreed' /\ Unique'
  BY DEF CodeInv, CodesShownBefore, TagsHeld, Agreed, Unique
<1>2. ASSUME NEW i, NEW c, HasCode(i, c)', c \notin SheetCodes
      PROVE  IF c[1] \in WebTags THEN i \in DOMAIN client'
             ELSE \E d \in Device : registry'[d] = c[1] /\ i \in DOMAIN copy'[d]
  <2>1. IF c[1] \in WebTags THEN i \in DOMAIN client
        ELSE \E d \in Device : registry[d] = c[1] /\ i \in DOMAIN copy[d]
    BY <1>2 DEF CodeInv, CodesShownBefore, NumbersKnown
  <2> QED BY <2>1 DEF CodesShownBefore
<1>3. NumbersKnown'
  BY <1>2 DEF NumbersKnown
<1> QED BY <1>1, <1>3 DEF CodeInv

LEMMA CodesRelabelled ==
  ASSUME TypeOK, ImportSheet \/ HandOverToCrm \/ LifecycleFromSamples
  PROVE  CodesShownBefore /\ UNCHANGED <<registry, deviceTag>>
<1>1. Relabelled
  BY RelabelledIs
<1>2. UNCHANGED <<copy, registry, deviceTag>>
  <2>1. CASE ImportSheet
    BY <2>1 DEF ImportSheet, device
  <2>2. CASE HandOverToCrm
    BY <2>2, Zenon DEF HandOverToCrm, device
  <2>3. CASE LifecycleFromSamples
    BY <2>3 DEF LifecycleFromSamples, device
  <2> QED BY <2>1, <2>2, <2>3
<1> QED BY <1>1, <1>2 DEF Relabelled, CodesShownBefore, HasCode

\* A registration that is sent brings to the cloud the code that its copy shows.
LEMMA CodesPush ==
  ASSUME Inv, NEW d \in Device, Push(d)
  PROVE  CodesShownBefore /\ UNCHANGED <<registry, deviceTag>>
<1> DEFINE e == outbox[d][1]
<1>0. TypeOK /\ EventsHaveRows /\ WaitingIsNew /\ Grounded /\ WaitingIsNewborn
  BY DEF Inv, QueueInv
<1>1. /\ e \in Events /\ 1 \in DOMAIN outbox[d] /\ (e.op # "register" => e.id \in DOMAIN client)
      /\ client' = Applied(client, e, PushedOver) /\ copy' = copy
  BY <1>0, PushIs
<1>2. e.op = "register" => HasCode(e.id, e.arg.code)
  BY <1>0, <1>1 DEF EventsHaveRows, WaitingIsNewborn, HasCode
<1> HIDE DEF e
<1>3. /\ DOMAIN client' = DOMAIN client \cup {e.id}
      /\ \A i \in DOMAIN client : i # e.id => client'[i] = client[i]
      /\ e.op = "register" => client'[e.id] = e.arg
      /\ e.op # "register" => client'[e.id].code = client[e.id].code
  <2>1. PICK rows \in Tables : rows = client
    BY <1>0, TypesAre
  <2>2. PICK new : new = client'
    OBVIOUS
  <2>3. e \in Events /\ (e.op # "register" => e.id \in DOMAIN rows) /\ new = Applied(rows, e, PushedOver)
    BY <2>1, <2>2, <1>1
  <2>4. /\ DOMAIN new = DOMAIN rows \cup {e.id}
        /\ \A i \in DOMAIN rows : i # e.id => new[i] = rows[i]
        /\ e.op = "register" => new[e.id] = e.arg
        /\ e.op # "register" => SameClient(rows[e.id], new[e.id])
    BY ONLY <2>1, <2>3, AppliedIs
  <2> QED BY <2>1, <2>2, <2>4 DEF SameClient
<1>4. ASSUME NEW i, NEW c, HasCode(i, c)'
      PROVE  HasCode(i, c)
  <2>1. CASE i \in DOMAIN client' /\ client'[i].code = c
    <3>1. CASE i = e.id /\ e.op = "register"
      BY <2>1, <3>1, <1>2, <1>3
    <3>2. CASE ~ (i = e.id /\ e.op = "register")
      BY <2>1, <3>2, <1>1, <1>3 DEF HasCode
    <3> QED BY <3>1, <3>2
  <2>2. CASE \E x \in Device : i \in DOMAIN copy'[x] /\ copy'[x][i].code = c
    BY <2>2, <1>1 DEF HasCode
  <2> QED BY <1>4, <2>1, <2>2 DEF HasCode
<1>5. UNCHANGED <<registry, deviceTag>>
  BY DEF Push
<1> QED BY <1>1, <1>3, <1>4, <1>5 DEF CodesShownBefore

\* A pull drops no row: one that only the copy has waits in its queue.
LEMMA CodesPull ==
  ASSUME Inv, NEW d \in Device, Pull(d)
  PROVE  CodesShownBefore /\ UNCHANGED <<registry, deviceTag>>
<1>0. TypeOK /\ EventsHaveRows /\ CopiesAreKnown
  BY DEF Inv, QueueInv
<1>1. /\ Unsent(d) \subseteq DOMAIN copy[d] /\ copy' = [copy EXCEPT ![d] = copy'[d]]
      /\ DOMAIN copy'[d] = DOMAIN client \cup Unsent(d)
      /\ \A i \in DOMAIN copy'[d] : copy'[d][i] = IF i \in Unsent(d) THEN copy[d][i] ELSE client[i]
      /\ UNCHANGED <<client, registry, deviceTag>>
  BY <1>0, PullIs
<1>2. \A x \in Device : x # d => copy'[x] = copy[x]
  BY <1>0, <1>1 DEF TypeOK
<1>3. DOMAIN copy[d] \subseteq DOMAIN copy'[d]
  <2> SUFFICES ASSUME NEW i \in DOMAIN copy[d], i \notin DOMAIN client
               PROVE  i \in Unsent(d)
    BY <1>1
  <2>1. PICK k \in DOMAIN outbox[d] : Registers(outbox[d], k, i)
    BY <1>0 DEF CopiesAreKnown
  <2> QED BY <2>1 DEF Unsent, Registers
<1>4. ASSUME NEW i, NEW c, HasCode(i, c)'
      PROVE  HasCode(i, c)
  <2>1. CASE i \in DOMAIN client' /\ client'[i].code = c
    BY <2>1, <1>1 DEF HasCode
  <2>2. CASE \E x \in Device : i \in DOMAIN copy'[x] /\ copy'[x][i].code = c
    <3>1. PICK x \in Device : i \in DOMAIN copy'[x] /\ copy'[x][i].code = c
      BY <2>2
    <3>2. CASE x # d
      BY <3>1, <3>2, <1>2 DEF HasCode
    <3>3. CASE x = d
      <4>1. \/ i \in DOMAIN copy[d] /\ copy[d][i].code = c
            \/ i \in DOMAIN client /\ client[i].code = c
        BY <3>1, <3>3, <1>1
      <4> QED BY <4>1 DEF HasCode
    <3> QED BY <3>2, <3>3
  <2> QED BY <1>4, <2>1, <2>2 DEF HasCode
<1> QED BY <1>1, <1>2, <1>3, <1>4 DEF CodesShownBefore

\* A tag once given stays with its device, the answer may come later.
LEMMA CodesEnsure ==
  ASSUME TypeOK, CodeInv, NEW d \in Device, EnsureDeviceTag(d)
  PROVE  CodeInv'
<1>1. /\ UNCHANGED <<client, copy>> /\ deviceTag[d] = None
      /\ registry' = [registry EXCEPT ![d] = IF @ = None THEN FreeTag(d) ELSE @]
      /\ deviceTag' \in {deviceTag, [deviceTag EXCEPT ![d] = registry'[d]]}
      /\ registry \in [Device -> Tags \cup {None}] /\ deviceTag \in [Device -> Tags \cup {None}]
  BY DEF EnsureDeviceTag, TypeOK
<1>2. /\ \A x \in Device : x # d => registry'[x] = registry[x]
      /\ registry[d] # None => registry'[d] = registry[d]
      /\ registry[d] = None => registry'[d] = None \/ \A x \in Device : registry[x] # registry'[d]
  BY <1>1, FreeTagIs
<1>3. TagsHeld'
  <2>1. \A x, y \in Device : registry'[x] # None /\ registry'[x] = registry'[y] => x = y
    BY <1>2 DEF CodeInv, TagsHeld
  <2>2. \A x \in Device : deviceTag'[x] \in {None, registry'[x]}
    BY <1>1, <1>2 DEF CodeInv, TagsHeld
  <2> QED BY <2>1, <2>2 DEF TagsHeld
<1>4. Agreed' /\ Unique'
  <2>1. \A i, c : HasCode(i, c)' => HasCode(i, c)
    BY <1>1 DEF HasCode
  <2> QED BY <2>1 DEF CodeInv, Agreed, Unique
<1>5. ASSUME NEW i, NEW c, HasCode(i, c)', c \notin SheetCodes
      PROVE  IF c[1] \in WebTags THEN i \in DOMAIN client'
             ELSE \E x \in Device : registry'[x] = c[1] /\ i \in DOMAIN copy'[x]
  <2>1. HasCode(i, c)
    BY <1>1, <1>5 DEF HasCode
  <2>2. c \in ClientCodes
    BY <2>1, TypesAre DEF HasCode, Row
  <2>3. c[1] \notin WebTags => c[1] # None
    BY <2>2, <1>5, ClientsAssumption DEF ClientCodes
  <2> QED BY <2>1, <2>3, <1>1, <1>2, <1>5 DEF CodeInv, NumbersKnown
<1>6. NumbersKnown'
  BY <1>5 DEF NumbersKnown
<1> QED BY <1>3, <1>4, <1>6 DEF CodeInv

LEMMA CodesStep ==
  ASSUME DesksApart, FilesBringOldCodes, Inv, CodeInv, [Next]_vars
  PROVE  CodeInv'
<1>0. TypeOK
  BY DEF Inv
<1>1. CASE WebWrites
  BY <1>1, CodesWebWrites
<1>2. CASE ImportClients
  BY <1>2, CodesImport
<1>3. CASE ImportSheet \/ HandOverToCrm \/ LifecycleFromSamples
  BY <1>0, <1>3, CodesRelabelled, CodesOnly
<1>4. ASSUME NEW d \in Device, DeviceWrites(d) \/ Push(d) \/ Pull(d) \/ EnsureDeviceTag(d)
      PROVE  CodeInv'
  <2>1. CASE DeviceWrites(d)
    BY <2>1, CodesDeviceWrites
  <2>2. CASE Push(d) \/ Pull(d)
    BY <2>2, <1>0, CodesPush, CodesPull, CodesOnly
  <2>3. CASE EnsureDeviceTag(d)
    BY <2>3, <1>0, CodesEnsure
  <2> QED BY <1>4, <2>1, <2>2, <2>3
<1>5. CASE SaveClientCodeSettings \/ UNCHANGED vars
  <2>1. UNCHANGED <<client, copy, registry, deviceTag>>
    BY <1>5 DEF SaveClientCodeSettings, vars, cloud, device
  <2>2. CodesShownBefore
    BY <2>1 DEF CodesShownBefore, HasCode
  <2> QED BY <1>0, <2>1, <2>2, CodesOnly
<1> QED BY <1>1, <1>2, <1>3, <1>4, <1>5 DEF Next

LEMMA CodesStart ==
  ASSUME Init
  PROVE  CodeInv
<1>1. \A i, c : ~ HasCode(i, c)
  BY DEF Init, HasCode
<1>2. \A d \in Device : registry[d] = None /\ deviceTag[d] = None
  BY DEF Init
<1> QED BY <1>1, <1>2 DEF CodeInv, TagsHeld, Agreed, NumbersKnown, Unique

\* No two clients get the same code, on whichever desks they are registered, however
\* long their registrations wait and however often a tag is asked for again: where the
\* tags of web and devices differ, and files bring no code that a desk may give today.
THEOREM CodesNeverMeet ==
  ASSUME DesksApart, FilesBringOldCodes
  PROVE  Spec => []CodesUnique
<1>1. Init => Inv /\ CodeInv
  BY Start, CodesStart
<1>2. Inv /\ CodeInv /\ [Next]_vars => (Inv /\ CodeInv)'
  BY TypeStep, QueueStep, CodesStep DEF Inv
<1>3. CodeInv => CodesUnique
  BY UniqueIs DEF CodeInv
<1> QED BY <1>1, <1>2, <1>3, PTL DEF Spec
============================================================================
