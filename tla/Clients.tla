------------------------------ MODULE Clients ------------------------------
(***************************************************************************)
(* Clients and their leads (lib/server/clients.ts, leads.ts, crm.ts,       *)
(* client-import.ts and sheet-import.ts; the same on a device):            *)
(* registration with a client code numbered per tag, edits of the profile, *)
(* contacts and the summary kept of them, the import of a sheet, the hand- *)
(* over to CRM, and the tags that keep the codes of desks apart.           *)
(*                                                                         *)
(* A web handler reads and writes the cloud in one transaction.  A device  *)
(* works on its copy, queues an event for each write, and sends the events *)
(* in order; each is applied once (SyncEngine).  A pull replaces the rows  *)
(* of the copy that no queued event is about.                              *)
(*                                                                         *)
(* Abstracted: one day of codes, all of one prefix; of the profile only    *)
(* the quota; a sheet is the sequence of its client codes; who may act is  *)
(* left out.  The tables have no unique index but the primary keys.        *)
(***************************************************************************)
EXTENDS Integers, Sequences, FiniteSets

CONSTANTS
  Device, None,  \* devices; no tag, no CRM operator, an empty code of a sheet
  Crm,           \* CRM operators
  Quotas,        \* free revisions a client may get
  TagOrder,      \* the tags of devices in the order they are given out
  WebTags,       \* tags the settings may name for the web, the first when unset
  FirstWebTag,
  Sheets,        \* files to import
  Times,         \* when a contact took place
  MaxNumber,     \* codes of one tag and day
  MaxClients, MaxContacts, MaxQueue  \* bounds

SheetCodes == {"s1", "s2"} \X {0}   \* codes as a sheet brings them along

Tags == {TagOrder[k] : k \in DOMAIN TagOrder}
ClientCodes == SheetCodes \cup ((Tags \cup WebTags) \X (1 .. MaxNumber))

ASSUME ClientsAssumption ==
  /\ FirstWebTag \in WebTags /\ Quotas \subseteq Nat /\ Times \subseteq Nat \ {0}
  /\ MaxNumber \in Nat /\ MaxClients \in Nat /\ MaxContacts \in Nat /\ MaxQueue \in Nat
  /\ DOMAIN TagOrder \subseteq Nat /\ None \notin Tags \cup Crm
  /\ Sheets \subseteq Seq({None} \cup SheetCodes \cup (WebTags \X (1 .. MaxNumber)))

VARIABLES
  client,    \* rows of clients with their leads, by id, in the cloud
  contact,   \* rows of lead_interactions: <<client, direction, time>>
  webTag,    \* setting client_code_web_tag
  registry,  \* rows of device_tag_registry: registry[d], or None
  copy,      \* copy[d]: the clients in the replica of device d
  seenTag,   \* seenTag[d]: the setting in that replica
  deviceTag, \* deviceTag[d]: the tag the device has stored, or None
  outbox     \* outbox[d]: the events device d has still to send

cloud == <<client, contact, webTag, registry>>
device == <<copy, seenTag, deviceTag, outbox>>
vars == <<cloud, device>>

Directions == {"OUTBOUND", "INBOUND"}
Lifecycles == {"LEAD", "FIRST_ORDER_ACTIVE", "EXISTING_CLIENT"}
Row == [code: ClientCodes, lifecycle: Lifecycles,
        crm: Crm \cup {None}, quota: Quotas, total_followups: Nat,
        created: Times, last_followup: Times \cup {0}, last_response: Times \cup {0}]

---------------------------------------------------------------------------
(* Codes *)

Codes(rows) == {rows[i].code : i \in DOMAIN rows}

\* One more than the highest number of the tag among the codes a desk knows.
NextSequence(codes, tag) ==
  LET used == {0} \cup {c[2] : c \in {k \in codes : k[1] = tag}}
  IN CHOOSE n \in 1 .. MaxNumber + 1 : n - 1 \in used /\ \A u \in used : u < n

\* An import numbers the rows of a file that have no code with the next numbers of
\* the tag.
NumberOf(codes, tag, file, k) ==
  NextSequence(codes, tag) + Cardinality({j \in DOMAIN file : j < k /\ file[j] = None})

CodeOf(codes, tag, file, k) ==
  IF file[k] = None THEN <<tag, NumberOf(codes, tag, file, k)>> ELSE file[k]

\* The rows it adds: those it has a number for, and those that bring a code which no
\* client and no earlier row of the file has.
PlanImport(codes, tag, file) ==
  {k \in DOMAIN file :
     IF file[k] = None THEN NumberOf(codes, tag, file, k) <= MaxNumber
     ELSE file[k] \notin codes /\ \A j \in DOMAIN file : j < k => CodeOf(codes, tag, file, j) # file[k]}

\* Mutant: a tag counts as free when no earlier one is missing, not when none has it.
FreeTagUnchecked(d) ==
  LET free == {k \in DOMAIN TagOrder : TagOrder[k] # seenTag[d]}
  IN IF free = {} THEN None ELSE TagOrder[CHOOSE k \in free : \A l \in free : k <= l]

\* The first free tag after as many as are given out, never the one of the web.
FreeTag(d) ==
  LET taken == Cardinality({e \in Device : registry[e] # None})
      free == {k \in DOMAIN TagOrder : /\ k > taken /\ TagOrder[k] # seenTag[d]
                                       /\ \A e \in Device : registry[e] # TagOrder[k]}
  IN IF free = {} THEN None ELSE TagOrder[CHOOSE k \in free : \A l \in free : k <= l]

---------------------------------------------------------------------------
(* What the forms and files ask for, from the rows a desk sees *)

Known == DOMAIN client \cup UNION {DOMAIN copy[d] : d \in Device}
LastId == CHOOSE m \in 0 .. MaxClients : m \in Known \cup {0} /\ \A i \in Known : i <= m

NewRow(code, quota, at) ==
  [code |-> code, lifecycle |-> "LEAD", crm |-> None, quota |-> quota, total_followups |-> 0,
   created |-> at, last_followup |-> 0, last_response |-> at]

Event(op, id, arg) == [op |-> op, id |-> id, arg |-> arg]

Registrations(rows, tag) ==
  {Event("register", id, NewRow(<<tag, n>>, quota, at)) :
     id \in {LastId + 1} \cap (1 .. MaxClients), quota \in Quotas, at \in Times,
     n \in {NextSequence(Codes(rows), tag)} \cap (1 .. MaxNumber)}

ProfileEdits(rows) ==
  {Event("update", id, [rows[id] EXCEPT !.quota = quota]) : id \in DOMAIN rows, quota \in Quotas}

Contacts(rows) == {Event("contact", id, <<direction, at>>) :
                     id \in DOMAIN rows, direction \in Directions, at \in Times}

CrmClients(rows) == {id \in DOMAIN rows : rows[id].lifecycle = "EXISTING_CLIENT"}
Assignments(rows) == {Event("assign-crm", id, crm) : id \in CrmClients(rows), crm \in Crm}

\* The registrations of one file, all in one transaction.
Imports(rows, tag) ==
  LET codes == Codes(rows)
      id(added, k) == LastId + Cardinality({j \in added : j <= k})
      Events(file, added, quota, at) ==
        {Event("register", id(added, k), NewRow(CodeOf(codes, tag, file, k), quota, at)) : k \in added}
  IN {Events(file, PlanImport(codes, tag, file), quota, at) :
        file \in {f \in Sheets : LastId + Cardinality(PlanImport(codes, tag, f)) <= MaxClients},
        quota \in Quotas, at \in Times}

---------------------------------------------------------------------------
(* The statements *)

\* Mutant: the last contact to arrive counts as the latest.
SummarisedByArrival(row, direction, at) ==
  [row EXCEPT
     !.total_followups = IF direction = "OUTBOUND" THEN @ + 1 ELSE @,
     !.last_followup = IF direction = "OUTBOUND" THEN at ELSE @,
     !.last_response = IF direction = "INBOUND" THEN at ELSE @]

\* LEAD_SUMMARY_UPDATE_SQL: dates only advance, follow-ups are counted.
Summarised(row, direction, at) ==
  [row EXCEPT
     !.total_followups = IF direction = "OUTBOUND" THEN @ + 1 ELSE @,
     !.last_followup = IF direction = "OUTBOUND" /\ at > @ THEN at ELSE @,
     !.last_response = IF direction = "INBOUND" /\ at > @ THEN at ELSE @]

Inserted(rows, id, row) == [i \in DOMAIN rows \cup {id} |-> IF i = id THEN row ELSE rows[i]]

\* The profile as a form writes it where it is filled in.
Edited(row, form) == [row EXCEPT !.quota = form.quota]

\* Mutant: the whole profile of the copy is written.
PushedOverWhole(row, form) ==
  [row EXCEPT !.quota = form.quota, !.crm = form.crm, !.lifecycle = form.lifecycle]

\* The profile as the event of a device writes it: what the copy of the device held
\* of the CRM operator goes along, its lifecycle and its summary do not.
PushedOver(row, form) == [row EXCEPT !.quota = form.quota, !.crm = form.crm]

Assigned(row, crm) == IF row.lifecycle = "EXISTING_CLIENT" THEN [row EXCEPT !.crm = crm] ELSE row

Applied(rows, e, Profile(_, _)) ==
  CASE e.op = "register" -> Inserted(rows, e.id, e.arg)
    [] e.op = "update" -> [rows EXCEPT ![e.id] = Profile(@, e.arg)]
    [] e.op = "contact" -> [rows EXCEPT ![e.id] = Summarised(@, e.arg[1], e.arg[2])]
    [] e.op = "assign-crm" -> [rows EXCEPT ![e.id] = Assigned(@, e.arg)]
    [] OTHER -> rows

ContactsAfter(e) == IF e.op = "contact" THEN Append(contact, <<e.id, e.arg[1], e.arg[2]>>) ELSE contact

---------------------------------------------------------------------------
(* The web *)

WebForms == Registrations(client, webTag) \cup ProfileEdits(client)
            \cup (IF Len(contact) < MaxContacts THEN Contacts(client) ELSE {}) \cup Assignments(client)

WebWrites ==
  /\ \E e \in WebForms : client' = Applied(client, e, Edited) /\ contact' = ContactsAfter(e)
  /\ UNCHANGED <<webTag, registry, device>>

ImportClients ==
  /\ \E events \in Imports(client, webTag) :
       client' = [i \in DOMAIN client \cup {e.id : e \in events} |->
                    IF i \in DOMAIN client THEN client[i] ELSE (CHOOSE e \in events : e.id = i).arg]
  /\ UNCHANGED <<contact, webTag, registry, device>>

\* The tag of the web may be any that no device holds.
SaveClientCodeSettings ==
  /\ \E tag \in WebTags : (\A d \in Device : registry[d] # tag) /\ webTag' = tag
  /\ UNCHANGED <<client, contact, registry, device>>

\* An imported shipment of the past: an order of this client is complete.
ImportSheet ==
  /\ \E id \in DOMAIN client : client' = [client EXCEPT ![id].lifecycle = "EXISTING_CLIENT"]
  /\ UNCHANGED <<contact, webTag, registry, device>>

\* An order is completed (Production): the client goes to CRM, to the operator of
\* the sample unless it has one.
HandOverToCrm ==
  /\ \E id \in DOMAIN client, pic \in Crm \cup {None} :
       /\ client[id].lifecycle # "EXISTING_CLIENT"
       /\ client' = [client EXCEPT ![id].lifecycle = "EXISTING_CLIENT",
                                   ![id].crm = IF @ = None THEN pic ELSE @]
  /\ UNCHANGED <<contact, webTag, registry, device>>

\* A sample request is opened, or the last one comes to nothing (SampleRequest).
LifecycleFromSamples ==
  /\ \E id \in DOMAIN client, status \in {"LEAD", "FIRST_ORDER_ACTIVE"} :
       /\ client[id].lifecycle \in {"LEAD", "FIRST_ORDER_ACTIVE"}
       /\ client' = [client EXCEPT ![id].lifecycle = status]
  /\ UNCHANGED <<contact, webTag, registry, device>>

---------------------------------------------------------------------------
(* Devices *)

DeviceForms(d) ==
  (IF deviceTag[d] # None THEN Registrations(copy[d], deviceTag[d]) ELSE {})
  \cup ProfileEdits(copy[d]) \cup Contacts(copy[d]) \cup Assignments(copy[d])

\* A command writes the copy and queues the event in one transaction.
DeviceWrites(d) ==
  /\ Len(outbox[d]) < MaxQueue
  /\ \E e \in DeviceForms(d) :
       /\ copy' = [copy EXCEPT ![d] = Applied(@, e, Edited)]
       /\ outbox' = [outbox EXCEPT ![d] = Append(@, e)]
  /\ UNCHANGED <<cloud, seenTag, deviceTag>>

\* push_events: the event at the head is applied, or refused for good.
Push(d) ==
  /\ outbox[d] # <<>>
  /\ LET e == Head(outbox[d])
     IN /\ e.op = "contact" => Len(contact) < MaxContacts
        /\ client' = Applied(client, e, PushedOver)
        /\ contact' = ContactsAfter(e)
  /\ outbox' = [outbox EXCEPT ![d] = Tail(@)]
  /\ UNCHANGED <<webTag, registry, copy, seenTag, deviceTag>>

\* Rows the queue still has an event about; a contact is a row of its own.
Unsent(d) == {outbox[d][k].id : k \in {j \in DOMAIN outbox[d] : outbox[d][j].op # "contact"}}

Pull(d) ==
  /\ copy' = [copy EXCEPT ![d] = [i \in DOMAIN client \cup (DOMAIN @ \cap Unsent(d)) |->
                                    IF i \in Unsent(d) THEN @[i] ELSE client[i]]]
  /\ seenTag' = [seenTag EXCEPT ![d] = webTag]
  /\ UNCHANGED <<cloud, deviceTag, outbox>>

\* ensure_device_tag at the end of a sync: the tag registered before, or a free one;
\* the answer may be lost.
EnsureDeviceTag(d) ==
  /\ deviceTag[d] = None
  /\ registry' = [registry EXCEPT ![d] = IF @ = None THEN FreeTag(d) ELSE @]
  /\ deviceTag' \in {deviceTag, [deviceTag EXCEPT ![d] = registry'[d]]}
  /\ UNCHANGED <<client, contact, webTag, copy, seenTag, outbox>>

Init ==
  /\ client = <<>> /\ contact = <<>> /\ webTag = FirstWebTag
  /\ registry = [d \in Device |-> None] /\ deviceTag = [d \in Device |-> None]
  /\ copy = [d \in Device |-> <<>>] /\ seenTag = [d \in Device |-> FirstWebTag]
  /\ outbox = [d \in Device |-> <<>>]

Next ==
  \/ WebWrites \/ ImportClients \/ SaveClientCodeSettings \/ ImportSheet
  \/ HandOverToCrm \/ LifecycleFromSamples
  \/ \E d \in Device : DeviceWrites(d) \/ Push(d) \/ Pull(d) \/ EnsureDeviceTag(d)

Spec == Init /\ [][Next]_vars

---------------------------------------------------------------------------
(* Properties *)

Ids == 1 .. MaxClients
Tables == UNION {[ids -> Row] : ids \in SUBSET Ids}
Events == [op : {"register", "update"}, id : Ids, arg : Row] \cup [op : {"assign-crm"}, id : Ids, arg : Crm]
          \cup [op : {"contact"}, id : Ids, arg : Directions \X Times]

\* Clients are rows of their table, in the cloud and in each copy; queues hold events.
TypeOK ==
  /\ client \in Tables /\ contact \in Seq(Ids \X Directions \X Times) /\ webTag \in WebTags
  /\ registry \in [Device -> Tags \cup {None}] /\ deviceTag \in [Device -> Tags \cup {None}]
  /\ copy \in [Device -> Tables] /\ seenTag \in [Device -> WebTags]
  /\ outbox \in [Device -> Seq(Events)]

\* No two clients get the same code, on whichever desks they are registered and
\* however long their registrations wait in an outbox: each desk numbers under a tag
\* of its own. (Codes that sheets bring along may meet, when two desks import them.)
AllRows == {<<i, client[i].code>> : i \in DOMAIN client} \cup
           UNION {{<<i, copy[d][i].code>> : i \in DOMAIN copy[d]} : d \in Device}
CodesUnique == \A r, s \in AllRows : r[2] = s[2] /\ r[2] \notin SheetCodes => r[1] = s[1]

\* The summary of a lead is what its contacts amount to, in whichever order desks
\* and devices deliver them and whatever stale profile is pushed between them.
SummaryMatches ==
  \A i \in DOMAIN client :
    LET of(direction) == {k \in DOMAIN contact : contact[k][1] = i /\ contact[k][2] = direction}
        times(direction) == {contact[k][3] : k \in of(direction)}
        latest(T, t) == t \in T /\ \A u \in T : u <= t
    IN /\ client[i].total_followups = Cardinality(of("OUTBOUND"))
       /\ latest(times("OUTBOUND") \cup {0}, client[i].last_followup)
       /\ latest(times("INBOUND") \cup {client[i].created}, client[i].last_response)

\* A client handed over to CRM stays with CRM, and its code is its code for ever,
\* although devices push profiles they have read long before.
HandedOverForGood ==
  [][\A i \in DOMAIN client : /\ client'[i].code = client[i].code
                              /\ client[i].lifecycle = "EXISTING_CLIENT"
                                   => client'[i].lifecycle = "EXISTING_CLIENT"]_vars

\* "The tag of the web must never be given to a device" (ensure_device_tag, which reads
\* it from the replica before it asks for a tag; the settings test the tags given so
\* far).  In no run, like the next: the code keeps neither (README, Known divergences).
WebTagNotIssued == \A d \in Device : registry[d] # webTag

\* A profile that a device pushes does not undo what the cloud has decided since: the
\* CRM operator of a client is not lost (the comment on the same statement keeps the
\* lifecycle for this reason).
OperatorNotLost ==
  [][\A i \in DOMAIN client : client[i].crm # None => client'[i].crm # None]_vars
=============================================================================
