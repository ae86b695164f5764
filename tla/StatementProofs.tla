-------------------------- MODULE StatementProofs --------------------------
(***************************************************************************)
(* What is proved of the components whose handlers run their statements    *)
(* one by one, outside a transaction, and may stop between any two: the    *)
(* outbox (NotificationOutbox), the digests its senders write              *)
(* (DailyDigest), and accounts, roles and sessions (Access).               *)
(*                                                                         *)
(* It holds for any number of senders, rows, divisions, attempts, delays   *)
(* and days, and of accounts, roles, tabs and revisions.  Of the outbox,   *)
(* type correctness holds always; the rest while no sender is suspended    *)
(* for longer than its lease.                                              *)
(***************************************************************************)
EXTENDS NotificationOutbox, DailyDigest, Access, FiniteSetTheorems, TLAPS

---------------------------------------------------------------------------
(* The outbox *)

\* A sender that gives up or ends its pass, and one that goes on with the rest
\* of its list, is typed.
LEMMA OnwardType ==
  ASSUME OutboxTypeOK, NEW s \in Sender,
         NEW rest \in SUBSET [row : Row, attempts : Nat]
  PROVE  Onward(s, rest) \in SenderRecord
<1>1. sender[s] \in SenderRecord
  BY DEF OutboxTypeOK
<1>2. CASE rest = {}
  BY <1>2 DEF Onward, IdleSender, SenderRecord
<1>3. CASE rest # {}
  BY <1>1, <1>3 DEF Onward, SenderRecord
<1> QED BY <1>2, <1>3

\* A sender that has advanced holds no row.
LEMMA OnwardFree ==
  ASSUME OutboxTypeOK, NEW s \in Sender, NEW rest
  PROVE  Onward(s, rest).pc \in {"idle", "claim"}
BY DEF Onward, IdleSender, OutboxTypeOK

\* What the statements make of a row is a row.
LEMMA RowUpdates ==
  ASSUME NEW row \in RowRecord
  PROVE  /\ Later(row) \in RowRecord
         /\ Claimed(row) \in RowRecord
         /\ [row EXCEPT !.status = "SKIPPED", !.age = Unclaimed] \in RowRecord
         /\ [row EXCEPT !.status = "SENT", !.age = Unclaimed] \in RowRecord
         /\ \A n \in Nat : AfterFailure(row, n + 1) \in RowRecord
<1>1. 0 \in 0..Unclaimed /\ Unclaimed \in 0..Unclaimed
  BY TimingAssumption DEF Unclaimed
<1>2. Later(row) \in RowRecord
  <2>1. \A a \in 0..Unclaimed : (IF a > ClaimLease THEN a ELSE a + 1) \in 0..Unclaimed
    BY TimingAssumption DEF Unclaimed
  <2>2. \A w \in Nat : (IF w = 0 THEN 0 ELSE w - 1) \in Nat
    OBVIOUS
  <2> QED BY <2>1, <2>2 DEF RowRecord, Later
<1>3. Claimed(row) \in RowRecord
  <2>1. row.attempts + 1 \in Nat
    BY DEF RowRecord
  <2> QED BY <1>1, <2>1 DEF RowRecord, Claimed
<1>4. [row EXCEPT !.status = "SKIPPED", !.age = Unclaimed] \in RowRecord
  BY <1>1 DEF RowRecord
<1>5. [row EXCEPT !.status = "SENT", !.age = Unclaimed] \in RowRecord
  BY <1>1 DEF RowRecord
<1>6. ASSUME NEW n \in Nat PROVE AfterFailure(row, n + 1) \in RowRecord
  <2>1. CASE n + 1 >= MaxAttempts
    BY <1>1, <2>1 DEF RowRecord, AfterFailure
  <2>2. CASE ~(n + 1 >= MaxAttempts)
    <3>1. RetryDelay[n + 1] \in Nat
      BY <2>2, TimingAssumption
    <3> QED BY <1>1, <2>2, <3>1 DEF RowRecord, AfterFailure
  <2> QED BY <2>1, <2>2
<1> QED BY <1>2, <1>3, <1>4, <1>5, <1>6

\* A row is born as a row.
LEMMA BornType ==
  /\ NoRow \in RowRecord
  /\ \A verdict \in {"PENDING", "SKIPPED"} : Born(verdict) \in RowRecord
BY TimingAssumption DEF NoRow, Born, RowRecord, Unclaimed

\* A sender that idles is typed.
LEMMA IdleType == IdleSender \in SenderRecord
BY DEF IdleSender, NoJob, SenderRecord

\* A counter of messages stays a counter.
LEMMA Counted ==
  ASSUME NEW f \in [Row -> Nat], NEW r
  PROVE  [f EXCEPT ![r] = @ + 1] \in [Row -> Nat]
<1>1. \A q \in Row : (f[q] \in Nat /\ f[q] + 1 \in Nat)
  OBVIOUS
<1>2. CASE r \in Row
  BY <1>1, <1>2
<1>3. CASE r \notin Row
  BY <1>1, <1>3
<1> QED BY <1>2, <1>3

\* Type correctness of the outbox, its senders and its bounds.
THEOREM OutboxTypeCorrect == OutboxSpec => []OutboxTypeOK
<1>1. OutboxInit => OutboxTypeOK
  <2> SUFFICES ASSUME OutboxInit PROVE OutboxTypeOK
    OBVIOUS
  <2>1. rows \in [Row -> RowRecord] /\ sender \in [Sender -> SenderRecord]
    BY BornType, IdleType DEF OutboxInit
  <2> QED BY <2>1, BudgetAssumption DEF OutboxInit, OutboxTypeOK
<1>2. OutboxTypeOK /\ [OutboxNext]_outboxVars => OutboxTypeOK'
  <2> SUFFICES ASSUME OutboxTypeOK, [OutboxNext]_outboxVars PROVE OutboxTypeOK'
    OBVIOUS
  <2>0. /\ rows \in [Row -> RowRecord]
        /\ sender \in [Sender -> SenderRecord]
    BY DEF OutboxTypeOK
  <2>1. ASSUME NEW r \in Row, Emit(r) PROVE OutboxTypeOK'
    <3>1. rows' \in [Row -> RowRecord]
      BY <2>0, <2>1, BornType DEF Emit
    <3> QED BY <2>1, <3>1 DEF OutboxTypeOK, Emit
  <2>2. CASE SaveTelegramConfig
    BY <2>2, BudgetAssumption DEF OutboxTypeOK, SaveTelegramConfig
  <2>3. CASE SaveChatIds
    BY <2>3, BudgetAssumption DEF OutboxTypeOK, SaveChatIds
  <2>4. CASE RetryFailed
    <3>1. rows' \in [Row -> RowRecord]
      BY <2>0, <2>4, BornType DEF RetryFailed
    <3> QED BY <2>4, <3>1, BudgetAssumption DEF OutboxTypeOK, RetryFailed
  <2>5. CASE Tick
    <3>1. rows' \in [Row -> RowRecord]
      BY <2>0, <2>5, RowUpdates DEF Tick
    <3> QED BY <2>5, <3>1 DEF OutboxTypeOK, Tick
  <2>6. ASSUME NEW s \in Sender, LoadContext(s) PROVE OutboxTypeOK'
    <3>1. [IdleSender EXCEPT !.pc = "digest", !.ready = bot, !.chats = chats] \in SenderRecord
      BY DEF OutboxTypeOK, SenderRecord, IdleSender, NoJob
    <3>2. sender' \in [Sender -> SenderRecord]
      BY <2>0, <2>6, <3>1 DEF LoadContext
    <3> QED BY <2>6, <3>2 DEF OutboxTypeOK, LoadContext
  <2>7. ASSUME NEW s \in Sender, PassDigests(s) PROVE OutboxTypeOK'
    <3>1. [sender[s] EXCEPT !.pc = "list"] \in SenderRecord
      BY <2>0 DEF SenderRecord
    <3>2. sender' \in [Sender -> SenderRecord]
      BY <2>0, <2>7, <3>1, IdleType DEF PassDigests
    <3> QED BY <2>7, <3>2 DEF OutboxTypeOK, PassDigests
  <2>8. ASSUME NEW s \in Sender, ListDue(s) PROVE OutboxTypeOK'
    <3> DEFINE list == {[row |-> r, attempts |-> rows[r].attempts] : r \in Oldest(Due)}
    <3>1. \A r \in Oldest(Due) : r \in Row /\ rows[r].attempts \in Nat
      BY <2>0 DEF Oldest, Due, RowRecord
    <3>2. list \in SUBSET [row : Row, attempts : Nat]
      BY <3>1
    <3> HIDE DEF list
    <3>3. [sender[s] EXCEPT !.pc = "claim", !.due = list] \in SenderRecord
      BY <2>0, <3>2 DEF SenderRecord
    <3>4. sender' \in [Sender -> SenderRecord]
      BY <2>0, <2>8, <3>3, IdleType DEF ListDue, list
    <3> QED BY <2>8, <3>4 DEF OutboxTypeOK, ListDue
  <2>9. ASSUME NEW s \in Sender, NEW entry \in sender[s].due, Claim(s, entry) PROVE OutboxTypeOK'
    <3>1. /\ entry \in [row : Row, attempts : Nat]
          /\ sender[s].due \ {entry} \in SUBSET [row : Row, attempts : Nat]
      BY <2>0 DEF SenderRecord
    <3>2. CASE Claimable(entry.row)
      <4>1. rows' \in [Row -> RowRecord]
        <5>1. Claimed(rows[entry.row]) \in RowRecord
          BY <2>0, <3>1, RowUpdates
        <5> QED BY <2>0, <2>9, <3>2, <5>1 DEF Claim
      <4>2. Winner(s, entry) \in SenderRecord
        <5>1. entry \in [row : Row, attempts : Nat] \cup {NoJob}
          BY <3>1
        <5>2. sender[s] \in SenderRecord
          BY <2>0
        <5> QED BY <3>1, <5>1, <5>2 DEF SenderRecord, Winner
      <4>3. sender' \in [Sender -> SenderRecord]
        BY <2>0, <2>9, <3>2, <4>2 DEF Claim
      <4> QED BY <2>9, <4>1, <4>3 DEF OutboxTypeOK, Claim
    <3>3. CASE ~Claimable(entry.row)
      <4>1. sender' \in [Sender -> SenderRecord]
        BY <2>0, <2>9, <3>1, <3>3, OnwardType DEF Claim
      <4> QED BY <2>9, <3>3, <4>1 DEF OutboxTypeOK, Claim
    <3> QED BY <3>2, <3>3
  <2>10. ASSUME NEW s \in Sender
         PROVE  sender[s].due \in SUBSET [row : Row, attempts : Nat]
    BY <2>0 DEF SenderRecord
  <2>11. ASSUME NEW s \in Sender, Skip(s) PROVE OutboxTypeOK'
    <3>1. sender' \in [Sender -> SenderRecord]
      BY <2>0, <2>10, <2>11, OnwardType DEF Skip
    <3>2. rows' \in [Row -> RowRecord]
      BY <2>0, <2>11, RowUpdates DEF Skip
    <3> QED BY <2>11, <3>1, <3>2 DEF OutboxTypeOK, Skip
  <2>12. ASSUME NEW s \in Sender, Post(s) PROVE OutboxTypeOK'
    <3>1. ASSUME NEW b \in BOOLEAN
          PROVE  [sender[s] EXCEPT !.pc = "settle", !.ok = b] \in SenderRecord
      BY <2>0 DEF SenderRecord
    <3>2. PICK reaches \in BOOLEAN, answered \in BOOLEAN :
            /\ sender' = [sender EXCEPT ![s] =
                 [@ EXCEPT !.pc = "settle", !.ok = reaches /\ answered]]
            /\ posted' = IF reaches THEN [posted EXCEPT ![sender[s].job.row] = @ + 1] ELSE posted
            /\ unacked' = IF reaches /\ ~answered
                          THEN [unacked EXCEPT ![sender[s].job.row] = @ + 1] ELSE unacked
      BY <2>12 DEF Post
    <3>3. (reaches /\ answered) \in BOOLEAN
      OBVIOUS
    <3>4. sender' \in [Sender -> SenderRecord]
      BY <2>0, <3>1, <3>2, <3>3
    <3>5. posted \in [Row -> Nat] /\ unacked \in [Row -> Nat]
      BY DEF OutboxTypeOK
    <3>6. posted' \in [Row -> Nat] /\ unacked' \in [Row -> Nat]
      BY <3>2, <3>5, Counted
    <3> QED BY <2>12, <3>4, <3>6 DEF OutboxTypeOK, Post
  <2>13. ASSUME NEW s \in Sender, MarkSent(s) PROVE OutboxTypeOK'
    <3>1. sender' \in [Sender -> SenderRecord]
      BY <2>0, <2>10, <2>13, OnwardType DEF MarkSent
    <3>2. rows' \in [Row -> RowRecord]
      BY <2>0, <2>13, RowUpdates DEF MarkSent
    <3> QED BY <2>13, <3>1, <3>2 DEF OutboxTypeOK, MarkSent
  <2>14. ASSUME NEW s \in Sender, MarkFailed(s) PROVE OutboxTypeOK'
    <3>1. sender' \in [Sender -> SenderRecord]
      BY <2>0, <2>10, <2>14, OnwardType DEF MarkFailed
    <3>2. sender[s].job.attempts \in Nat
      BY <2>0 DEF NoJob, SenderRecord
    <3>3. rows' \in [Row -> RowRecord]
      BY <2>0, <2>14, <3>2, RowUpdates DEF MarkFailed
    <3> QED BY <2>14, <3>1, <3>3 DEF OutboxTypeOK, MarkFailed
  <2>15. ASSUME NEW s \in Sender, Abandon(s) PROVE OutboxTypeOK'
    <3>1. sender' \in [Sender -> SenderRecord]
      BY <2>0, <2>15, IdleType DEF Abandon
    <3>2. [unacked EXCEPT ![sender[s].job.row] = @ + 1] \in [Row -> Nat]
      BY Counted DEF OutboxTypeOK
    <3>3. unacked' \in [Row -> Nat]
      BY <2>15, <3>2 DEF OutboxTypeOK, Abandon
    <3>4. budget' \in [crash : 0..MaxCrashes, edit : 0..MaxEdits, retry : 0..MaxRetries]
      BY <2>15, BudgetAssumption DEF OutboxTypeOK, Abandon
    <3> QED BY <2>15, <3>1, <3>3, <3>4 DEF OutboxTypeOK, Abandon
  <2>16. ASSUME NEW s \in Sender, NEW r \in Row, NEW empty \in BOOLEAN, AddDigest(s, r, empty)
         PROVE OutboxTypeOK'
    <3>1. rows' \in [Row -> RowRecord]
      BY <2>0, <2>16, BornType DEF AddDigest
    <3> QED BY <2>16, <3>1 DEF OutboxTypeOK, AddDigest
  <2>17. CASE UNCHANGED outboxVars
    BY <2>17 DEF OutboxTypeOK, outboxVars
  <2> QED
    BY <2>1, <2>2, <2>3, <2>4, <2>5, <2>6, <2>7, <2>8, <2>9, <2>11, <2>12, <2>13,
       <2>14, <2>15, <2>16, <2>17 DEF OutboxNext, Work
<1> QED BY <1>1, <1>2, PTL DEF OutboxSpec

-----------------------------------------------------------------------------
(* While no sender outlives its lease, a claim protects its row, and the    *)
(* messages of a row are accounted for by its status and its one holder.   *)

Delivered(s, r) == Holds(s, r) /\ sender[s].pc = "settle" /\ sender[s].ok

\* A sender between claim and verdict works on a row.
Working ==
  \A s \in Sender : sender[s].pc \in {"skip", "send", "settle"} => sender[s].job.row \in Row

\* A claimed row still waits for its verdict, and its claim is not expired.
Protected ==
  \A s \in Sender, r \in Row :
    Holds(s, r) => rows[r].status = "PENDING" /\ rows[r].age <= ClaimLease

\* One message more than the lost ones is a row that was sent, or whose
\* holder knows that it was.
Accounted ==
  \A r \in Row :
    \/ posted[r] = unacked[r] /\ \A s \in Sender : ~Delivered(s, r)
    \/ /\ posted[r] = unacked[r] + 1
       /\ rows[r].status = "SENT" \/ \E s \in Sender : Delivered(s, r)

Calm == OutboxTypeOK /\ Working /\ Protected /\ OneWinner /\ Accounted

\* A row that changes while nobody holds it, and is not a sent one before or
\* after, leaves every claim and every account as it was.
LEMMA RowChange ==
  ASSUME Calm, OutboxTypeOK', UNCHANGED <<sender, posted, unacked>>,
         \A r \in Row :
           \/ rows'[r] = rows[r]
           \/ /\ rows[r].status # "PENDING"
              /\ rows[r].status # "SENT"
  PROVE  Calm'
<1>1. \A s \in Sender, r \in Row : /\ Holds(s, r)' <=> Holds(s, r)
                                   /\ Delivered(s, r)' <=> Delivered(s, r)
  BY DEF Holds, Delivered
<1>2. Working' /\ OneWinner'
  BY <1>1 DEF Calm, Working, OneWinner
<1>3. Protected'
  BY <1>1 DEF Calm, Protected
<1>4. Accounted'
  BY <1>1 DEF Calm, Accounted
<1> QED BY <1>2, <1>3, <1>4 DEF Calm

\* A sender that holds nothing before and after its step disturbs nothing.
LEMMA FreeStep ==
  ASSUME Calm, OutboxTypeOK', UNCHANGED <<rows, posted, unacked>>,
         NEW s \in Sender, NEW next, sender' = [sender EXCEPT ![s] = next],
         sender[s].pc \notin {"skip", "send", "settle"},
         next.pc \notin {"skip", "send", "settle"}
  PROVE  Calm'
<1>1. \A t \in Sender : sender'[t] = IF t = s THEN next ELSE sender[t]
  BY DEF Calm, OutboxTypeOK
<1>2. \A t \in Sender, r \in Row : /\ Holds(t, r)' <=> Holds(t, r)
                                   /\ Delivered(t, r)' <=> Delivered(t, r)
  BY <1>1 DEF Holds, Delivered
<1>3. Working' /\ OneWinner'
  BY <1>1, <1>2 DEF Calm, Working, OneWinner
<1>4. Protected' /\ Accounted'
  BY <1>2 DEF Calm, Protected, Accounted
<1> QED BY <1>3, <1>4 DEF Calm

\* A holder that lets go of its row: the row may become what it likes, as
\* long as the account of its messages is settled.
LEMMA LetGo ==
  ASSUME Calm, OutboxTypeOK', NEW s \in Sender, NEW next, NEW r \in Row,
         Holds(s, r),
         sender' = [sender EXCEPT ![s] = next],
         next.pc \notin {"skip", "send", "settle"},
         \A q \in Row : q # r => /\ rows'[q] = rows[q]
                                 /\ posted'[q] = posted[q]
                                 /\ unacked'[q] = unacked[q],
         \/ posted'[r] = unacked'[r]
         \/ posted'[r] = unacked'[r] + 1 /\ rows'[r].status = "SENT"
  PROVE  Calm'
<1>1. \A t \in Sender : sender'[t] = IF t = s THEN next ELSE sender[t]
  BY DEF Calm, OutboxTypeOK
<1>2. \A t \in Sender : ~Holds(t, r)' /\ ~Delivered(t, r)'
  BY <1>1 DEF Calm, OneWinner, Holds, Delivered
<1>3. \A t \in Sender, q \in Row \ {r} : /\ Holds(t, q)' <=> Holds(t, q)
                                         /\ Delivered(t, q)' <=> Delivered(t, q)
  BY <1>1 DEF Holds, Delivered
<1>4. Working'
  BY <1>1 DEF Calm, Working
<1>5. OneWinner'
  BY <1>2, <1>3 DEF Calm, OneWinner
<1>6. Protected'
  <2> SUFFICES ASSUME NEW t \in Sender, NEW q \in Row, Holds(t, q)'
               PROVE  (rows[q].status = "PENDING" /\ rows[q].age <= ClaimLease)'
    BY DEF Protected
  <2>1. q # r
    BY <1>2
  <2> QED BY <1>3, <2>1 DEF Calm, Protected
<1>7. Accounted'
  <2> SUFFICES ASSUME NEW q \in Row
               PROVE  (\/ posted[q] = unacked[q] /\ \A t \in Sender : ~Delivered(t, q)
                       \/ /\ posted[q] = unacked[q] + 1
                          /\ rows[q].status = "SENT" \/ \E t \in Sender : Delivered(t, q))'
    BY DEF Accounted
  <2>1. CASE q = r
    BY <1>2, <2>1
  <2>2. CASE q # r
    BY <1>3, <2>2 DEF Calm, Accounted
  <2> QED BY <2>1, <2>2
<1> QED BY <1>4, <1>5, <1>6, <1>7 DEF Calm

\* The invariant, step by step.
LEMMA CalmStep ==
  ASSUME SlowSenders = FALSE, Calm, OutboxTypeOK', [OutboxNext]_outboxVars
  PROVE  Calm'
<1>1. ASSUME NEW r \in Row, Emit(r) PROVE Calm'
  BY <1>1, RowChange DEF Emit, Fresh, Calm, OutboxTypeOK
<1>2. CASE SaveTelegramConfig \/ SaveChatIds
  BY <1>2, RowChange DEF SaveTelegramConfig, SaveChatIds
<1>3. CASE RetryFailed
  BY <1>3, RowChange DEF RetryFailed
<1>4. CASE Tick
  <2>1. \A s \in Sender, r \in Row : /\ Holds(s, r)' <=> Holds(s, r)
                                     /\ Delivered(s, r)' <=> Delivered(s, r)
    BY <1>4 DEF Tick, Holds, Delivered
  <2>2. \A r \in Row : /\ rows[r] \in RowRecord
                       /\ rows'[r] = Later(rows[r])
    BY <1>4 DEF Tick, Calm, OutboxTypeOK
  <2>3. \A r \in Row : rows'[r].status = rows[r].status
    BY <2>2 DEF Later, RowRecord
  <2>4. Protected'
    <3> SUFFICES ASSUME NEW s \in Sender, NEW r \in Row, Holds(s, r)
                 PROVE  rows'[r].status = "PENDING" /\ rows'[r].age <= ClaimLease
      BY <2>1 DEF Protected
    <3>1. rows[r].status = "PENDING" /\ rows[r].age < ClaimLease
      BY <1>4 DEF Tick, LeaseLasts, Calm, Protected
    <3>2. rows[r].age \in Nat
      BY <2>2, TimingAssumption DEF RowRecord, Unclaimed
    <3>3. rows'[r].age = rows[r].age + 1
      <4>1. ~(rows[r].age > ClaimLease)
        BY <3>1, <3>2, TimingAssumption
      <4>2. Later(rows[r]).age = IF rows[r].age > ClaimLease THEN rows[r].age ELSE rows[r].age + 1
        BY <2>2 DEF Later, RowRecord
      <4> QED BY <2>2, <4>1, <4>2
    <3> QED BY <2>3, <3>1, <3>2, <3>3, TimingAssumption
  <2>5. Accounted'
    BY <1>4, <2>1, <2>3 DEF Tick, Calm, Accounted
  <2>6. Working' /\ OneWinner'
    BY <1>4, <2>1 DEF Tick, Calm, Working, OneWinner
  <2> QED BY <2>4, <2>5, <2>6 DEF Calm
<1>5. ASSUME NEW s \in Sender, LoadContext(s) PROVE Calm'
  <2>1. [IdleSender EXCEPT !.pc = "digest", !.ready = bot, !.chats = chats].pc = "digest"
    BY DEF IdleSender
  <2> QED BY <1>5, <2>1, FreeStep DEF LoadContext
<1>6. ASSUME NEW s \in Sender, PassDigests(s) PROVE Calm'
  <2> DEFINE next == IF sender[s].ready THEN [sender[s] EXCEPT !.pc = "list"] ELSE IdleSender
  <2>1. next.pc \in {"list", "idle"}
    BY DEF IdleSender, Calm, OutboxTypeOK, SenderRecord
  <2> HIDE DEF next
  <2>2. sender' = [sender EXCEPT ![s] = next]
    BY <1>6 DEF PassDigests, next
  <2> QED BY <1>6, <2>1, <2>2, FreeStep DEF PassDigests
<1>7. ASSUME NEW s \in Sender, ListDue(s) PROVE Calm'
  <2> DEFINE next == IF Due = {} THEN IdleSender
                     ELSE [sender[s] EXCEPT !.pc = "claim",
                       !.due = {[row |-> r, attempts |-> rows[r].attempts] : r \in Oldest(Due)}]
  <2>1. next.pc \in {"claim", "idle"}
    BY DEF IdleSender, Calm, OutboxTypeOK, SenderRecord
  <2>2. sender' = [sender EXCEPT ![s] = next]
    BY <1>7 DEF ListDue
  <2> HIDE DEF next
  <2> QED BY <1>7, <2>1, <2>2, FreeStep DEF ListDue
<1>8. ASSUME NEW s \in Sender, NEW entry \in sender[s].due, Claim(s, entry) PROVE Calm'
  <2> DEFINE r == entry.row
  <2>0. entry \in [row : Row, attempts : Nat] /\ r \in Row
    BY DEF Calm, OutboxTypeOK, SenderRecord
  <2>1. CASE ~Claimable(r)
    <3>1. Onward(s, sender[s].due \ {entry}).pc \in {"idle", "claim"}
      BY OnwardFree DEF Calm
    <3> QED BY <1>8, <2>1, <3>1, FreeStep DEF Claim
  <2>2. CASE Claimable(r)
    <3>1. /\ rows' = [rows EXCEPT ![r] = Claimed(@)]
          /\ sender' = [sender EXCEPT ![s] = Winner(s, entry)]
          /\ UNCHANGED <<posted, unacked>>
          /\ sender[s].pc = "claim"
      BY <1>8, <2>2 DEF Claim
    <3>2. /\ Winner(s, entry).pc \in {"send", "skip"}
          /\ Winner(s, entry).job.row = r
      BY DEF Winner, Calm, OutboxTypeOK, SenderRecord
    <3>3. /\ \A t \in Sender : sender'[t] = IF t = s THEN Winner(s, entry) ELSE sender[t]
          /\ \A q \in Row : rows'[q] = IF q = r THEN Claimed(rows[q]) ELSE rows[q]
      BY <3>1 DEF Calm, OutboxTypeOK
    <3>4. \A t \in Sender : ~Holds(t, r)
      <4>1. rows[r].age \in Int
        BY <2>0, TimingAssumption DEF Calm, OutboxTypeOK, RowRecord, Unclaimed
      <4> QED BY <2>0, <2>2, <4>1, TimingAssumption DEF Calm, Protected, Claimable
    <3>5. \A t \in Sender, q \in Row : /\ Holds(t, q)' <=> Holds(t, q) \/ (t = s /\ q = r)
                                       /\ Delivered(t, q)' <=> Delivered(t, q)
      BY <3>1, <3>2, <3>3 DEF Holds, Delivered
    <3>6. /\ Claimed(rows[r]).status = "PENDING"
          /\ Claimed(rows[r]).age = 0
      BY <2>0, <2>2 DEF Claimed, Claimable, Calm, OutboxTypeOK, RowRecord
    <3>7. Working'
      BY <2>0, <3>2, <3>3 DEF Calm, Working
    <3>8. OneWinner'
      BY <3>4, <3>5 DEF Calm, OneWinner
    <3>9. Protected'
      BY <3>3, <3>5, <3>6, TimingAssumption DEF Calm, Protected
    <3>10. Accounted'
      BY <2>2, <3>1, <3>3, <3>5, <3>6 DEF Calm, Accounted, Claimable
    <3> QED BY <3>7, <3>8, <3>9, <3>10 DEF Calm
  <2> QED BY <2>1, <2>2
<1>9. ASSUME NEW s \in Sender, sender[s].pc \in {"skip", "send", "settle"}
      PROVE  /\ sender[s].job.row \in Row
             /\ Holds(s, sender[s].job.row)
             /\ rows[sender[s].job.row].status = "PENDING"
             /\ \A t \in Sender : Delivered(t, sender[s].job.row) => t = s
  BY <1>9 DEF Calm, Working, Holds, Delivered, Protected, OneWinner
<1>10. ASSUME NEW s \in Sender
       PROVE  Onward(s, sender[s].due).pc \notin {"skip", "send", "settle"}
  BY OnwardFree DEF Calm
<1>11. ASSUME NEW s \in Sender, Skip(s) PROVE Calm'
  <2> DEFINE r == sender[s].job.row
  <2>1. posted[r] = unacked[r]
    BY <1>9, <1>11 DEF Skip, Calm, Accounted, Delivered
  <2>2. \A q \in Row : q # r => rows'[q] = rows[q]
    BY <1>11 DEF Skip, Calm, OutboxTypeOK
  <2>3. sender' = [sender EXCEPT ![s] = Onward(s, sender[s].due)] /\ UNCHANGED <<posted, unacked>>
    BY <1>11 DEF Skip
  <2>4. r \in Row /\ Holds(s, r)
    BY <1>9, <1>11 DEF Skip
  <2> HIDE DEF r
  <2> QED BY <1>10, <2>1, <2>2, <2>3, <2>4, LetGo
<1>12. ASSUME NEW s \in Sender, Post(s) PROVE Calm'
  <2>0. PICK r \in Row : r = sender[s].job.row
    BY <1>9, <1>12 DEF Post
  <2>1. PICK reaches \in BOOLEAN, answered \in BOOLEAN :
            /\ sender' = [sender EXCEPT ![s] =
                 [@ EXCEPT !.pc = "settle", !.ok = reaches /\ answered]]
            /\ posted' = IF reaches THEN [posted EXCEPT ![r] = @ + 1] ELSE posted
            /\ unacked' = IF reaches /\ ~answered
                          THEN [unacked EXCEPT ![r] = @ + 1] ELSE unacked
    BY <1>12, <2>0 DEF Post
  <2>2. sender[s].pc = "send" /\ UNCHANGED rows
    BY <1>12 DEF Post
  <2>3. /\ Holds(s, r)
        /\ rows[r].status = "PENDING"
        /\ posted[r] = unacked[r]
        /\ \A t \in Sender : ~Delivered(t, r)
    BY <1>9, <2>0, <2>2 DEF Calm, Accounted, Delivered
  <2>4. \A t \in Sender \ {s} : sender'[t] = sender[t]
    BY <2>1 DEF Calm, OutboxTypeOK
  <2>5. sender'[s].pc = "settle" /\ sender'[s].job.row = r /\ sender'[s].ok = (reaches /\ answered)
    BY <2>0, <2>1 DEF Calm, OutboxTypeOK, SenderRecord
  <2>6. \A t \in Sender, q \in Row : Holds(t, q)' <=> Holds(t, q)
    BY <2>0, <2>2, <2>4, <2>5 DEF Holds
  <2>7. Delivered(s, r)' <=> reaches /\ answered
    BY <2>3, <2>5, <2>6 DEF Delivered
  <2>8. \A t \in Sender, q \in Row : t # s \/ q # r => (Delivered(t, q)' <=> Delivered(t, q))
    BY <2>0, <2>2, <2>4, <2>5, <2>6 DEF Delivered, Holds
  <2>9. Working'
    BY <2>3, <2>4, <2>5 DEF Calm, Working
  <2>10. OneWinner' /\ Protected'
    BY <2>2, <2>6 DEF Calm, OneWinner, Protected
  <2>11. posted \in [Row -> Nat] /\ unacked \in [Row -> Nat]
    BY DEF Calm, OutboxTypeOK
  <2>12. Accounted'
    <3> SUFFICES ASSUME NEW q \in Row
                 PROVE  (\/ posted[q] = unacked[q] /\ \A t \in Sender : ~Delivered(t, q)
                         \/ /\ posted[q] = unacked[q] + 1
                            /\ rows[q].status = "SENT" \/ \E t \in Sender : Delivered(t, q))'
      BY DEF Accounted
    <3>1. CASE q # r
      <4>1. posted'[q] = posted[q] /\ unacked'[q] = unacked[q]
        BY <2>1, <2>11, <3>1
      <4> QED BY <2>2, <2>8, <3>1, <4>1 DEF Calm, Accounted
    <3>2. CASE q = r /\ reaches /\ answered
      <4>1. posted'[r] = posted[r] + 1 /\ unacked'[r] = unacked[r]
        BY <2>1, <2>3, <2>11, <3>2
      <4> QED BY <2>3, <2>7, <3>2, <4>1
    <3>3. CASE q = r /\ reaches /\ ~answered
      <4>1. posted'[r] = posted[r] + 1 /\ unacked'[r] = unacked[r] + 1
        BY <2>1, <2>3, <2>11, <3>3
      <4> QED BY <2>3, <2>7, <2>8, <3>3, <4>1
    <3>4. CASE q = r /\ ~reaches
      <4>1. posted'[r] = posted[r] /\ unacked'[r] = unacked[r]
        BY <2>1, <3>4
      <4> QED BY <2>3, <2>7, <2>8, <3>4, <4>1
    <3> QED BY <3>1, <3>2, <3>3, <3>4
  <2> QED BY <2>9, <2>10, <2>12 DEF Calm
<1>13. ASSUME NEW s \in Sender, MarkSent(s) PROVE Calm'
  <2> DEFINE r == sender[s].job.row
  <2>1. r \in Row /\ Holds(s, r) /\ Delivered(s, r)
    BY <1>9, <1>13 DEF MarkSent, Delivered
  <2>2. posted[r] = unacked[r] + 1
    BY <2>1 DEF Calm, Accounted
  <2>3. rows'[r].status = "SENT" /\ \A q \in Row : q # r => rows'[q] = rows[q]
    BY <1>13, <2>1 DEF MarkSent, Calm, OutboxTypeOK, RowRecord
  <2>4. sender' = [sender EXCEPT ![s] = Onward(s, sender[s].due)] /\ UNCHANGED <<posted, unacked>>
    BY <1>13 DEF MarkSent
  <2> HIDE DEF r
  <2> QED BY <1>10, <2>1, <2>2, <2>3, <2>4, LetGo
<1>14. ASSUME NEW s \in Sender, MarkFailed(s) PROVE Calm'
  <2> DEFINE r == sender[s].job.row
  <2>1. r \in Row /\ Holds(s, r)
    BY <1>9, <1>14 DEF MarkFailed
  <2>2. posted[r] = unacked[r]
    BY <1>9, <1>14, <2>1 DEF MarkFailed, Delivered, Calm, Accounted
  <2>3. \A q \in Row : q # r => rows'[q] = rows[q]
    BY <1>14 DEF MarkFailed, Calm, OutboxTypeOK
  <2>4. sender' = [sender EXCEPT ![s] = Onward(s, sender[s].due)] /\ UNCHANGED <<posted, unacked>>
    BY <1>14 DEF MarkFailed
  <2> HIDE DEF r
  <2> QED BY <1>10, <2>1, <2>2, <2>3, <2>4, LetGo
<1>15. ASSUME NEW s \in Sender, Abandon(s) PROVE Calm'
  <2> DEFINE r == sender[s].job.row
  <2>1. sender' = [sender EXCEPT ![s] = IdleSender] /\ IdleSender.pc = "idle" /\ UNCHANGED <<rows, posted>>
    BY <1>15 DEF Abandon, IdleSender
  <2>2. CASE sender[s].pc \notin {"skip", "send", "settle"}
    <3>1. UNCHANGED unacked
      BY <1>15, <2>2 DEF Abandon
    <3> QED BY <2>1, <2>2, <3>1, FreeStep
  <2>3. CASE sender[s].pc \in {"skip", "send", "settle"}
    <3>1. r \in Row /\ Holds(s, r) /\ rows[r].status = "PENDING"
      BY <1>9, <2>3
    <3>2. unacked \in [Row -> Nat] /\ posted \in [Row -> Nat]
      BY DEF Calm, OutboxTypeOK
    <3>3. unacked' = IF Delivered(s, r) THEN [unacked EXCEPT ![r] = @ + 1] ELSE unacked
      BY <1>15, <3>1 DEF Abandon, Delivered
    <3>4. posted'[r] = unacked'[r]
      <4>1. CASE Delivered(s, r)
        BY <2>1, <3>1, <3>2, <3>3, <4>1 DEF Calm, Accounted
      <4>2. CASE ~Delivered(s, r)
        BY <1>9, <2>1, <2>3, <3>1, <3>3, <4>2 DEF Calm, Accounted
      <4> QED BY <4>1, <4>2
    <3>5. \A q \in Row : q # r => unacked'[q] = unacked[q]
      BY <3>2, <3>3
    <3> HIDE DEF r
    <3> QED BY <2>1, <3>1, <3>4, <3>5, LetGo
  <2> QED BY <2>2, <2>3
<1>16. ASSUME NEW s \in Sender, NEW r \in Row, NEW empty \in BOOLEAN, AddDigest(s, r, empty)
       PROVE Calm'
  BY <1>16, RowChange DEF AddDigest, Fresh, Calm, OutboxTypeOK
<1>17. CASE UNCHANGED outboxVars
  BY <1>17, RowChange DEF outboxVars
<1> QED
  BY <1>1, <1>2, <1>3, <1>4, <1>5, <1>6, <1>7, <1>8, <1>11, <1>12, <1>13, <1>14, <1>15, <1>16,
     <1>17 DEF OutboxNext, Work

\* The initial state is calm.
LEMMA CalmInit == OutboxInit /\ OutboxTypeOK => Calm
BY DEF OutboxInit, Calm, IdleSender, NoRow, Working, Protected, OneWinner, Accounted, Holds, Delivered

\* The invariant of a system whose senders do not outlive their lease.
THEOREM CalmHolds ==
  ASSUME SlowSenders = FALSE
  PROVE  OutboxSpec => []Calm
<1>1. OutboxInit /\ OutboxTypeOK => Calm
  BY CalmInit
<1>2. Calm /\ OutboxTypeOK' /\ [OutboxNext]_outboxVars => Calm'
  BY CalmStep
<1> QED BY <1>1, <1>2, OutboxTypeCorrect, PTL DEF OutboxSpec

\* The claim picks one winner: two senders never work on the same row, for
\* any number of them and however old their lists are.
THEOREM OneWinnerHolds ==
  ASSUME SlowSenders = FALSE
  PROVE  OutboxSpec => []OneWinner
<1>1. Calm => OneWinner
  BY DEF Calm
<1> QED BY <1>1, CalmHolds, PTL

\* A group sees a message again only for every answer that was lost.
THEOREM SentOnceHolds ==
  ASSUME SlowSenders = FALSE
  PROVE  OutboxSpec => []SentOnce
<1>1. Calm => SentOnce
  BY DEF Calm, OutboxTypeOK, Accounted, SentOnce
<1> QED BY <1>1, CalmHolds, PTL

-----------------------------------------------------------------------------
(* The refinement of NotificationRow.                                      *)

StatusOf == [r \in Row |-> rows[r].status]

\* A step that gives at most one waiting row a verdict keeps the promise.
LEMMA VerdictKept ==
  ASSUME OutboxTypeOK, OutboxTypeOK', NEW r \in Row, NEW row,
         rows[r].status = "PENDING",
         rows' = [rows EXCEPT ![r] = row],
         row.status \in {"PENDING", "SENT", "SKIPPED", "FAILED"}
  PROVE  [Promise!Next]_StatusOf
<1>1. /\ \A q \in Row : rows'[q] = IF q = r THEN row ELSE rows[q]
      /\ StatusOf' = [q \in Row |-> rows'[q].status]
  BY DEF OutboxTypeOK, StatusOf
<1>2. CASE row.status = "PENDING"
  <2>1. \A q \in Row : rows'[q].status = rows[q].status
    BY <1>1, <1>2
  <2> QED BY <1>1, <2>1 DEF StatusOf
<1>3. CASE row.status \in {"SENT", "SKIPPED", "FAILED"}
  <2>1. StatusOf' = [StatusOf EXCEPT ![r] = row.status]
    <3>1. \A q \in Row : rows'[q].status = IF q = r THEN row.status ELSE rows[q].status
      BY <1>1
    <3>2. StatusOf' = [q \in Row |-> IF q = r THEN row.status ELSE rows[q].status]
      BY <1>1, <3>1
    <3> QED BY <3>2 DEF StatusOf
  <2>2. Promise!Settle(r, row.status)
    BY <1>3, <2>1 DEF Promise!Settle, StatusOf
  <2> QED BY <1>3, <2>2 DEF Promise!Next, Promise!Status
<1> QED BY <1>2, <1>3

\* A step that creates a row keeps the promise.
LEMMA BirthKept ==
  ASSUME OutboxTypeOK, OutboxTypeOK', NEW r \in Row, NEW verdict \in {"PENDING", "SKIPPED"},
         rows[r].status = "NONE",
         rows' = [rows EXCEPT ![r] = Born(verdict)]
  PROVE  [Promise!Next]_StatusOf
<1>1. Born(verdict).status = verdict
  BY DEF Born, NoRow
<1>2. StatusOf' = [StatusOf EXCEPT ![r] = verdict]
  BY <1>1 DEF StatusOf, OutboxTypeOK
<1>3. Promise!Birth(r, verdict)
  BY <1>2 DEF Promise!Birth, StatusOf
<1> QED BY <1>3 DEF Promise!Next, Promise!Status

\* Every step of the outbox is a step of its promise or leaves it alone.
LEMMA PromiseStep ==
  ASSUME Calm, OutboxTypeOK', [OutboxNext]_outboxVars
  PROVE  [Promise!Next]_StatusOf
<1>0. OutboxTypeOK
  BY DEF Calm
<1>1. ASSUME UNCHANGED rows PROVE [Promise!Next]_StatusOf
  BY <1>1 DEF StatusOf
<1>2. ASSUME NEW r \in Row, Emit(r) PROVE [Promise!Next]_StatusOf
  BY <1>0, <1>2, BirthKept DEF Emit, Fresh
<1>3. CASE RetryFailed
  <2>1. Born("PENDING").status = "PENDING"
    BY DEF Born, NoRow
  <2>2. StatusOf' = [r \in Row |-> IF StatusOf[r] = "FAILED" THEN "PENDING" ELSE StatusOf[r]]
    BY <1>3, <2>1 DEF RetryFailed, StatusOf
  <2> QED BY <2>2 DEF Promise!Next, Promise!Reopen, StatusOf
<1>4. CASE Tick
  <2>1. \A r \in Row : rows[r] \in RowRecord
    BY <1>0 DEF OutboxTypeOK
  <2>2. \A r \in Row : rows'[r].status = rows[r].status
    BY <1>4, <2>1 DEF Tick, Later, RowRecord
  <2> QED BY <2>2 DEF StatusOf
<1>5. ASSUME NEW s \in Sender, NEW entry \in sender[s].due, Claim(s, entry)
      PROVE  [Promise!Next]_StatusOf
  <2>1. CASE UNCHANGED rows
    BY <1>1, <2>1
  <2>2. CASE Claimable(entry.row) /\ rows' = [rows EXCEPT ![entry.row] = Claimed(@)]
    <3>1. entry.row \in Row /\ rows[entry.row].status = "PENDING"
      BY <1>0, <2>2 DEF OutboxTypeOK, SenderRecord, Claimable
    <3>2. Claimed(rows[entry.row]).status = "PENDING"
      BY <1>0, <3>1 DEF OutboxTypeOK, RowRecord, Claimed
    <3> QED BY <1>0, <2>2, <3>1, <3>2, VerdictKept
  <2> QED BY <1>5, <2>1, <2>2 DEF Claim
<1>6. ASSUME NEW s \in Sender, sender[s].pc \in {"skip", "settle"}
      PROVE  /\ sender[s].job.row \in Row
             /\ rows[sender[s].job.row].status = "PENDING"
             /\ rows[sender[s].job.row] \in RowRecord
  BY <1>6 DEF Calm, Working, Holds, Protected, OutboxTypeOK
<1>7. ASSUME NEW s \in Sender, Skip(s) PROVE [Promise!Next]_StatusOf
  <2>1. PICK r \in Row : r = sender[s].job.row
    BY <1>6, <1>7 DEF Skip
  <2>2. [rows[r] EXCEPT !.status = "SKIPPED", !.age = Unclaimed].status = "SKIPPED"
    BY <1>6, <1>7, <2>1 DEF Skip, RowRecord
  <2> QED BY <1>0, <1>6, <1>7, <2>1, <2>2, VerdictKept DEF Skip
<1>8. ASSUME NEW s \in Sender, MarkSent(s) PROVE [Promise!Next]_StatusOf
  <2>1. PICK r \in Row : r = sender[s].job.row
    BY <1>6, <1>8 DEF MarkSent
  <2>2. [rows[r] EXCEPT !.status = "SENT", !.age = Unclaimed].status = "SENT"
    BY <1>6, <1>8, <2>1 DEF MarkSent, RowRecord
  <2> QED BY <1>0, <1>6, <1>8, <2>1, <2>2, VerdictKept DEF MarkSent
<1>9. ASSUME NEW s \in Sender, MarkFailed(s) PROVE [Promise!Next]_StatusOf
  <2>1. PICK r \in Row : r = sender[s].job.row
    BY <1>6, <1>9 DEF MarkFailed
  <2> DEFINE row == AfterFailure(rows[r], sender[s].job.attempts + 1)
  <2>2. row.status \in {"PENDING", "FAILED"}
    BY <1>6, <1>9, <2>1 DEF MarkFailed, RowRecord, AfterFailure
  <2>3. rows' = [rows EXCEPT ![r] = row]
    BY <1>9, <2>1 DEF MarkFailed
  <2> HIDE DEF row
  <2> QED BY <1>0, <1>6, <1>9, <2>1, <2>2, <2>3, VerdictKept DEF MarkFailed
<1>10. ASSUME NEW s \in Sender, NEW r \in Row, NEW empty \in BOOLEAN, AddDigest(s, r, empty)
       PROVE  [Promise!Next]_StatusOf
  BY <1>0, <1>10, BirthKept DEF AddDigest, Fresh
<1>11. ASSUME NEW s \in Sender,
              \/ LoadContext(s) \/ PassDigests(s) \/ ListDue(s) \/ Post(s) \/ Abandon(s)
       PROVE  [Promise!Next]_StatusOf
  BY <1>1, <1>11 DEF LoadContext, PassDigests, ListDue, Post, Abandon
<1>12. CASE SaveTelegramConfig \/ SaveChatIds \/ UNCHANGED outboxVars
  BY <1>1, <1>12 DEF SaveTelegramConfig, SaveChatIds, outboxVars
<1> QED
  BY <1>2, <1>3, <1>4, <1>5, <1>7, <1>8, <1>9, <1>10, <1>11, <1>12 DEF OutboxNext, Work

\* The outbox implements NotificationRow: each row has one life, whatever
\* number of senders work on it.
THEOREM PromiseIsKept ==
  ASSUME SlowSenders = FALSE
  PROVE  OutboxSpec => PromiseKept
<1>1. OutboxInit => Promise!Init
  BY DEF OutboxInit, NoRow, Promise!Init
<1>2. Calm /\ OutboxTypeOK' /\ [OutboxNext]_outboxVars => [Promise!Next]_StatusOf
  BY PromiseStep
<1>3. [Promise!Next]_StatusOf => [Promise!Next]_([r \in Row |-> rows[r].status])
  BY DEF StatusOf
<1> QED BY <1>1, <1>2, <1>3, OutboxTypeCorrect, CalmHolds, PTL DEF OutboxSpec, PromiseKept, Promise!Spec

-----------------------------------------------------------------------------
(* The digests *)

\* The date of the passes that may be running: yesterday's until the digest
\* hour of today.
PassDay == IF late THEN day ELSE day - 1

\* All running passes began in the same late part of a day.
SameDay ==
  \A s \in Dispatcher : dispatcher[s].pc # "idle" => dispatcher[s].day \in Day /\ dispatcher[s].day = PassDay

\* No digest is ahead of the running passes, and one of them is the last.
DigestsKnown ==
  \A k \in Kind :
    /\ \A d \in Digests(k) : d <= PassDay
    /\ Digests(k) = {} \/ \E d \in Digests(k) : \A e \in Digests(k) : e <= d

\* A digest lists its own day, nothing later, and nothing that an earlier
\* digest could have listed.
Stacked ==
  \A k \in Kind : \A d \in Digests(k) :
    /\ d \in covers[k][d]
    /\ \A x \in covers[k][d] : x <= d /\ \A e \in Digests(k) : e < d => e < x

\* A sender about to insert remembers the last digest, unless another one
\* has inserted the row of the day meanwhile.
Informed ==
  \A s \in Dispatcher, k \in Kind :
    dispatcher[s].pc = "insert" /\ dispatcher[s].kind = k /\ dispatcher[s].day \notin Digests(k) =>
      \/ dispatcher[s].last = None /\ Digests(k) = {}
      \/ dispatcher[s].last \in Digests(k) /\ \A d \in Digests(k) : d <= dispatcher[s].last

Inv == DigestTypeOK /\ SameDay /\ DigestsKnown /\ Stacked /\ Informed /\ NoDayMissed

DispatchRecord ==
  [pc : {"idle", "read", "insert"}, kind : Kind,
   day : Day \cup {None}, last : Day \cup {None}]

\* The greatest digest, once there is one.
LEMMA LastIsGreatest ==
  ASSUME DigestsKnown, NEW k \in Kind
  PROVE  \/ Last(k) = None /\ Digests(k) = {}
         \/ Last(k) \in Digests(k) /\ \A d \in Digests(k) : d <= Last(k)
BY DEF DigestsKnown, Last

\* A pass goes on to the other kind or ends.
LEMMA NextKindType ==
  ASSUME DigestTypeOK, NEW s \in Dispatcher
  PROVE  /\ NextKind(s) \in DispatchRecord
         /\ NextKind(s).pc \in {"idle", "read"}
         /\ NextKind(s).pc # "idle" => NextKind(s).day = dispatcher[s].day
<1>1. dispatcher[s] \in DispatchRecord
  BY DEF DigestTypeOK, DispatchRecord
<1>2. CASE dispatcher[s].kind = "cold"
  BY <1>1, <1>2 DEF NextKind, DispatchRecord, Kind, None
<1>3. CASE dispatcher[s].kind # "cold"
  BY <1>3 DEF NextKind, DispatchRecord, Kind, None, NoDispatch
<1> QED BY <1>2, <1>3

\* The window after the last digest: days of the calendar, up to today, each
\* after that digest, and today is one of them.
LEMMA WindowAfterLast ==
  ASSUME NEW today \in Day, NEW last \in Day \cup {None}, last < today
  PROVE  /\ Window(today, last) \subseteq Day
         /\ today \in Window(today, last)
         /\ \A x \in Window(today, last) : x <= today /\ last < x
         /\ last = None => Window(today, last) = {today}
         /\ last # None => \A x \in Day :
              last < x /\ x <= today /\ today - CatchUp < x => x \in Window(today, last)
BY DayAssumption DEF Day, None, Window, LaterOf

\* A step that only moves a sender, and to a place where it owes nothing.
LEMMA DispatchStep ==
  ASSUME Inv, NEW s \in Dispatcher, NEW next \in DispatchRecord,
         dispatcher' = [dispatcher EXCEPT ![s] = next], UNCHANGED <<day, late, covers>>,
         next.pc # "insert",
         next.pc # "idle" => next.day \in Day /\ next.day = PassDay
  PROVE  Inv'
<1>1. \A t \in Dispatcher : dispatcher'[t] = IF t = s THEN next ELSE dispatcher[t]
  BY DEF Inv, DigestTypeOK
<1>2. DigestTypeOK'
  BY DEF Inv, DigestTypeOK, DispatchRecord
<1>3. PassDay' = PassDay /\ \A k \in Kind : Digests(k)' = Digests(k)
  BY DEF PassDay, Digests
<1>4. SameDay'
  BY <1>1, <1>3 DEF Inv, SameDay
<1>5. DigestsKnown' /\ Stacked' /\ NoDayMissed'
  BY <1>3 DEF Inv, DigestsKnown, Stacked, NoDayMissed
<1>6. Informed'
  <2> SUFFICES ASSUME NEW t \in Dispatcher, NEW j \in Kind, dispatcher'[t].pc = "insert",
                      dispatcher'[t].kind = j, dispatcher'[t].day \notin Digests(j)'
               PROVE  \/ dispatcher'[t].last = None /\ Digests(j)' = {}
                      \/ /\ dispatcher'[t].last \in Digests(j)'
                         /\ \A d \in Digests(j)' : d <= dispatcher'[t].last
    BY DEF Informed
  <2>1. t # s /\ dispatcher'[t] = dispatcher[t]
    BY <1>1
  <2> QED BY <1>3, <2>1 DEF Inv, Informed
<1> QED BY <1>2, <1>4, <1>5, <1>6 DEF Inv

\* The row of the day is inserted: the new digest stacks on the others.
LEMMA InsertStep ==
  ASSUME Inv, NEW s \in Dispatcher, Insert(s), dispatcher[s].day \notin Digests(dispatcher[s].kind)
  PROVE  Inv'
<1>1. PICK k \in Kind, today \in Day, last \in Day \cup {None} :
        k = dispatcher[s].kind /\ today = dispatcher[s].day /\ last = dispatcher[s].last
  BY DEF Inv, DigestTypeOK, SameDay, Insert
<1>2. /\ covers' = [covers EXCEPT ![k][today] = Window(today, last)]
      /\ dispatcher' = [dispatcher EXCEPT ![s] = NextKind(s)]
      /\ day' = day /\ late' = late
      /\ today = PassDay
      /\ today \notin Digests(k)
  BY <1>1 DEF Insert, Inv, SameDay
<1>3. \/ last = None /\ Digests(k) = {}
      \/ last \in Digests(k) /\ \A d \in Digests(k) : d <= last
  BY <1>1 DEF Insert, Inv, Informed
<1>4. last < today
  BY <1>2, <1>3, DayAssumption DEF Inv, DigestsKnown, Day, None, Digests
<1>5. /\ Window(today, last) \subseteq Day
      /\ today \in Window(today, last)
      /\ \A x \in Window(today, last) : x <= today /\ last < x
  BY <1>4, WindowAfterLast
<1>6. /\ covers' \in [Kind -> [Day -> SUBSET Day]]
      /\ \A j \in Kind, d \in Day :
           covers'[j][d] = IF j = k /\ d = today THEN Window(today, last) ELSE covers[j][d]
  BY <1>2, <1>5 DEF Inv, DigestTypeOK
<1>7. \A t \in Dispatcher : dispatcher'[t] = IF t = s THEN NextKind(s) ELSE dispatcher[t]
  BY <1>2 DEF Inv, DigestTypeOK
<1>8. /\ PassDay' = PassDay
      /\ \A j \in Kind : Digests(j)' = IF j = k THEN Digests(k) \cup {today} ELSE Digests(j)
  <2>1. PassDay' = PassDay
    BY <1>2 DEF PassDay
  <2>2. ASSUME NEW j \in Kind, j # k PROVE Digests(j)' = Digests(j)
    BY <1>6, <2>2 DEF Digests
  <2>3. Digests(k)' = Digests(k) \cup {today}
    <3>1. \A d \in Day : covers'[k][d] # {} <=> d = today \/ covers[k][d] # {}
      BY <1>5, <1>6
    <3> QED BY <3>1 DEF Digests
  <2> QED BY <2>1, <2>2, <2>3
<1>9. DigestTypeOK'
  BY <1>2, <1>6, NextKindType DEF Inv, DigestTypeOK, DispatchRecord
<1>10. SameDay'
  <2> SUFFICES ASSUME NEW t \in Dispatcher, dispatcher'[t].pc # "idle"
               PROVE  dispatcher'[t].day \in Day /\ dispatcher'[t].day = PassDay
    BY <1>8 DEF SameDay
  <2>1. CASE t = s
    BY <1>1, <1>2, <1>7, <2>1, NextKindType DEF Inv
  <2>2. CASE t # s
    BY <1>7, <2>2 DEF Inv, SameDay
  <2> QED BY <2>1, <2>2
<1>11. \A d \in Digests(k) : d \in Day /\ d <= last /\ d < today
  BY <1>3, <1>4, DayAssumption DEF Digests, Day, None
<1>12. DigestsKnown'
  <2>1. \A d \in Digests(k)' : d <= PassDay /\ d <= today
    BY <1>2, <1>8, <1>11, DayAssumption DEF Day
  <2> QED BY <1>8, <2>1 DEF Inv, DigestsKnown
<1>13. Stacked'
  <2> SUFFICES ASSUME NEW j \in Kind, NEW d \in Digests(j)'
               PROVE  /\ d \in covers'[j][d]
                      /\ \A x \in covers'[j][d] :
                           x <= d /\ \A e \in Digests(j)' : e < d => e < x
    BY DEF Stacked
  <2>0. d \in Day
    BY DEF Digests
  <2>1. CASE j = k /\ d = today
    <3>1. ASSUME NEW x \in Window(today, last), NEW e \in Digests(k)', e < today PROVE e < x
      <4>1. e \in Digests(k) /\ e <= last /\ last < x
        BY <1>5, <1>8, <1>11, <3>1, DayAssumption DEF Day
      <4>2. e \in Int /\ x \in Int /\ last \in Int
        BY <1>5, <1>11, <4>1, DayAssumption DEF Day, None
      <4> QED BY <4>1, <4>2
    <3> QED BY <1>5, <1>6, <2>1, <3>1
  <2>2. CASE ~(j = k /\ d = today)
    <3>1. d \in Digests(j) /\ covers'[j][d] = covers[j][d]
      BY <1>6, <1>8, <2>0, <2>2
    <3>2. \A e \in Digests(j)' : e < d => e \in Digests(j)
      BY <1>8, <1>11, <3>1, DayAssumption DEF Day
    <3> QED BY <3>1, <3>2 DEF Inv, Stacked
  <2> QED BY <2>1, <2>2
<1>14. Informed'
  <2> SUFFICES ASSUME NEW t \in Dispatcher, NEW j \in Kind, dispatcher'[t].pc = "insert",
                      dispatcher'[t].kind = j, dispatcher'[t].day \notin Digests(j)'
               PROVE  \/ dispatcher'[t].last = None /\ Digests(j)' = {}
                      \/ /\ dispatcher'[t].last \in Digests(j)'
                         /\ \A d \in Digests(j)' : d <= dispatcher'[t].last
    BY DEF Informed
  <2>1. t # s /\ dispatcher'[t] = dispatcher[t]
    BY <1>7, NextKindType DEF Inv
  <2>2. dispatcher[t].day = today
    BY <1>2, <2>1 DEF Inv, SameDay
  <2>3. j # k
    BY <1>8, <2>1, <2>2
  <2> QED BY <1>8, <2>1, <2>3 DEF Inv, Informed
<1>15. NoDayMissed'
  <2> SUFFICES ASSUME NEW j \in Kind, NEW d \in Digests(j)', NEW e \in Day,
                      d - CatchUp < e, e <= d, NEW f \in Digests(j)', f <= e
               PROVE  \E g \in Digests(j)' : e \in covers'[j][g]
    BY DEF NoDayMissed
  <2>0. d \in Day /\ f \in Day
    BY DEF Digests
  <2>1. \A c \in Digests(j) : c - CatchUp < e /\ e <= c /\ f \in Digests(j)
                              => \E g \in Digests(j)' : e \in covers'[j][g]
    <3> SUFFICES ASSUME NEW c \in Digests(j), c - CatchUp < e, e <= c, f \in Digests(j)
                 PROVE  \E g \in Digests(j)' : e \in covers'[j][g]
      OBVIOUS
    <3>1. PICK g \in Digests(j) : e \in covers[j][g]
      BY DEF Inv, NoDayMissed
    <3>2. g \in Day /\ ~(j = k /\ g = today)
      BY <1>2 DEF Digests
    <3> QED BY <1>6, <1>8, <3>1, <3>2
  <2>2. CASE j = k /\ e = today
    BY <1>5, <1>6, <1>8, <2>2
  <2>3. CASE ~(j = k /\ e = today) /\ d \in Digests(j)
    <3>1. f \in Digests(j)
      BY <1>8, <1>11, <2>0, <2>3, DayAssumption DEF Day
    <3> QED BY <2>1, <2>3, <3>1
  <2>4. CASE ~(j = k /\ e = today) /\ d \notin Digests(j)
    <3>1. j = k /\ d = today /\ e < today
      BY <1>8, <2>0, <2>4, DayAssumption DEF Day
    <3>2. f \in Digests(k) /\ last \in Digests(k)
      BY <1>3, <1>8, <2>0, <3>1, DayAssumption DEF Day
    <3>3. last \in Day
      BY <3>2 DEF Digests
    <3>4. CASE last < e
      <4>1. e \in Window(today, last)
        BY <1>4, <3>1, <3>3, <3>4, WindowAfterLast, DayAssumption DEF Day, None
      <4> QED BY <1>6, <1>8, <3>1, <4>1
    <3>5. CASE e <= last
      <4>1. last - CatchUp < e
        BY <1>4, <3>1, <3>3, DayAssumption DEF Day
      <4> QED BY <2>1, <3>1, <3>2, <3>5, <4>1
    <3> QED BY <3>3, <3>4, <3>5, DayAssumption DEF Day
  <2> QED BY <2>2, <2>3, <2>4
<1> QED BY <1>9, <1>10, <1>12, <1>13, <1>14, <1>15 DEF Inv

\* The inductive invariant.
THEOREM DigestInvariant == DigestSpec => []Inv
<1>1. DigestInit => Inv
  <2> SUFFICES ASSUME DigestInit PROVE Inv
    OBVIOUS
  <2>1. \A k \in Kind : Digests(k) = {}
    BY DEF DigestInit, Digests
  <2>2. DigestTypeOK
    <3>1. NoDispatch \in [pc : {"idle", "read", "insert"}, kind : Kind,
                    day : Day \cup {None}, last : Day \cup {None}]
      BY DEF NoDispatch, None, Kind
    <3>2. 1 \in Day
      BY DayAssumption DEF Day
    <3> QED BY <3>1, <3>2 DEF DigestInit, DigestTypeOK
  <2>3. SameDay /\ Informed
    BY DEF DigestInit, NoDispatch, SameDay, Informed
  <2>4. DigestsKnown /\ Stacked /\ NoDayMissed
    BY <2>1 DEF DigestsKnown, Stacked, NoDayMissed
  <2> QED BY <2>2, <2>3, <2>4 DEF Inv
<1>2. Inv /\ [DigestNext]_digestVars => Inv'
  <2> SUFFICES ASSUME Inv, [DigestNext]_digestVars PROVE Inv'
    OBVIOUS
  <2>0. NoDispatch \in DispatchRecord /\ NoDispatch.pc = "idle"
    BY DEF NoDispatch, DispatchRecord, None, Kind
  <2>1. CASE Morning
    <3>1. PassDay' = PassDay + 1 /\ PassDay \in Int
      BY <2>1, DayAssumption DEF Morning, PassDay, Inv, DigestTypeOK, Day
    <3>2. \A k \in Kind : Digests(k)' = Digests(k) /\ \A d \in Digests(k) : d \in Int
      BY <2>1 DEF Morning, Digests, Day
    <3>3. DigestsKnown'
      BY <3>1, <3>2 DEF Inv, DigestsKnown
    <3>4. DigestTypeOK' /\ SameDay' /\ Informed'
      BY <2>1 DEF Morning, Inv, DigestTypeOK, SameDay, Informed
    <3>5. Stacked' /\ NoDayMissed'
      BY <2>1, <3>2 DEF Morning, Inv, Stacked, NoDayMissed
    <3> QED BY <3>3, <3>4, <3>5 DEF Inv
  <2>2. CASE Midnight
    <3>1. PassDay' = PassDay
      BY <2>2, DayAssumption DEF Midnight, PassDay, Inv, DigestTypeOK, Day
    <3>2. \A k : Digests(k)' = Digests(k)
      BY <2>2 DEF Midnight, Digests
    <3>3. DigestTypeOK'
      <4>1. day + 1 \in Day
        BY <2>2, DayAssumption DEF Midnight, Inv, DigestTypeOK, Day
      <4> QED BY <2>2, <4>1 DEF Midnight, Inv, DigestTypeOK
    <3>4. SameDay' /\ DigestsKnown'
      BY <2>2, <3>1, <3>2 DEF Midnight, Inv, SameDay, DigestsKnown
    <3>5. Stacked' /\ NoDayMissed' /\ Informed'
      BY <2>2, <3>2 DEF Midnight, Inv, Stacked, NoDayMissed, Informed
    <3> QED BY <3>3, <3>4, <3>5 DEF Inv
  <2>3. ASSUME NEW s \in Dispatcher, BeginDigests(s) PROVE Inv'
    <3> DEFINE next == [NoDispatch EXCEPT !.pc = "read", !.day = day]
    <3>1. next \in DispatchRecord /\ next.pc = "read" /\ next.day = day
      BY DEF Inv, DigestTypeOK, NoDispatch, DispatchRecord, None, Kind
    <3>2. day \in Day /\ day = PassDay
      BY <2>3 DEF BeginDigests, Inv, DigestTypeOK, PassDay
    <3>3. dispatcher' = [dispatcher EXCEPT ![s] = next] /\ UNCHANGED <<day, late, covers>>
      BY <2>3 DEF BeginDigests
    <3> HIDE DEF next
    <3> QED BY <3>1, <3>2, <3>3, DispatchStep
  <2>4. ASSUME NEW s \in Dispatcher, ReadState(s) PROVE Inv'
    <3>0. /\ dispatcher[s] \in DispatchRecord
          /\ dispatcher[s].day \in Day
          /\ dispatcher[s].day = PassDay
          /\ dispatcher[s].kind \in Kind
          /\ UNCHANGED <<day, late, covers>>
      BY <2>4 DEF ReadState, Inv, DigestTypeOK, DispatchRecord, SameDay
    <3>1. CASE dispatcher' = [dispatcher EXCEPT ![s] = NextKind(s)]
      BY <3>0, <3>1, NextKindType, DispatchStep DEF Inv
    <3>2. CASE dispatcher' = [dispatcher EXCEPT ![s] =
                 [dispatcher[s] EXCEPT !.pc = "insert", !.last = Last(dispatcher[s].kind)]]
      <4> DEFINE next == [dispatcher[s] EXCEPT !.pc = "insert", !.last = Last(dispatcher[s].kind)]
      <4>1. \/ Last(dispatcher[s].kind) = None /\ Digests(dispatcher[s].kind) = {}
            \/ /\ Last(dispatcher[s].kind) \in Digests(dispatcher[s].kind)
               /\ \A d \in Digests(dispatcher[s].kind) : d <= Last(dispatcher[s].kind)
        BY <3>0, LastIsGreatest DEF Inv
      <4>2. Last(dispatcher[s].kind) \in Day \cup {None}
        BY <4>1 DEF Digests
      <4>3. /\ next \in DispatchRecord
            /\ next.pc = "insert"
            /\ next.kind = dispatcher[s].kind
            /\ next.day = dispatcher[s].day
            /\ next.last = Last(dispatcher[s].kind)
        BY <3>0, <4>2 DEF DispatchRecord
      <4> HIDE DEF next
      <4>4. \A t \in Dispatcher : dispatcher'[t] = IF t = s THEN next ELSE dispatcher[t]
        BY <3>2 DEF Inv, DigestTypeOK, next
      <4>5. PassDay' = PassDay /\ \A k : Digests(k)' = Digests(k)
        BY <3>0 DEF PassDay, Digests
      <4>6. DigestTypeOK'
        BY <3>0, <3>2, <4>3 DEF Inv, DigestTypeOK, DispatchRecord, next
      <4>7. SameDay'
        BY <3>0, <4>3, <4>4, <4>5 DEF Inv, SameDay
      <4>8. DigestsKnown' /\ Stacked' /\ NoDayMissed'
        BY <3>0, <4>5 DEF Inv, DigestsKnown, Stacked, NoDayMissed
      <4>9. Informed'
        BY <4>1, <4>3, <4>4, <4>5 DEF Inv, Informed
      <4> QED BY <4>6, <4>7, <4>8, <4>9 DEF Inv
    <3> QED BY <2>4, <3>1, <3>2 DEF ReadState
  <2>5. ASSUME NEW s \in Dispatcher, Insert(s) PROVE Inv'
    <3>1. CASE dispatcher[s].day \notin Digests(dispatcher[s].kind)
      BY <2>5, <3>1, InsertStep
    <3>2. CASE dispatcher[s].day \in Digests(dispatcher[s].kind)
      <4>1. dispatcher' = [dispatcher EXCEPT ![s] = NextKind(s)] /\ UNCHANGED <<day, late, covers>>
        BY <2>5, <3>2 DEF Insert
      <4>2. dispatcher[s].day \in Day /\ dispatcher[s].day = PassDay
        BY <2>5 DEF Insert, Inv, SameDay
      <4> QED BY <4>1, <4>2, NextKindType, DispatchStep DEF Inv
    <3> QED BY <3>1, <3>2
  <2>6. ASSUME NEW s \in Dispatcher, EndDispatch(s) PROVE Inv'
    BY <2>0, <2>6, DispatchStep DEF EndDispatch
  <2>7. CASE UNCHANGED digestVars
    <3>1. PassDay' = PassDay /\ \A k : Digests(k)' = Digests(k)
      BY <2>7 DEF digestVars, PassDay, Digests
    <3>2. DigestTypeOK' /\ SameDay' /\ Informed'
      BY <2>7, <3>1 DEF digestVars, Inv, DigestTypeOK, SameDay, Informed
    <3>3. DigestsKnown' /\ Stacked' /\ NoDayMissed'
      BY <2>7, <3>1 DEF digestVars, Inv, DigestsKnown, Stacked, NoDayMissed
    <3> QED BY <3>2, <3>3 DEF Inv
  <2> QED BY <2>1, <2>2, <2>3, <2>4, <2>5, <2>6, <2>7 DEF DigestNext
<1> QED BY <1>1, <1>2, PTL DEF DigestSpec

\* Type correctness: in particular no digest lists a day before the first one.
THEOREM DigestTypeCorrect == DigestSpec => []DigestTypeOK
<1>1. Inv => DigestTypeOK
  BY DEF Inv
<1> QED BY <1>1, DigestInvariant, PTL

\* No day is listed twice: of two digests the later lists only days after the
\* earlier one.
THEOREM CoveredOnceHolds == DigestSpec => []CoveredOnce
<1>1. Inv => CoveredOnce
  <2> SUFFICES ASSUME Inv, NEW k \in Kind, NEW d \in Day, NEW e \in Day, d # e,
                      NEW x \in covers[k][d], x \in covers[k][e]
               PROVE  FALSE
    BY DEF CoveredOnce
  <2>1. d \in Digests(k) /\ e \in Digests(k)
    BY DEF Digests
  <2>2. x \in Day
    BY DEF Inv, DigestTypeOK
  <2>3. x <= d /\ x <= e /\ (e < d => e < x) /\ (d < e => d < x)
    BY <2>1 DEF Inv, Stacked
  <2> QED BY <2>2, <2>3, DayAssumption DEF Day
<1> QED BY <1>1, DigestInvariant, PTL

\* No day within the catch-up is missed.
THEOREM NoDayMissedHolds == DigestSpec => []NoDayMissed
<1>1. Inv => NoDayMissed
  BY DEF Inv
<1> QED BY <1>1, DigestInvariant, PTL

---------------------------------------------------------------------------
(* Accounts, roles and sessions *)

LEMMA Given == Super \in Roles /\ StaffRole \in Roles /\ Super # StaffRole
BY AccessAssumption, Zenon

LEMMA Bounds == 0 \in 0 .. MaxSecrets /\ 1 \in 1 .. MaxRevision
<1>1. MaxRevision \in Nat \ {0} /\ MaxSecrets \in Nat \ {0}
  BY AccessAssumption, Zenon
<1> QED BY <1>1

LEMMA NextRevision ==
  ASSUME NEW n \in 1 .. MaxRevision, n < MaxRevision
  PROVE  n + 1 \in 1 .. MaxRevision
<1>1. MaxRevision \in Nat
  BY AccessAssumption, Zenon
<1> QED BY <1>1

LEMMA NextSecret ==
  ASSUME NEW n \in 0 .. MaxSecrets, n < MaxSecrets
  PROVE  n + 1 \in 0 .. MaxSecrets
<1>1. MaxSecrets \in Nat
  BY AccessAssumption, Zenon
<1> QED BY <1>1

---------------------------------------------------------------------------
(* Types *)

\* The statements of the handlers, with what was read for each.
SignInJobs == [step : {"gate", "session"}, operator : Operators, row : OperatorRows, role : RoleRows]
EditJobs == [step : {"edit"}, operator : Operators, row : OperatorForms, supers : SUBSET Operators]
RemoveJobs == [step : {"remove"}, operator : Operators, supers : SUBSET Operators]
RevokeJobs == [step : {"revoke"}, of : SUBSET Operators]
FormJobs == [step : {"role"}, role : Roles, status : Statuses, totp : BOOLEAN]
RoleJobs == [step : {"revokeRole", "drop"}, role : Roles]
GrantJobs == [step : {"grants"}, role : Roles, before : SUBSET Perms, after : SUBSET Perms,
              revision : 1 .. MaxRevision, actor : Operators, created : BOOLEAN]
AccountJobs == [step : {"enrol", "disable"}, operator : Operators]
ProveJobs == [step : {"prove"}, operator : Operators, secret : 0 .. MaxSecrets]
Jobs == {Idle} \cup SignInJobs \cup EditJobs \cup RemoveJobs \cup RevokeJobs \cup FormJobs
          \cup RoleJobs \cup GrantJobs \cup AccountJobs \cup ProveJobs

LiveSessions == [operator : Operators, row : OperatorRows, role : RoleRows, late : BOOLEAN]
TotpRows == [secret : 0 .. MaxSecrets, issued : 0 .. MaxSecrets, proven : 0 .. MaxSecrets,
             on : BOOLEAN]

TypeInv ==
  /\ role \in [Roles -> RoleRows]
  /\ operator \in [Operators -> OperatorRows]
  /\ totp \in [Operators -> TotpRows]
  /\ session \in [Tabs -> LiveSessions \cup {NoSession}]
  /\ audit \in [Roles -> [Perms -> {"", "granted", "withdrawn"}]]
  /\ job \in [Tabs -> Jobs]
  /\ author \subseteq Operators /\ cut \subseteq Operators /\ crossed \subseteq Operators
  /\ raced \subseteq Roles
  /\ revision \in 1 .. MaxRevision

\* What a step name says of the record that carries it.
LEMMA JobOf ==
  ASSUME TypeInv, NEW t \in Tabs
  PROVE  /\ At(t, "gate") \/ At(t, "session") => job[t] \in SignInJobs
         /\ At(t, "edit") => job[t] \in EditJobs
         /\ At(t, "remove") => job[t] \in RemoveJobs
         /\ At(t, "revoke") => job[t] \in RevokeJobs
         /\ At(t, "role") => job[t] \in FormJobs
         /\ At(t, "revokeRole") \/ At(t, "drop") => job[t] \in RoleJobs
         /\ At(t, "grants") => job[t] \in GrantJobs
         /\ At(t, "enrol") \/ At(t, "disable") => job[t] \in AccountJobs
         /\ At(t, "prove") => job[t] \in ProveJobs
<1> DEFINE j == job[t]
<1>1. j \in Jobs
  BY DEF TypeInv
<1>2. /\ j = Idle => j.step = "idle"
      /\ j \in SignInJobs => j.step \in {"gate", "session"}
      /\ j \in EditJobs => j.step = "edit"
      /\ j \in RemoveJobs => j.step = "remove"
      /\ j \in RevokeJobs => j.step = "revoke"
  BY DEF Idle, SignInJobs, EditJobs, RemoveJobs, RevokeJobs
<1>3. /\ j \in FormJobs => j.step = "role"
      /\ j \in RoleJobs => j.step \in {"revokeRole", "drop"}
      /\ j \in GrantJobs => j.step = "grants"
      /\ j \in AccountJobs => j.step \in {"enrol", "disable"}
      /\ j \in ProveJobs => j.step = "prove"
  BY DEF FormJobs, RoleJobs, GrantJobs, AccountJobs, ProveJobs
<1> HIDE DEF j
<1>4. \/ j = Idle \/ j \in SignInJobs \/ j \in EditJobs \/ j \in RemoveJobs \/ j \in RevokeJobs
      \/ j \in FormJobs \/ j \in RoleJobs \/ j \in GrantJobs \/ j \in AccountJobs \/ j \in ProveJobs
  BY <1>1 DEF Jobs
<1>5. At(t, "gate") \/ At(t, "session") => j \in SignInJobs
  BY <1>2, <1>3, <1>4 DEF At, j
<1>6. At(t, "edit") => j \in EditJobs
  BY <1>2, <1>3, <1>4 DEF At, j
<1>7. At(t, "remove") => j \in RemoveJobs
  BY <1>2, <1>3, <1>4 DEF At, j
<1>8. At(t, "revoke") => j \in RevokeJobs
  BY <1>2, <1>3, <1>4 DEF At, j
<1>9. At(t, "role") => j \in FormJobs
  BY <1>2, <1>3, <1>4 DEF At, j
<1>10. At(t, "revokeRole") \/ At(t, "drop") => j \in RoleJobs
  BY <1>2, <1>3, <1>4 DEF At, j
<1>11. At(t, "grants") => j \in GrantJobs
  BY <1>2, <1>3, <1>4 DEF At, j
<1>12. At(t, "enrol") \/ At(t, "disable") => j \in AccountJobs
  BY <1>2, <1>3, <1>4 DEF At, j
<1>13. At(t, "prove") => j \in ProveJobs
  BY <1>2, <1>3, <1>4 DEF At, j
<1> QED BY <1>5, <1>6, <1>7, <1>8, <1>9, <1>10, <1>11, <1>12, <1>13 DEF j

LEMMA NoneNames == NoSession.operator \notin Operators
<1>1. NoSession.operator = "none"
  BY DEF NoSession
<1> QED BY <1>1, AccessAssumption, Zenon

\* A live session names an account, a closed one names none.
LEMMA SessionOf ==
  ASSUME TypeInv, NEW t \in Tabs
  PROVE  /\ session[t] # NoSession => session[t] \in LiveSessions /\ session[t].operator \in Operators
         /\ session[t] = NoSession => session[t].operator \notin Operators
<1>1. session[t] # NoSession => session[t] \in LiveSessions
  BY DEF TypeInv
<1>2. session[t] \in LiveSessions => session[t].operator \in Operators
  BY DEF LiveSessions
<1> QED BY <1>1, <1>2, NoneNames

LEMMA WithoutOf ==
  ASSUME TypeInv, NEW os
  PROVE  /\ Without(os) \in [Tabs -> LiveSessions \cup {NoSession}]
         /\ \A u \in Tabs : Without(os)[u] # NoSession
              => Without(os)[u] = session[u] /\ session[u] # NoSession
                   /\ session[u].operator \notin os
BY DEF TypeInv, Without

LEMMA JobStep ==
  ASSUME TypeInv, NEW t \in Tabs, NEW j \in Jobs, Go(t, j)
  PROVE  job' \in [Tabs -> Jobs]
BY DEF TypeInv, Go

LEMMA TypeInit == Init => TypeInv
<1> SUFFICES ASSUME Init PROVE TypeInv
  OBVIOUS
<1>1. role \in [Roles -> RoleRows]
  BY DEF Init, RoleRows, Statuses
<1>2. operator \in [Operators -> OperatorRows]
  BY Given DEF Init, OperatorRows, Statuses
<1>3. totp \in [Operators -> TotpRows] /\ revision \in 1 .. MaxRevision
  <2>3. [secret |-> 0, issued |-> 0, proven |-> 0, on |-> FALSE] \in TotpRows
    BY Bounds DEF TotpRows
  <2> QED BY Bounds, <2>3 DEF Init
<1>4. session \in [Tabs -> LiveSessions \cup {NoSession}] /\ job \in [Tabs -> Jobs]
  BY DEF Init, Jobs
<1>5. audit \in [Roles -> [Perms -> {"", "granted", "withdrawn"}]]
  BY DEF Init
<1>6. author \subseteq Operators /\ cut \subseteq Operators /\ crossed \subseteq Operators
        /\ raced \subseteq Roles
  BY DEF Init
<1> QED BY <1>1, <1>2, <1>3, <1>4, <1>5, <1>6 DEF TypeInv

\* The statements that only begin a handler, and those that only end one.
Opens(t) ==
  \/ PassTwoFactorGate(t)
  \/ BeginTwoFactorSetup(t)
  \/ ConfirmTwoFactorSetup(t)
  \/ \E o \in Operators : \/ Authenticate(t, o) \/ RemoveOperator(t, o) \/ DisableTwoFactor(t, o)
                          \/ \E row \in OperatorForms : EditOperator(t, o, row)
  \/ \E r \in Roles : \/ RemoveRole(t, r)
                      \/ \E form \in RoleForms : EditRole(t, r, form)
                      \/ \E grants \in SUBSET Perms : ReplaceRolePermissions(t, r, grants)

\* What the other tabs and tables keep while a handler begins or goes on.
LEMMA OpensFrame ==
  ASSUME TypeInv, NEW t \in Tabs, Opens(t)
  PROVE  /\ UNCHANGED << role, operator, totp, session, audit, author, revision, cut, raced, crossed >>
         /\ At(t, "idle") \/ At(t, "gate")
         /\ \E j \in Jobs : Go(t, j)
<1>t. /\ operator \in [Operators -> OperatorRows] /\ role \in [Roles -> RoleRows]
      /\ ActiveSupers \subseteq Operators
      /\ \A u \in Tabs : SignedIn(u) => Actor(u) \in Operators
      /\ \A u \in Tabs : SuperActs(u) => SignedIn(u)
  BY SessionOf DEF TypeInv, ActiveSupers, SignedIn, Actor, SuperActs
<1>1. ASSUME PassTwoFactorGate(t) PROVE At(t, "gate") /\ \E j \in Jobs : Go(t, j)
  <2>1. job[t] \in SignInJobs
    BY <1>1, JobOf DEF PassTwoFactorGate
  <2>2. [job[t] EXCEPT !.step = "session"] \in SignInJobs
    BY <2>1 DEF SignInJobs
  <2> QED BY <1>1, <2>2 DEF PassTwoFactorGate, Jobs
<1>2. ASSUME BeginTwoFactorSetup(t) PROVE At(t, "idle") /\ \E j \in Jobs : Go(t, j)
  <2>1. [step |-> "enrol", operator |-> Actor(t)] \in AccountJobs
    BY <1>t, <1>2 DEF AccountJobs, BeginTwoFactorSetup, TwoFactorRequest
  <2> QED BY <1>2, <2>1 DEF BeginTwoFactorSetup, TwoFactorRequest, Jobs
<1>3. ASSUME ConfirmTwoFactorSetup(t) PROVE At(t, "idle") /\ \E j \in Jobs : Go(t, j)
  <2>1. Actor(t) \in Operators
    BY <1>t, <1>3 DEF ConfirmTwoFactorSetup, TwoFactorRequest
  <2>2. Totp(t).secret \in 0 .. MaxSecrets
    BY <2>1 DEF Totp, TypeInv, TotpRows
  <2>3. [step |-> "prove", operator |-> Actor(t), secret |-> Totp(t).secret] \in ProveJobs
    BY <2>1, <2>2 DEF ProveJobs
  <2> QED BY <1>3, <2>3 DEF ConfirmTwoFactorSetup, TwoFactorRequest, Jobs
<1>4. ASSUME NEW o \in Operators, Authenticate(t, o)
      PROVE  At(t, "idle") /\ \E j \in Jobs : Go(t, j)
  <2>1. operator[o] \in OperatorRows /\ role[operator[o].role] \in RoleRows
    BY <1>t DEF OperatorRows
  <2>2. [step |-> "gate", operator |-> o, row |-> operator[o], role |-> role[operator[o].role]]
          \in SignInJobs
    BY <2>1 DEF SignInJobs
  <2> QED BY <1>4, <2>2 DEF Authenticate, LoginPage, Jobs
<1>5. ASSUME NEW o \in Operators, RemoveOperator(t, o)
      PROVE  At(t, "idle") /\ \E j \in Jobs : Go(t, j)
  <2>1. [step |-> "remove", operator |-> o, supers |-> ActiveSupers] \in RemoveJobs
    BY <1>t DEF RemoveJobs
  <2> QED BY <1>5, <2>1 DEF RemoveOperator, SuperActs, Jobs
<1>6. ASSUME NEW o \in Operators, DisableTwoFactor(t, o)
      PROVE  At(t, "idle") /\ \E j \in Jobs : Go(t, j)
  <2>1. [step |-> "disable", operator |-> o] \in AccountJobs
    BY DEF AccountJobs
  <2> QED BY <1>6, <2>1 DEF DisableTwoFactor, TwoFactorRequest, Jobs
<1>7. ASSUME NEW o \in Operators, NEW row \in OperatorForms, EditOperator(t, o, row)
      PROVE  At(t, "idle") /\ \E j \in Jobs : Go(t, j)
  <2>1. [step |-> "edit", operator |-> o, row |-> row, supers |-> ActiveSupers] \in EditJobs
    BY <1>t DEF EditJobs
  <2> QED BY <1>7, <2>1 DEF EditOperator, SuperActs, Jobs
<1>8. ASSUME NEW r \in Roles, RemoveRole(t, r)
      PROVE  At(t, "idle") /\ \E j \in Jobs : Go(t, j)
  <2>1. [step |-> "drop", role |-> r] \in RoleJobs
    BY DEF RoleJobs
  <2> QED BY <1>8, <2>1 DEF RemoveRole, SuperActs, Jobs
<1>9. ASSUME NEW r \in Roles, NEW form \in RoleForms, EditRole(t, r, form)
      PROVE  At(t, "idle") /\ \E j \in Jobs : Go(t, j)
  <2>1. [step |-> "role", role |-> r, status |-> form.status, totp |-> form.totp] \in FormJobs
    BY DEF FormJobs, RoleForms
  <2> QED BY <1>9, <2>1 DEF EditRole, SuperActs, Jobs
<1>10. ASSUME NEW r \in Roles, NEW grants \in SUBSET Perms, ReplaceRolePermissions(t, r, grants)
       PROVE  At(t, "idle") /\ \E j \in Jobs : Go(t, j)
  <2>1. role[r].grants \in SUBSET Perms /\ Actor(t) \in Operators
    BY <1>t, <1>10 DEF RoleRows, ReplaceRolePermissions
  <2>2. revision + 1 \in 1 .. MaxRevision
    BY <1>10, NextRevision DEF TypeInv, ReplaceRolePermissions
  <2>3. [step |-> "grants", role |-> r, before |-> role[r].grants, after |-> grants,
         revision |-> revision + 1, actor |-> Actor(t), created |-> FALSE] \in GrantJobs
    BY <2>1, <2>2 DEF GrantJobs
  <2> QED BY <1>10, <2>3 DEF ReplaceRolePermissions, SuperActs, Jobs
<1>11. UNCHANGED << role, operator, totp, session, audit, author, revision, cut, raced, crossed >>
  BY DEF Opens, PassTwoFactorGate, BeginTwoFactorSetup, ConfirmTwoFactorSetup, Authenticate,
         RemoveOperator, DisableTwoFactor, EditOperator, RemoveRole, EditRole, ReplaceRolePermissions
<1>12. (At(t, "idle") \/ At(t, "gate")) /\ \E j \in Jobs : Go(t, j)
  <2>1. CASE PassTwoFactorGate(t)
    BY <1>1, <2>1
  <2>2. CASE BeginTwoFactorSetup(t)
    BY <1>2, <2>2
  <2>3. CASE ConfirmTwoFactorSetup(t)
    BY <1>3, <2>3
  <2> QED BY <2>1, <2>2, <2>3, <1>4, <1>5, <1>6, <1>7, <1>8, <1>9, <1>10 DEF Opens
<1> QED BY <1>11, <1>12

\* Every step of the program is one of these.
LEMMA Steps ==
  ASSUME Next
  PROVE  \E t \in Tabs :
           \/ Opens(t)
           \/ CreateSessionRecord(t)
           \/ WriteOperator(t)
           \/ DeleteOperator(t)
           \/ WriteRole(t)
           \/ RevokeRoleSessions(t)
           \/ RevokeOperatorSessions(t)
           \/ DeleteRole(t)
           \/ WriteGrants(t)
           \/ TakeBackRole(t)
           \/ WriteSecret(t)
           \/ WriteConfirmation(t)
           \/ WriteDisabled(t)
           \/ HandlerDies(t)
           \/ SessionEnds(t)
           \/ \E o \in Operators : EndSessions(t, o)
           \/ \E o \in Operators, row \in OperatorForms : InsertOperator(t, o, row)
           \/ \E r \in Roles, grants \in SUBSET Perms : InsertRole(t, r, grants)
<1>1. PICK t \in Tabs : \/ Handlers(t) \/ OperatorPage(t) \/ RolePage(t) \/ TwoFactorCard(t)
                       \/ SessionEnds(t)
                       \/ \E o \in Operators : Authenticate(t, o) \/ EndSessions(t, o)
  BY Zenon DEF Next
<1>2. OperatorPage(t) => \/ Opens(t)
                         \/ \E o \in Operators, row \in OperatorForms : InsertOperator(t, o, row)
  BY Zenon DEF OperatorPage, Opens
<1>3. RolePage(t) => \/ Opens(t)
                     \/ \E r \in Roles, grants \in SUBSET Perms : InsertRole(t, r, grants)
  BY Zenon DEF RolePage, Opens
<1>4. TwoFactorCard(t) => Opens(t)
  BY Zenon DEF TwoFactorCard, Opens
<1>5. PassTwoFactorGate(t) => Opens(t)
  BY DEF Opens
<1>6. \A o \in Operators : Authenticate(t, o) => Opens(t)
  BY Zenon DEF Opens
<1> QED BY <1>1, <1>2, <1>3, <1>4, <1>5, <1>6, Zenon DEF Handlers

LEMMA TypeStep == TypeInv /\ [Next]_vars => TypeInv'
<1> SUFFICES ASSUME TypeInv, [Next]_vars PROVE TypeInv'
  OBVIOUS
<1>i. Idle \in Jobs /\ NoSession \in LiveSessions \cup {NoSession}
  BY DEF Jobs
<1>1. ASSUME NEW t \in Tabs, Opens(t) PROVE TypeInv'
  <2>1. job' \in [Tabs -> Jobs]
    BY <1>1, OpensFrame, JobStep
  <2> QED BY <1>1, <2>1, OpensFrame DEF TypeInv
<1>2. ASSUME NEW t \in Tabs, CreateSessionRecord(t) PROVE TypeInv'
  <2> DEFINE o == job[t].operator
             opened == [operator |-> o, row |-> job[t].row, role |-> job[t].role,
                        late |-> operator[o] # job[t].row \/ role[operator[o].role] # job[t].role]
  <2>1. job[t] \in SignInJobs
    BY <1>2, JobOf DEF CreateSessionRecord
  <2>2. opened \in LiveSessions
    BY <2>1 DEF SignInJobs, LiveSessions
  <2>3. session' = session \/ session' = SessionsAfter(o, t, opened)
    BY <1>2 DEF CreateSessionRecord
  <2> HIDE DEF opened, o
  <2>4. session' \in [Tabs -> LiveSessions \cup {NoSession}]
    BY <2>2, <2>3 DEF TypeInv, SessionsAfter
  <2>5. job' \in [Tabs -> Jobs]
    BY <1>i, <1>2, JobStep DEF CreateSessionRecord
  <2> QED BY <1>2, <2>4, <2>5 DEF TypeInv, CreateSessionRecord
<1>3. ASSUME NEW t \in Tabs, WriteOperator(t) PROVE TypeInv'
  <2>1. job[t] \in EditJobs
    BY <1>3, JobOf DEF WriteOperator
  <2>2. job[t].operator \in Operators /\ job[t].row \in OperatorRows
    BY <2>1 DEF EditJobs, OperatorForms, OperatorRows
  <2>3. operator' \in [Operators -> OperatorRows]
    BY <1>3, <2>2 DEF WriteOperator, TypeInv
  <2>4. [step |-> "revoke", of |-> {job[t].operator}] \in Jobs
    <3>1. [step |-> "revoke", of |-> {job[t].operator}] \in RevokeJobs
      BY <2>2 DEF RevokeJobs
    <3> QED BY <3>1 DEF Jobs
  <2>5. job' \in [Tabs -> Jobs]
    BY <1>i, <1>3, <2>4, JobStep DEF WriteOperator
  <2> QED BY <1>3, <2>3, <2>5 DEF TypeInv, WriteOperator
<1>4. ASSUME NEW t \in Tabs, DeleteOperator(t) PROVE TypeInv'
  <2>1. [status |-> "Deleted", role |-> StaffRole] \in OperatorRows
    BY Given DEF OperatorRows
  <2>2. job' \in [Tabs -> Jobs]
    BY <1>i, <1>4, JobStep DEF DeleteOperator
  <2>3. session' \in [Tabs -> LiveSessions \cup {NoSession}]
    BY <1>4, WithoutOf DEF DeleteOperator
  <2>4. operator' \in [Operators -> OperatorRows]
    BY <1>4, <2>1 DEF TypeInv, DeleteOperator
  <2> QED BY <1>4, <2>2, <2>3, <2>4 DEF TypeInv, DeleteOperator
<1>5. ASSUME NEW t \in Tabs, WriteRole(t) PROVE TypeInv'
  <2>1. job[t] \in FormJobs
    BY <1>5, JobOf DEF WriteRole
  <2> DEFINE r == job[t].role
  <2>2. r \in Roles /\ job[t].status \in Statuses /\ job[t].totp \in BOOLEAN
    BY <2>1 DEF FormJobs
  <2>3. role[r] \in RoleRows
    BY <2>2 DEF TypeInv
  <2>4. [role[r] EXCEPT !.status = job[t].status, !.totp = job[t].totp] \in RoleRows
    BY <2>2, <2>3 DEF RoleRows
  <2>5. \/ role' = role
        \/ role' = [role EXCEPT ![r] = [role[r] EXCEPT !.status = job[t].status, !.totp = job[t].totp]]
    BY <1>5, <2>2 DEF WriteRole, TypeInv
  <2>6. role' \in [Roles -> RoleRows]
    BY <2>2, <2>4, <2>5 DEF TypeInv
  <2>7. [step |-> "revokeRole", role |-> r] \in Jobs
    <3>1. [step |-> "revokeRole", role |-> r] \in RoleJobs
      BY <2>2 DEF RoleJobs
    <3> QED BY <3>1 DEF Jobs
  <2>8. job' \in [Tabs -> Jobs]
    BY <1>5, <2>7, JobStep DEF WriteRole
  <2> QED BY <1>5, <2>6, <2>8 DEF TypeInv, WriteRole
<1>6. ASSUME NEW t \in Tabs, RevokeRoleSessions(t) PROVE TypeInv'
  <2>1. job' \in [Tabs -> Jobs]
    BY <1>i, <1>6, JobStep DEF RevokeRoleSessions
  <2>2. session' \in [Tabs -> LiveSessions \cup {NoSession}]
    BY <1>6, WithoutOf DEF RevokeRoleSessions
  <2>3. cut' \subseteq Operators
    BY <1>6 DEF TypeInv, RevokeRoleSessions
  <2> QED BY <1>6, <2>1, <2>2, <2>3 DEF TypeInv, RevokeRoleSessions
<1>7. ASSUME NEW t \in Tabs, RevokeOperatorSessions(t) PROVE TypeInv'
  <2>1. job' \in [Tabs -> Jobs]
    BY <1>i, <1>7, JobStep DEF RevokeOperatorSessions
  <2>2. session' \in [Tabs -> LiveSessions \cup {NoSession}]
    BY <1>7, WithoutOf DEF RevokeOperatorSessions
  <2>3. cut' \subseteq Operators
    BY <1>7 DEF TypeInv, RevokeOperatorSessions
  <2> QED BY <1>7, <2>1, <2>2, <2>3 DEF TypeInv, RevokeOperatorSessions
<1>8. ASSUME NEW t \in Tabs, DeleteRole(t) \/ TakeBackRole(t) PROVE TypeInv'
  <2> DEFINE r == job[t].role
  <2>1. r \in Roles
    BY <1>8, JobOf DEF DeleteRole, TakeBackRole, RoleJobs, GrantJobs
  <2>2. role[r] \in RoleRows
    BY <2>1 DEF TypeInv
  <2>3. [role[r] EXCEPT !.status = "Deleted", !.grants = {}] \in RoleRows
    BY <2>2 DEF RoleRows
  <2>4. \/ role' = role
        \/ role' = [role EXCEPT ![r] = [role[r] EXCEPT !.status = "Deleted", !.grants = {}]]
    BY <1>8, <2>1 DEF DeleteRole, TakeBackRole, TypeInv
  <2>5. role' \in [Roles -> RoleRows]
    BY <2>1, <2>3, <2>4 DEF TypeInv
  <2>6. job' \in [Tabs -> Jobs]
    BY <1>i, <1>8, JobStep DEF DeleteRole, TakeBackRole
  <2> QED BY <1>8, <2>5, <2>6 DEF TypeInv, DeleteRole, TakeBackRole
<1>9. ASSUME NEW t \in Tabs, WriteGrants(t) PROVE TypeInv'
  <2> DEFINE r == job[t].role
             changed == Audited(job[t].before, job[t].after)
             line == [p \in Perms |-> IF p \notin changed THEN audit[r][p]
                                      ELSE IF p \in job[t].after THEN "granted" ELSE "withdrawn"]
  <2>1. job[t] \in GrantJobs
    BY <1>9, JobOf DEF WriteGrants
  <2>2. /\ r \in Roles /\ job[t].after \in SUBSET Perms /\ job[t].actor \in Operators
        /\ job[t].revision \in 1 .. MaxRevision
    BY <2>1 DEF GrantJobs
  <2>3. CASE ~ Exists(role[r])
    <3>1. job' \in [Tabs -> Jobs]
      BY <1>i, <1>9, <2>3, JobStep DEF WriteGrants
    <3> QED BY <1>9, <2>3, <3>1 DEF TypeInv, WriteGrants
  <2>4. CASE Exists(role[r])
    <3>1. role' = [role EXCEPT ![r] = [role[r] EXCEPT !.grants = job[t].after]]
      BY <1>9, <2>2, <2>4 DEF WriteGrants, TypeInv
    <3>2. [role[r] EXCEPT !.grants = job[t].after] \in RoleRows
      <4>1. role[r] \in RoleRows
        BY <2>2 DEF TypeInv
      <4> QED BY <2>2, <4>1 DEF RoleRows
    <3>3. role' \in [Roles -> RoleRows]
      BY <2>2, <3>1, <3>2 DEF TypeInv
    <3>4. audit' = [audit EXCEPT ![r] = line]
      BY <1>9, <2>2, <2>4 DEF WriteGrants, TypeInv
    <3>5. line \in [Perms -> {"", "granted", "withdrawn"}]
      BY <2>2 DEF TypeInv
    <3>6. audit' \in [Roles -> [Perms -> {"", "granted", "withdrawn"}]]
      <4> HIDE DEF line
      <4> QED BY <2>2, <3>4, <3>5 DEF TypeInv
    <3>7. author' \subseteq Operators /\ raced' \subseteq Roles /\ revision' \in 1 .. MaxRevision
      BY <1>9, <2>2, <2>4 DEF WriteGrants, TypeInv
    <3>8. [step |-> "revokeRole", role |-> r] \in Jobs
      <4>1. [step |-> "revokeRole", role |-> r] \in RoleJobs
        BY <2>2 DEF RoleJobs
      <4> QED BY <4>1 DEF Jobs
    <3>9. job' \in [Tabs -> Jobs]
      BY <1>9, <2>4, <3>8, JobStep DEF WriteGrants
    <3> QED BY <1>9, <2>4, <3>3, <3>6, <3>7, <3>9 DEF TypeInv, WriteGrants
  <2> QED BY <2>3, <2>4
<1>10. ASSUME NEW t \in Tabs, WriteSecret(t) \/ WriteDisabled(t) PROVE TypeInv'
  <2> DEFINE o == job[t].operator
  <2>1. o \in Operators
    BY <1>10, JobOf DEF WriteSecret, WriteDisabled, AccountJobs
  <2>2. totp[o] \in TotpRows
    BY <2>1 DEF TypeInv
  <2>3. [totp[o] EXCEPT !.secret = 0, !.on = FALSE] \in TotpRows
    BY <2>2, Bounds DEF TotpRows
  <2>4. totp[o].issued < MaxSecrets =>
          [totp[o] EXCEPT !.secret = totp[o].issued + 1, !.issued = totp[o].issued + 1, !.on = FALSE]
            \in TotpRows
    <3>1. totp[o].issued \in 0 .. MaxSecrets
      BY <2>2 DEF TotpRows
    <3>2. totp[o].issued < MaxSecrets => totp[o].issued + 1 \in 0 .. MaxSecrets
      BY <3>1, NextSecret
    <3> QED BY <2>2, <3>2 DEF TotpRows
  <2>5. \/ totp' = totp
        \/ totp' = [totp EXCEPT ![o] = [totp[o] EXCEPT !.secret = 0, !.on = FALSE]]
        \/ totp[o].issued < MaxSecrets /\ totp' =
              [totp EXCEPT ![o] = [totp[o] EXCEPT !.secret = totp[o].issued + 1,
                                                  !.issued = totp[o].issued + 1, !.on = FALSE]]
    BY <1>10, <2>1 DEF WriteSecret, WriteDisabled, WithSecret, TypeInv
  <2>6. totp' \in [Operators -> TotpRows]
    BY <2>1, <2>3, <2>4, <2>5 DEF TypeInv
  <2>7. crossed' \subseteq Operators
    BY <1>10, <2>1 DEF WriteSecret, WriteDisabled, Crossing, TypeInv
  <2>8. job' \in [Tabs -> Jobs]
    BY <1>i, <1>10, JobStep DEF WriteSecret, WriteDisabled
  <2> QED BY <1>10, <2>6, <2>7, <2>8 DEF TypeInv, WriteSecret, WriteDisabled
<1>11. ASSUME NEW t \in Tabs, WriteConfirmation(t) PROVE TypeInv'
  <2> DEFINE o == job[t].operator
  <2>1. o \in Operators /\ job[t].secret \in 0 .. MaxSecrets
    BY <1>11, JobOf DEF WriteConfirmation, ProveJobs
  <2>2. [totp[o] EXCEPT !.on = TRUE, !.proven = job[t].secret] \in TotpRows
    BY <2>1 DEF TypeInv, TotpRows
  <2>3. \/ totp' = totp
        \/ totp' = [totp EXCEPT ![o] = [totp[o] EXCEPT !.on = TRUE, !.proven = job[t].secret]]
    BY <1>11, <2>1 DEF WriteConfirmation, TypeInv
  <2>4. totp' \in [Operators -> TotpRows]
    BY <2>1, <2>2, <2>3 DEF TypeInv
  <2>5. job' \in [Tabs -> Jobs]
    BY <1>i, <1>11, JobStep DEF WriteConfirmation
  <2> QED BY <1>11, <2>4, <2>5 DEF TypeInv, WriteConfirmation
<1>12. ASSUME NEW t \in Tabs, HandlerDies(t) PROVE TypeInv'
  <2>1. job' \in [Tabs -> Jobs]
    BY <1>i, <1>12, JobStep DEF HandlerDies
  <2>2. At(t, "revoke") => job[t].of \subseteq Operators
    BY JobOf DEF RevokeJobs
  <2>3. cut' \subseteq Operators
    BY <1>12, <2>2 DEF TypeInv, HandlerDies, Holders
  <2> QED BY <1>12, <2>1, <2>3 DEF TypeInv, HandlerDies
<1>13. ASSUME NEW t \in Tabs, SessionEnds(t) PROVE TypeInv'
  BY <1>13 DEF TypeInv, SessionEnds
<1>14. ASSUME NEW t \in Tabs, NEW o \in Operators, EndSessions(t, o) PROVE TypeInv'
  <2>1. session' \in [Tabs -> LiveSessions \cup {NoSession}]
    BY <1>14, WithoutOf DEF EndSessions
  <2> QED BY <1>14, <2>1 DEF TypeInv, EndSessions
<1>15. ASSUME NEW t \in Tabs, NEW o \in Operators, NEW row \in OperatorForms, InsertOperator(t, o, row)
       PROVE  TypeInv'
  BY <1>15 DEF TypeInv, InsertOperator, OperatorForms, OperatorRows
<1>16. ASSUME NEW t \in Tabs, NEW r \in Roles, NEW grants \in SUBSET Perms, InsertRole(t, r, grants)
       PROVE  TypeInv'
  <2>1. [role[r] EXCEPT !.status = "Active"] \in RoleRows
    BY DEF TypeInv, RoleRows, Statuses
  <2>2. role' = [role EXCEPT ![r] = [role[r] EXCEPT !.status = "Active"]]
    BY <1>16 DEF InsertRole, TypeInv
  <2>3. role' \in [Roles -> RoleRows]
    BY <2>1, <2>2 DEF TypeInv
  <2>4. Actor(t) \in Operators
    BY <1>16, SessionOf DEF InsertRole, SuperActs, SignedIn, Actor
  <2>5. revision + 1 \in 1 .. MaxRevision
    BY <1>16, NextRevision DEF InsertRole, TypeInv
  <2>6. [step |-> "grants", role |-> r, before |-> {}, after |-> grants,
         revision |-> revision + 1, actor |-> Actor(t), created |-> TRUE] \in GrantJobs
    BY <2>4, <2>5 DEF GrantJobs
  <2>7. job' \in [Tabs -> Jobs]
    BY <1>16, <2>6, JobStep DEF InsertRole, Jobs
  <2> QED BY <1>16, <2>3, <2>7 DEF TypeInv, InsertRole
<1>17. CASE UNCHANGED vars
  BY <1>17 DEF TypeInv, vars
<1> QED BY <1>1, <1>2, <1>3, <1>4, <1>5, <1>6, <1>7, <1>8, <1>9, <1>10, <1>11, <1>12, <1>13,
           <1>14, <1>15, <1>16, <1>17, Steps

\* The tables, the sessions and what the handlers carry keep their types.
THEOREM TypeCorrect == Spec => []TypeOK
<1>1. TypeInv => TypeOK
  BY DEF TypeInv, TypeOK, LiveSessions, TotpRows
<1> QED BY <1>1, TypeInit, TypeStep, PTL DEF Spec

\* What a handler carries changes only by a step of its own tab.
LEMMA OtherJobs ==
  ASSUME TypeInv, NEW t \in Tabs, NEW j, Go(t, j)
  PROVE  /\ job'[t] = j
         /\ \A u \in Tabs : u # t => job'[u] = job[u]
BY DEF TypeInv, Go

\* What a tab's handler does next, after it has begun or gone on.
LEMMA OpensStep ==
  ASSUME TypeInv, NEW t \in Tabs, Opens(t)
  PROVE  \/ ConfirmTwoFactorSetup(t)
         \/ \E o \in Operators, row \in OperatorForms : EditOperator(t, o, row)
         \/ \E o \in Operators : RemoveOperator(t, o)
         \/ \E r \in Roles, grants \in SUBSET Perms : ReplaceRolePermissions(t, r, grants)
         \/ job'[t].step \in {"idle", "gate", "session", "enrol", "disable", "drop", "role"}
<1>h. \A j : Go(t, j) => job'[t] = j
  BY OtherJobs
<1>g. Idle.step = "idle"
  BY DEF Idle
<1>1. PassTwoFactorGate(t) => job'[t].step \in {"idle", "session"}
  <2> SUFFICES ASSUME PassTwoFactorGate(t) PROVE job'[t].step \in {"idle", "session"}
    OBVIOUS
  <2>1. job[t] \in SignInJobs
    BY JobOf DEF PassTwoFactorGate
  <2>2. [job[t] EXCEPT !.step = "session"].step = "session"
    BY <2>1 DEF SignInJobs
  <2> QED BY <1>g, <1>h, <2>2 DEF PassTwoFactorGate
<1>2. BeginTwoFactorSetup(t) => job'[t].step = "enrol"
  BY <1>h DEF BeginTwoFactorSetup
<1>3. \A o \in Operators : Authenticate(t, o) => job'[t].step = "gate"
  BY <1>h DEF Authenticate
<1>4. \A o \in Operators : DisableTwoFactor(t, o) => job'[t].step = "disable"
  BY <1>h DEF DisableTwoFactor
<1>5. ASSUME NEW r \in Roles, RemoveRole(t, r) PROVE job'[t].step = "drop"
  <2>1. Go(t, [step |-> "drop", role |-> r])
    BY <1>5, Zenon DEF RemoveRole
  <2> QED BY <1>h, <2>1
<1>6. \A r \in Roles, form \in RoleForms : EditRole(t, r, form) => job'[t].step = "role"
  BY <1>h DEF EditRole
<1> QED BY <1>1, <1>2, <1>3, <1>4, <1>5, <1>6 DEF Opens

LEMMA WritesStep ==
  ASSUME TypeInv, NEW t \in Tabs
  PROVE  /\ CreateSessionRecord(t) \/ DeleteOperator(t) \/ RevokeRoleSessions(t)
              \/ RevokeOperatorSessions(t) \/ DeleteRole(t) \/ TakeBackRole(t) \/ WriteSecret(t)
              \/ WriteConfirmation(t) \/ WriteDisabled(t) \/ HandlerDies(t) => Go(t, Idle)
         /\ WriteOperator(t) => Go(t, Idle) \/ Go(t, [step |-> "revoke", of |-> {job[t].operator}])
         /\ WriteRole(t) => Go(t, [step |-> "revokeRole", role |-> job[t].role])
         /\ WriteGrants(t) => Go(t, Idle) \/ Go(t, [step |-> "revokeRole", role |-> job[t].role])
BY Zenon DEF CreateSessionRecord, DeleteOperator, RevokeRoleSessions, RevokeOperatorSessions,
   DeleteRole, TakeBackRole, WriteSecret, WriteConfirmation, WriteDisabled, HandlerDies,
   WriteOperator, WriteRole, WriteGrants

LEMMA WritesGo ==
  ASSUME TypeInv, NEW t \in Tabs,
         \/ CreateSessionRecord(t) \/ WriteOperator(t) \/ DeleteOperator(t) \/ WriteRole(t)
         \/ RevokeRoleSessions(t) \/ RevokeOperatorSessions(t) \/ DeleteRole(t) \/ WriteGrants(t)
         \/ TakeBackRole(t) \/ WriteSecret(t) \/ WriteConfirmation(t) \/ WriteDisabled(t)
         \/ HandlerDies(t)
  PROVE  /\ job'[t].step \in {"idle", "revoke", "revokeRole"}
         /\ \A u \in Tabs : u # t => job'[u] = job[u]
<1>1. Idle.step = "idle"
  BY DEF Idle
<1>2. \/ Go(t, Idle) \/ Go(t, [step |-> "revoke", of |-> {job[t].operator}])
      \/ Go(t, [step |-> "revokeRole", role |-> job[t].role])
  BY WritesStep
<1> QED BY <1>1, <1>2, OtherJobs

---------------------------------------------------------------------------
(* One live session *)

\* Sessions that are not opened can only end.
SessionsOnlyEnd ==
  \A u \in Tabs : session'[u] # NoSession => session'[u] = session[u] /\ session[u] # NoSession

LEMMA WithoutEnds ==
  ASSUME TypeInv, NEW os, session' = Without(os)
  PROVE  SessionsOnlyEnd
BY WithoutOf DEF SessionsOnlyEnd

LEMMA OthersEnd ==
  ASSUME TypeInv, NEW t \in Tabs, ~ CreateSessionRecord(t),
         \/ Opens(t) \/ WriteOperator(t) \/ DeleteOperator(t) \/ WriteRole(t)
         \/ RevokeRoleSessions(t) \/ RevokeOperatorSessions(t) \/ DeleteRole(t) \/ WriteGrants(t)
         \/ TakeBackRole(t) \/ WriteSecret(t) \/ WriteConfirmation(t) \/ WriteDisabled(t)
         \/ HandlerDies(t) \/ SessionEnds(t)
         \/ \E o \in Operators : EndSessions(t, o)
         \/ \E o \in Operators, row \in OperatorForms : InsertOperator(t, o, row)
         \/ \E r \in Roles, grants \in SUBSET Perms : InsertRole(t, r, grants)
  PROVE  SessionsOnlyEnd
<1>1. session' = session => SessionsOnlyEnd
  BY DEF SessionsOnlyEnd
<1>2. CASE Opens(t)
  BY <1>1, <1>2, OpensFrame
<1>3. CASE DeleteOperator(t) \/ RevokeRoleSessions(t) \/ RevokeOperatorSessions(t)
  BY <1>3, WithoutEnds DEF DeleteOperator, RevokeRoleSessions, RevokeOperatorSessions
<1>4. CASE \E o \in Operators : EndSessions(t, o)
  BY <1>4, WithoutEnds DEF EndSessions
<1>5. CASE SessionEnds(t)
  BY <1>5 DEF SessionEnds, SessionsOnlyEnd, TypeInv
<1> QED BY <1>1, <1>2, <1>3, <1>4, <1>5 DEF WriteOperator, WriteRole, DeleteRole, WriteGrants,
       TakeBackRole, WriteSecret, WriteConfirmation, WriteDisabled, HandlerDies, InsertOperator, InsertRole

LEMMA OneLiveStep == TypeInv /\ OneLiveSession /\ [Next]_vars => OneLiveSession'
<1> SUFFICES ASSUME TypeInv, OneLiveSession, [Next]_vars PROVE OneLiveSession'
  OBVIOUS
<1>0. TypeInv'
  BY TypeStep
<1>1. CASE SessionsOnlyEnd
  <2> SUFFICES ASSUME NEW t \in Tabs, NEW u \in Tabs, session'[t] # NoSession,
                      session'[t].operator = session'[u].operator
               PROVE  t = u
    BY Zenon DEF OneLiveSession
  <2>1. session'[t] = session[t] /\ session[t] # NoSession
    BY <1>1 DEF SessionsOnlyEnd
  <2>2. session[t].operator \in Operators
    BY <2>1, SessionOf
  <2>3. session'[u] # NoSession
    BY <1>0, <2>1, <2>2, NoneNames DEF TypeInv
  <2>4. session'[u] = session[u]
    BY <1>1, <2>3 DEF SessionsOnlyEnd
  <2> QED BY <2>1, <2>4 DEF OneLiveSession
<1>2. ASSUME NEW t \in Tabs, CreateSessionRecord(t) PROVE OneLiveSession'
  <2> DEFINE o == job[t].operator
             opened == [operator |-> o, row |-> job[t].row, role |-> job[t].role,
                        late |-> operator[o] # job[t].row \/ role[operator[o].role] # job[t].role]
  <2>1. CASE session' = session
    BY <2>1 DEF OneLiveSession
  <2>2. CASE session' = SessionsAfter(o, t, opened)
    <3>1. o \in Operators
      BY <1>2, JobOf DEF CreateSessionRecord, SignInJobs
    <3>2. opened.operator = o /\ opened # NoSession
      <4>1. opened.operator = o
        OBVIOUS
      <4> HIDE DEF opened, o
      <4> QED BY <3>1, <4>1, NoneNames
    <3> HIDE DEF opened, o
    <3>3. \A u \in Tabs : session'[u] = IF u = t THEN opened
                           ELSE IF session[u].operator = o THEN NoSession ELSE session[u]
      BY <2>2 DEF SessionsAfter
    <3> SUFFICES ASSUME NEW u \in Tabs, NEW v \in Tabs, session'[u] # NoSession,
                        session'[u].operator = session'[v].operator
                 PROVE  u = v
      BY Zenon DEF OneLiveSession
    <3>4. \A w \in Tabs : w # t => session'[w].operator # o
      BY <3>1, <3>3, NoneNames
    <3>5. CASE u = t
      BY <3>2, <3>3, <3>4, <3>5
    <3>6. CASE v = t
      BY <3>2, <3>3, <3>4, <3>6
    <3>7. CASE u # t /\ v # t
      <4>1. session'[u] = session[u] /\ session[u].operator \in Operators
        BY <3>3, <3>7, SessionOf
      <4>2. session'[v] = session[v]
        BY <3>3, <3>7, <4>1, NoneNames
      <4> QED BY <4>1, <4>2 DEF OneLiveSession
    <3> QED BY <3>5, <3>6, <3>7
  <2> QED BY <1>2, <2>1, <2>2 DEF CreateSessionRecord
<1>3. CASE UNCHANGED vars
  BY <1>3 DEF OneLiveSession, vars
<1> QED BY <1>1, <1>2, <1>3, Steps, OthersEnd

\* An account has one live session, in whatever order sign-ins, edits and
\* revocations interleave and wherever a handler dies.
THEOREM OneLive == Spec => []OneLiveSession
<1>1. Init => OneLiveSession
  BY DEF Init, OneLiveSession
<1> QED BY <1>1, TypeInit, TypeStep, OneLiveStep, PTL DEF Spec

---------------------------------------------------------------------------
(* The last superadmin *)

\* A handler that may take a superadmin away has counted another one.
CountedInv ==
  \A t \in Tabs : \A o \in Operators :
    /\ At(t, "edit") /\ job[t].operator = o /\ o \in job[t].supers
         => job[t].row = [status |-> "Active", role |-> Super] \/ Cardinality(job[t].supers) > 1
    /\ At(t, "remove") /\ job[t].operator = o /\ o \in job[t].supers
         => Cardinality(job[t].supers) > 1

LEMMA TwoOf ==
  ASSUME NEW S \in SUBSET Operators, NEW o, S \subseteq {o}
  PROVE  ~ (Cardinality(S) > 1)
<1>1. IsFiniteSet({o}) /\ Cardinality({o}) = 1
  BY FS_Singleton
<1>2. Cardinality(S) <= 1 /\ Cardinality(S) \in Nat
  BY <1>1, FS_Subset, FS_CardinalityType
<1> QED BY <1>2

LEMMA CountedStep == TypeInv /\ CountedInv /\ [Next]_vars => CountedInv'
<1> SUFFICES ASSUME TypeInv, CountedInv, [Next]_vars PROVE CountedInv'
  OBVIOUS
<1> DEFINE Counts(j) ==
       \A o \in Operators :
          /\ j.step = "edit" /\ j.operator = o /\ o \in j.supers
               => j.row = [status |-> "Active", role |-> Super] \/ Cardinality(j.supers) > 1
          /\ j.step = "remove" /\ j.operator = o /\ o \in j.supers => Cardinality(j.supers) > 1
<1>c. CountedInv => \A u \in Tabs : Counts(job[u])
  BY DEF CountedInv, At
<1>d. (\A u \in Tabs : Counts(job'[u])) => CountedInv'
  BY DEF CountedInv, At
<1>e. \A j : j.step \notin {"edit", "remove"} => Counts(j)
  OBVIOUS
<1>1. ASSUME NEW t \in Tabs, Opens(t) PROVE CountedInv'
  <2>1. \A j : Go(t, j) => job'[t] = j
    BY OtherJobs
  <2>2. \A u \in Tabs : u # t => job'[u] = job[u]
    BY <1>1, OpensFrame, OtherJobs
  <2>3. ASSUME NEW o \in Operators, NEW row \in OperatorForms, EditOperator(t, o, row)
        PROVE  Counts(job'[t])
    BY <2>1, <2>3 DEF EditOperator, KeepsSuperadmin
  <2>4. ASSUME NEW o \in Operators, RemoveOperator(t, o)
        PROVE  Counts(job'[t])
    <3>1. [status |-> "Deleted", role |-> Super].status # [status |-> "Active", role |-> Super].status
      OBVIOUS
    <3>2. [status |-> "Deleted", role |-> Super] # [status |-> "Active", role |-> Super]
      BY <3>1, Zenon
    <3> QED BY <2>1, <2>4, <3>2 DEF RemoveOperator, KeepsSuperadmin
  <2>5. ConfirmTwoFactorSetup(t) => job'[t].step = "prove"
    BY <2>1 DEF ConfirmTwoFactorSetup
  <2>6. \A r \in Roles, grants \in SUBSET Perms :
          ReplaceRolePermissions(t, r, grants) => job'[t].step = "grants"
    BY <2>1 DEF ReplaceRolePermissions
  <2> HIDE DEF Counts
  <2>7. Counts(job'[t])
    BY <1>1, <1>e, <2>3, <2>4, <2>5, <2>6, OpensStep
  <2> QED BY <1>c, <1>d, <2>2, <2>7
<1>2. ASSUME NEW t \in Tabs,
             \/ CreateSessionRecord(t) \/ WriteOperator(t) \/ DeleteOperator(t) \/ WriteRole(t)
             \/ RevokeRoleSessions(t) \/ RevokeOperatorSessions(t) \/ DeleteRole(t) \/ WriteGrants(t)
             \/ TakeBackRole(t) \/ WriteSecret(t) \/ WriteConfirmation(t) \/ WriteDisabled(t)
             \/ HandlerDies(t)
      PROVE  CountedInv'
  <2> HIDE DEF Counts
  <2> QED BY <1>2, <1>c, <1>d, <1>e, WritesGo
<1>3. ASSUME NEW t \in Tabs, NEW r \in Roles, NEW grants \in SUBSET Perms, InsertRole(t, r, grants)
      PROVE  CountedInv'
  <2>1. job'[t].step = "grants" /\ \A u \in Tabs : u # t => job'[u] = job[u]
    BY <1>3, OtherJobs DEF InsertRole
  <2> HIDE DEF Counts
  <2> QED BY <1>c, <1>d, <1>e, <2>1
<1>4. ASSUME NEW t \in Tabs,
             \/ SessionEnds(t)
             \/ \E o \in Operators : EndSessions(t, o)
             \/ \E o \in Operators, row \in OperatorForms : InsertOperator(t, o, row)
      PROVE  CountedInv'
  <2>1. job' = job
    BY <1>4 DEF SessionEnds, EndSessions, InsertOperator
  <2> QED BY <2>1 DEF CountedInv, At
<1>5. CASE UNCHANGED vars
  <2>1. job' = job
    BY <1>5 DEF vars
  <2> QED BY <2>1 DEF CountedInv, At
<1> QED BY <1>1, <1>2, <1>3, <1>4, <1>5, Steps

\* The last active superadmin is lost only to a handler whose count was old.
LEMMA SupersStep ==
  ASSUME TypeInv, CountedInv, Next, ActiveSupers # {}, ActiveSupers' = {}
  PROVE  \E t \in Tabs : job[t].step \in {"edit", "remove"} /\ job[t].supers # ActiveSupers
<1>0. ActiveSupers \in SUBSET Operators /\ operator \in [Operators -> OperatorRows]
  BY DEF ActiveSupers, TypeInv
<1>1. CASE operator' = operator
  BY <1>1 DEF ActiveSupers
<1>2. ASSUME NEW t \in Tabs, WriteOperator(t)
      PROVE  job[t].step = "edit" /\ (operator' = operator \/ job[t].supers # ActiveSupers)
  <2> DEFINE o == job[t].operator
  <2>1. job[t] \in EditJobs /\ job[t].step = "edit"
    BY <1>2, JobOf DEF WriteOperator, At
  <2>2. o \in Operators /\ job[t].row \in OperatorForms
    BY <2>1 DEF EditJobs
  <2>3. CASE operator' # operator
    <3>1. operator' = [operator EXCEPT ![o] = job[t].row]
      BY <1>2, <2>3 DEF WriteOperator
    <3>2. ActiveSupers \subseteq {o}
      BY <1>0, <3>1 DEF ActiveSupers
    <3>3. job[t].row # [status |-> "Active", role |-> Super]
      BY <1>0, <2>2, <3>1 DEF ActiveSupers
    <3>4. ~ (Cardinality(ActiveSupers) > 1)
      BY <1>0, <3>2, TwoOf
    <3>5. o \in ActiveSupers
      BY <3>2
    <3> QED BY <2>1, <2>2, <3>3, <3>4, <3>5 DEF CountedInv, At
  <2> QED BY <2>1, <2>3
<1>3. ASSUME NEW t \in Tabs, DeleteOperator(t)
      PROVE  job[t].step = "remove" /\ job[t].supers # ActiveSupers
  <2> DEFINE o == job[t].operator
  <2>1. job[t] \in RemoveJobs /\ job[t].step = "remove"
    BY <1>3, JobOf DEF DeleteOperator, At
  <2>2. o \in Operators
    BY <2>1 DEF RemoveJobs
  <2>3. operator' = [operator EXCEPT ![o] = [status |-> "Deleted", role |-> StaffRole]]
    BY <1>3 DEF DeleteOperator
  <2>4. ActiveSupers \subseteq {o}
    BY <1>0, <2>3 DEF ActiveSupers
  <2>5. ~ (Cardinality(ActiveSupers) > 1)
    BY <1>0, <2>4, TwoOf
  <2>6. o \in ActiveSupers
    BY <2>4
  <2> QED BY <2>1, <2>2, <2>5, <2>6 DEF CountedInv, At
<1>4. ASSUME NEW t \in Tabs, NEW o \in Operators, NEW row \in OperatorForms, InsertOperator(t, o, row)
      PROVE  FALSE
  <2>1. operator' = [operator EXCEPT ![o] = row] /\ operator[o].status = "None"
    BY <1>4 DEF InsertOperator
  <2> QED BY <1>0, <2>1 DEF ActiveSupers
<1>5. ASSUME NEW t \in Tabs,
             \/ Opens(t) \/ CreateSessionRecord(t) \/ WriteRole(t)
             \/ RevokeRoleSessions(t) \/ RevokeOperatorSessions(t) \/ DeleteRole(t) \/ WriteGrants(t)
             \/ TakeBackRole(t) \/ WriteSecret(t) \/ WriteConfirmation(t) \/ WriteDisabled(t)
             \/ HandlerDies(t) \/ SessionEnds(t)
             \/ \E o \in Operators : EndSessions(t, o)
             \/ \E r \in Roles, grants \in SUBSET Perms : InsertRole(t, r, grants)
      PROVE  operator' = operator
  BY <1>5, OpensFrame DEF CreateSessionRecord, WriteRole, RevokeRoleSessions,
     RevokeOperatorSessions, DeleteRole, WriteGrants, TakeBackRole, WriteSecret, WriteConfirmation,
     WriteDisabled, HandlerDies, SessionEnds, EndSessions, InsertRole
<1> QED BY <1>1, <1>2, <1>3, <1>4, <1>5, Steps

\* The last active superadmin disappears only through a handler that had counted
\* the superadmins before another handler changed them.
THEOREM SuperadminStays == Spec => SuperadminKept
<1>1. Init => CountedInv
  <2>1. Idle.step = "idle"
    BY DEF Idle
  <2> QED BY <2>1 DEF Init, CountedInv, At
<1>2. TypeInv /\ CountedInv /\ [Next]_vars =>
        [ActiveSupers # {} /\ ActiveSupers' = {}
           => \E t \in Tabs : job[t].step \in {"edit", "remove"} /\ job[t].supers # ActiveSupers]_vars
  BY SupersStep
<1> QED BY <1>1, <1>2, TypeInit, TypeStep, CountedStep, PTL DEF Spec, SuperadminKept

---------------------------------------------------------------------------
(* Two-step verification *)

\* A confirmation under way is about the secret that the account has.
ProvenInv ==
  /\ OnMeansProven
  /\ \A t \in Tabs : At(t, "prove") =>
        job[t].secret = totp[job[t].operator].secret \/ job[t].operator \in crossed

LEMMA ProvenStep == TypeInv /\ ProvenInv /\ [Next]_vars => ProvenInv'
<1> SUFFICES ASSUME TypeInv, ProvenInv, [Next]_vars PROVE ProvenInv'
  OBVIOUS
<1> DEFINE Fits(j) == j.step = "prove" =>
              j.secret = totp'[j.operator].secret \/ j.operator \in crossed'
<1>p. \A u \in Tabs : job[u].step = "prove" =>
        /\ job[u].operator \in Operators
        /\ job[u].secret = totp[job[u].operator].secret \/ job[u].operator \in crossed
  BY JobOf DEF ProvenInv, At, ProveJobs
<1>d. OnMeansProven' /\ (\A u \in Tabs : Fits(job'[u])) => ProvenInv'
  BY DEF ProvenInv, At
<1>s. UNCHANGED << totp, crossed >> => OnMeansProven'
  BY DEF ProvenInv, OnMeansProven
<1>1. ASSUME NEW t \in Tabs, Opens(t) PROVE ProvenInv'
  <2>1. UNCHANGED << totp, crossed >>
    BY <1>1, OpensFrame
  <2>2. \A j : Go(t, j) => job'[t] = j
    BY OtherJobs
  <2>3. \A u \in Tabs : u # t => job'[u] = job[u]
    BY <1>1, OpensFrame, OtherJobs
  <2>4. ConfirmTwoFactorSetup(t) => Fits(job'[t])
    BY <2>1, <2>2 DEF ConfirmTwoFactorSetup, Totp
  <2>5. \A o \in Operators, row \in OperatorForms : EditOperator(t, o, row) => job'[t].step = "edit"
    BY <2>2 DEF EditOperator
  <2>6. \A o \in Operators : RemoveOperator(t, o) => job'[t].step = "remove"
    BY <2>2 DEF RemoveOperator
  <2>7. \A r \in Roles, grants \in SUBSET Perms :
          ReplaceRolePermissions(t, r, grants) => job'[t].step = "grants"
    BY <2>2 DEF ReplaceRolePermissions
  <2>8. Fits(job'[t])
    BY <1>1, <2>4, <2>5, <2>6, <2>7, OpensStep
  <2>9. \A u \in Tabs : u # t => Fits(job'[u])
    BY <1>p, <2>1, <2>3
  <2> HIDE DEF Fits
  <2> QED BY <1>d, <1>s, <2>1, <2>8, <2>9
<1>2. ASSUME NEW t \in Tabs,
             \/ CreateSessionRecord(t) \/ WriteOperator(t) \/ DeleteOperator(t) \/ WriteRole(t)
             \/ RevokeRoleSessions(t) \/ RevokeOperatorSessions(t) \/ DeleteRole(t) \/ WriteGrants(t)
             \/ TakeBackRole(t) \/ HandlerDies(t)
      PROVE  ProvenInv'
  <2>1. UNCHANGED << totp, crossed >>
    BY <1>2 DEF CreateSessionRecord, WriteOperator, DeleteOperator, WriteRole, RevokeRoleSessions,
       RevokeOperatorSessions, DeleteRole, WriteGrants, TakeBackRole, HandlerDies
  <2>2. job'[t].step # "prove" /\ \A u \in Tabs : u # t => job'[u] = job[u]
    BY <1>2, WritesGo
  <2>3. \A u \in Tabs : Fits(job'[u])
    BY <1>p, <2>1, <2>2
  <2> HIDE DEF Fits
  <2> QED BY <1>d, <1>s, <2>1, <2>3
<1>3. ASSUME NEW t \in Tabs, WriteSecret(t) \/ WriteDisabled(t) PROVE ProvenInv'
  <2> DEFINE o == job[t].operator
  <2>1. o \in Operators
    BY <1>3, JobOf DEF WriteSecret, WriteDisabled, AccountJobs
  <2>2. /\ \A p \in Operators : p # o => totp'[p] = totp[p]
        /\ totp'[o] = totp[o] \/ totp'[o].on = FALSE
    <3>1. totp \in [Operators -> TotpRows] /\ totp[o] \in TotpRows
      BY <2>1 DEF TypeInv
    <3>2. \/ totp' = totp
          \/ totp' = [totp EXCEPT ![o] = [totp[o] EXCEPT !.secret = 0, !.on = FALSE]]
          \/ totp' = [totp EXCEPT ![o] = [totp[o] EXCEPT !.secret = totp[o].issued + 1,
                                                        !.issued = totp[o].issued + 1, !.on = FALSE]]
      BY <1>3, <2>1, <3>1 DEF WriteSecret, WriteDisabled, WithSecret
    <3>3. /\ [totp[o] EXCEPT !.secret = 0, !.on = FALSE].on = FALSE
          /\ [totp[o] EXCEPT !.secret = totp[o].issued + 1, !.issued = totp[o].issued + 1,
                             !.on = FALSE].on = FALSE
      BY <3>1 DEF TotpRows
    <3> QED BY <2>1, <3>1, <3>2, <3>3
  <2>3. /\ crossed \subseteq crossed'
        /\ \A u \in Tabs : At(u, "prove") /\ job[u].operator = o => o \in crossed'
    BY <1>3 DEF WriteSecret, WriteDisabled, Crossing
  <2>4. OnMeansProven'
    BY <2>2, <2>3 DEF ProvenInv, OnMeansProven
  <2>5. job'[t].step # "prove" /\ \A u \in Tabs : u # t => job'[u] = job[u]
    BY <1>3, WritesGo
  <2>6. \A u \in Tabs : Fits(job'[u])
    BY <1>p, <2>2, <2>3, <2>5 DEF At
  <2> HIDE DEF Fits
  <2> QED BY <1>d, <2>4, <2>6
<1>4. ASSUME NEW t \in Tabs, WriteConfirmation(t) PROVE ProvenInv'
  <2> DEFINE o == job[t].operator
  <2>1. o \in Operators /\ (job[t].secret = totp[o].secret \/ o \in crossed)
    BY <1>4, <1>p DEF WriteConfirmation, At
  <2>2. /\ \A p \in Operators : p # o => totp'[p] = totp[p]
        /\ \/ totp'[o] = totp[o]
           \/ totp'[o].secret = totp[o].secret /\ totp'[o].proven = job[t].secret
        /\ crossed' = crossed
    <3>1. totp \in [Operators -> TotpRows] /\ totp[o] \in TotpRows
      BY <2>1 DEF TypeInv
    <3> DEFINE row == [totp[o] EXCEPT !.on = TRUE, !.proven = job[t].secret]
    <3>2. totp' = totp \/ totp' = [totp EXCEPT ![o] = row]
      BY <1>4, <2>1, <3>1 DEF WriteConfirmation
    <3>3. row.secret = totp[o].secret /\ row.proven = job[t].secret
      BY <3>1 DEF TotpRows
    <3>4. crossed' = crossed
      BY <1>4 DEF WriteConfirmation
    <3> HIDE DEF row
    <3> QED BY <2>1, <3>1, <3>2, <3>3, <3>4
  <2>3. OnMeansProven'
    BY <2>1, <2>2 DEF ProvenInv, OnMeansProven
  <2>4. job'[t].step # "prove" /\ \A u \in Tabs : u # t => job'[u] = job[u]
    BY <1>4, WritesGo
  <2>5. \A u \in Tabs : Fits(job'[u])
    BY <1>p, <2>2, <2>4
  <2> HIDE DEF Fits
  <2> QED BY <1>d, <2>3, <2>5
<1>5. ASSUME NEW t \in Tabs, NEW r \in Roles, NEW grants \in SUBSET Perms, InsertRole(t, r, grants)
      PROVE  ProvenInv'
  <2>1. job'[t].step = "grants" /\ \A u \in Tabs : u # t => job'[u] = job[u]
    BY <1>5, OtherJobs DEF InsertRole
  <2>2. UNCHANGED << totp, crossed >>
    BY <1>5 DEF InsertRole
  <2>3. \A u \in Tabs : Fits(job'[u])
    BY <1>p, <2>1, <2>2
  <2> HIDE DEF Fits
  <2> QED BY <1>d, <1>s, <2>2, <2>3
<1>6. ASSUME NEW t \in Tabs,
             \/ SessionEnds(t)
             \/ \E o \in Operators : EndSessions(t, o)
             \/ \E o \in Operators, row \in OperatorForms : InsertOperator(t, o, row)
      PROVE  UNCHANGED << totp, crossed, job >>
  BY <1>6 DEF SessionEnds, EndSessions, InsertOperator
<1>7. UNCHANGED << totp, crossed, job >> => ProvenInv'
  BY DEF ProvenInv, OnMeansProven, At
<1>8. UNCHANGED vars => UNCHANGED << totp, crossed, job >>
  BY DEF vars
<1> QED BY <1>1, <1>2, <1>3, <1>4, <1>5, <1>6, <1>7, <1>8, Steps

\* Two-step verification is on only with a secret that its owner has proved to
\* hold, unless the secret was replaced or dropped while it was being confirmed.
THEOREM OnIsProven == Spec => []OnMeansProven
<1>1. Init => ProvenInv
  <2>1. Idle.step = "idle"
    BY DEF Idle
  <2>2. Init => OnMeansProven
    <3>1. [secret |-> 0, issued |-> 0, proven |-> 0, on |-> FALSE].on = FALSE
      OBVIOUS
    <3>2. Init => \A o \in Operators : totp[o].on = FALSE
      BY <3>1, Zenon DEF Init
    <3> QED BY <3>2, Zenon DEF OnMeansProven
  <2>3. Init => \A t \in Tabs : ~ At(t, "prove")
    BY <2>1 DEF Init, At
  <2> QED BY <2>2, <2>3 DEF ProvenInv
<1>2. ProvenInv => OnMeansProven
  BY DEF ProvenInv
<1> QED BY <1>1, <1>2, TypeInit, TypeStep, ProvenStep, PTL DEF Spec

---------------------------------------------------------------------------
(* The audit trail *)

\* The trail agrees with the permissions, and so does what a save has read,
\* as long as no other save of the role has been written since.
AuditInv ==
  /\ AuditReplays
  /\ \A r \in Roles : role[r].status = "None" =>
        role[r].grants = {} /\ \A p \in Perms : audit[r][p] # "granted"
  /\ \A t \in Tabs : At(t, "grants") =>
        /\ role[job[t].role].status # "None"
        /\ Exists(role[job[t].role]) /\ job[t].role \notin raced
             => job[t].before = role[job[t].role].grants

\* A role keeps its permissions when only its form is saved.
LEMMA WriteRoleKeeps ==
  ASSUME TypeInv, NEW t \in Tabs, WriteRole(t), NEW r \in Roles
  PROVE  /\ role'[r].grants = role[r].grants
         /\ Exists(role'[r]) <=> Exists(role[r])
         /\ role'[r].status = "None" <=> role[r].status = "None"
         /\ r # job[t].role => role'[r] = role[r]
<1> DEFINE q == job[t].role
           row == [role[q] EXCEPT !.status = job[t].status, !.totp = job[t].totp]
<1>1. q \in Roles /\ job[t].status \in Statuses
  BY JobOf DEF WriteRole, FormJobs
<1>2. role \in [Roles -> RoleRows] /\ role[q] \in RoleRows
  BY <1>1 DEF TypeInv
<1>3. role' = role \/ (Exists(role[q]) /\ role' = [role EXCEPT ![q] = row])
  BY <1>1, <1>2 DEF WriteRole
<1>4. row.grants = role[q].grants /\ row.status = job[t].status
  BY <1>2 DEF RoleRows
<1> HIDE DEF q, row
<1> QED BY <1>1, <1>2, <1>3, <1>4 DEF Exists, Statuses, q

\* A role is deleted, or it stays as it was.
LEMMA DropRole ==
  ASSUME TypeInv, NEW t \in Tabs, DeleteRole(t) \/ TakeBackRole(t), NEW r \in Roles
  PROVE  \/ role'[r] = role[r]
         \/ r = job[t].role /\ Holders(r) = {} /\ role'[r].status = "Deleted"
<1> DEFINE q == job[t].role
           row == [role[q] EXCEPT !.status = "Deleted", !.grants = {}]
<1>1. q \in Roles
  BY JobOf DEF DeleteRole, TakeBackRole, RoleJobs, GrantJobs
<1>2. role \in [Roles -> RoleRows] /\ role[q] \in RoleRows
  BY <1>1 DEF TypeInv
<1>3. role' = role \/ (Holders(q) = {} /\ role' = [role EXCEPT ![q] = row])
  BY <1>1, <1>2 DEF DeleteRole, TakeBackRole
<1>4. row.status = "Deleted"
  BY <1>2 DEF RoleRows
<1> HIDE DEF q, row
<1> QED BY <1>1, <1>2, <1>3, <1>4 DEF q

\* A new role is active and has no permissions yet.
LEMMA InsertRoleMakes ==
  ASSUME TypeInv, NEW t \in Tabs, NEW r \in Roles, NEW grants \in SUBSET Perms,
         InsertRole(t, r, grants)
  PROVE  /\ role[r].status = "None" /\ role'[r].status = "Active"
         /\ role'[r].grants = role[r].grants
         /\ \A q \in Roles : q # r => role'[q] = role[q]
<1> DEFINE row == [role[r] EXCEPT !.status = "Active"]
<1>1. role \in [Roles -> RoleRows] /\ role[r] \in RoleRows
  BY DEF TypeInv
<1>2. role[r].status = "None" /\ role' = [role EXCEPT ![r] = row]
  BY <1>1 DEF InsertRole
<1>3. row.status = "Active" /\ row.grants = role[r].grants
  BY <1>1 DEF RoleRows
<1> HIDE DEF row
<1> QED BY <1>1, <1>2, <1>3

LEMMA AuditStep == TypeInv /\ AuditInv /\ [Next]_vars => AuditInv'
<1> SUFFICES ASSUME TypeInv, AuditInv, [Next]_vars PROVE AuditInv'
  OBVIOUS
<1> DEFINE Replays(r) == Exists(role[r]) /\ r \notin raced =>
                            \A p \in Perms : p \in role[r].grants <=> audit[r][p] = "granted"
           Blank(r) == role[r].status = "None" =>
                          role[r].grants = {} /\ \A p \in Perms : audit[r][p] # "granted"
           Read(u) == job[u].step = "grants" =>
                /\ role[job[u].role].status # "None"
                /\ Exists(role[job[u].role]) /\ job[u].role \notin raced
                     => job[u].before = role[job[u].role].grants
<1>p. /\ \A r \in Roles : Replays(r) /\ Blank(r)
      /\ \A u \in Tabs : Read(u)
  BY DEF AuditInv, AuditReplays, At
<1>d. (\A r \in Roles : Replays(r)' /\ Blank(r)') /\ (\A u \in Tabs : Read(u)') => AuditInv'
  BY DEF AuditInv, AuditReplays, At
<1>j. \A u \in Tabs : job[u].step = "grants" => job[u] \in GrantJobs /\ job[u].role \in Roles
  BY JobOf DEF At, GrantJobs
<1>t. role \in [Roles -> RoleRows] /\ audit \in [Roles -> [Perms -> {"", "granted", "withdrawn"}]]
  BY DEF TypeInv
<1>1. ASSUME NEW t \in Tabs, Opens(t) PROVE AuditInv'
  <2>1. UNCHANGED << role, audit, raced >>
    BY <1>1, OpensFrame
  <2>2. \A j : Go(t, j) => job'[t] = j
    BY OtherJobs
  <2>3. \A u \in Tabs : u # t => job'[u] = job[u]
    BY <1>1, OpensFrame, OtherJobs
  <2>4. ASSUME NEW r \in Roles, NEW grants \in SUBSET Perms, ReplaceRolePermissions(t, r, grants)
        PROVE  Read(t)'
    <3>1. Exists(role[r])
      BY <2>4 DEF ReplaceRolePermissions
    <3>2. job'[t].role = r /\ job'[t].before = role[r].grants
      BY <2>2, <2>4 DEF ReplaceRolePermissions
    <3> QED BY <2>1, <3>1, <3>2 DEF Exists, Statuses
  <2>5. ConfirmTwoFactorSetup(t) => job'[t].step = "prove"
    BY <2>2 DEF ConfirmTwoFactorSetup
  <2>6. \A o \in Operators, row \in OperatorForms : EditOperator(t, o, row) => job'[t].step = "edit"
    BY <2>2 DEF EditOperator
  <2>7. \A o \in Operators : RemoveOperator(t, o) => job'[t].step = "remove"
    BY <2>2 DEF RemoveOperator
  <2>8. Read(t)'
    <3>1. job'[t].step # "grants" => Read(t)'
      OBVIOUS
    <3> HIDE DEF Read
    <3> QED BY <1>1, <2>4, <2>5, <2>6, <2>7, <3>1, OpensStep
  <2>9. \A u \in Tabs : u # t => Read(u)'
    BY <1>p, <2>1, <2>3
  <2>10. \A r \in Roles : Replays(r)' /\ Blank(r)'
    BY <1>p, <2>1
  <2> HIDE DEF Replays, Blank, Read
  <2> QED BY <1>d, <2>8, <2>9, <2>10
<1>2. ASSUME NEW t \in Tabs,
             \/ CreateSessionRecord(t) \/ WriteOperator(t) \/ DeleteOperator(t)
             \/ RevokeRoleSessions(t) \/ RevokeOperatorSessions(t)
             \/ WriteSecret(t) \/ WriteConfirmation(t) \/ WriteDisabled(t) \/ HandlerDies(t)
      PROVE  AuditInv'
  <2>1. UNCHANGED << role, audit, raced >>
    BY <1>2 DEF CreateSessionRecord, WriteOperator, DeleteOperator, RevokeRoleSessions,
       RevokeOperatorSessions, WriteSecret, WriteConfirmation, WriteDisabled, HandlerDies
  <2>2. job'[t].step # "grants" /\ \A u \in Tabs : u # t => job'[u] = job[u]
    BY <1>2, WritesGo
  <2>3. \A u \in Tabs : Read(u)'
    BY <1>p, <2>1, <2>2
  <2>4. \A r \in Roles : Replays(r)' /\ Blank(r)'
    BY <1>p, <2>1
  <2> HIDE DEF Replays, Blank, Read
  <2> QED BY <1>d, <2>3, <2>4
<1>3. ASSUME NEW t \in Tabs, WriteRole(t) PROVE AuditInv'
  <2>1. UNCHANGED << audit, raced >>
    BY <1>3 DEF WriteRole
  <2>2. job'[t].step # "grants" /\ \A u \in Tabs : u # t => job'[u] = job[u]
    BY <1>3, WritesGo
  <2>3. \A r \in Roles : /\ role'[r].grants = role[r].grants
                         /\ Exists(role'[r]) <=> Exists(role[r])
                         /\ role'[r].status = "None" <=> role[r].status = "None"
    BY <1>3, WriteRoleKeeps
  <2>4. \A u \in Tabs : Read(u)'
    BY <1>p, <1>j, <2>1, <2>2, <2>3
  <2>5. \A r \in Roles : Replays(r)' /\ Blank(r)'
    BY <1>p, <2>1, <2>3
  <2> HIDE DEF Replays, Blank, Read
  <2> QED BY <1>d, <2>4, <2>5
<1>4. ASSUME NEW t \in Tabs, DeleteRole(t) \/ TakeBackRole(t) PROVE AuditInv'
  <2>1. UNCHANGED << audit, raced >>
    BY <1>4 DEF DeleteRole, TakeBackRole
  <2>2. job'[t].step # "grants" /\ \A u \in Tabs : u # t => job'[u] = job[u]
    BY <1>4, WritesGo
  <2>3. \A r \in Roles : role'[r] = role[r] \/ role'[r].status = "Deleted"
    BY <1>4, DropRole
  <2>4. \A u \in Tabs : Read(u)'
    BY <1>p, <1>j, <2>1, <2>2, <2>3 DEF Exists, Statuses
  <2>5. \A r \in Roles : Replays(r)' /\ Blank(r)'
    BY <1>p, <2>1, <2>3 DEF Exists, Statuses
  <2> HIDE DEF Replays, Blank, Read
  <2> QED BY <1>d, <2>4, <2>5
<1>5. ASSUME NEW t \in Tabs, WriteGrants(t) PROVE AuditInv'
  <2> DEFINE r == job[t].role
             before == job[t].before
             after == job[t].after
             changed == Audited(before, after)
             row == [role[r] EXCEPT !.grants = after]
             line == [p \in Perms |-> IF p \notin changed THEN audit[r][p]
                                      ELSE IF p \in after THEN "granted" ELSE "withdrawn"]
  <2>1. job[t] \in GrantJobs /\ job[t].step = "grants"
    BY <1>5, JobOf DEF WriteGrants, At
  <2>2. r \in Roles /\ before \in SUBSET Perms /\ after \in SUBSET Perms /\ role[r] \in RoleRows
    BY <1>t, <2>1 DEF GrantJobs
  <2>3. job'[t].step # "grants" /\ \A u \in Tabs : u # t => job'[u] = job[u]
    BY <1>5, WritesGo
  <2>4. CASE ~ Exists(role[r])
    <3>1. UNCHANGED << role, audit, raced >>
      BY <1>5, <2>4 DEF WriteGrants
    <3>2. \A u \in Tabs : Read(u)'
      BY <1>p, <2>3, <3>1
    <3>3. \A q \in Roles : Replays(q)' /\ Blank(q)'
      BY <1>p, <3>1
    <3> HIDE DEF Replays, Blank, Read
    <3> QED BY <1>d, <3>2, <3>3
  <2>5. CASE Exists(role[r])
    <3>1. role' = [role EXCEPT ![r] = row] /\ audit' = [audit EXCEPT ![r] = line]
      BY <1>5, <1>t, <2>2, <2>5 DEF WriteGrants
    <3>2. /\ raced \subseteq raced'
          /\ \A u \in Tabs : u # t /\ job[u].step = "grants" /\ job[u].role = r => r \in raced'
      BY <1>5, <2>5 DEF WriteGrants, At
    <3>3. row.status = role[r].status /\ row.grants = after
      BY <2>2 DEF RoleRows
    <3>4. /\ role'[r].status = role[r].status /\ role'[r].grants = after /\ audit'[r] = line
          /\ \A q \in Roles : q # r => role'[q] = role[q] /\ audit'[q] = audit[q]
      <4> HIDE DEF row, line, r, after
      <4> QED BY <1>t, <2>2, <3>1, <3>3
    <3>5. r \notin raced' => \A p \in Perms : p \in after <=> line[p] = "granted"
      <4>1. SUFFICES ASSUME r \notin raced', NEW p \in Perms PROVE p \in after <=> line[p] = "granted"
        OBVIOUS
      <4>2. before = role[r].grants /\ (p \in role[r].grants <=> audit[r][p] = "granted")
        BY <1>p, <2>1, <2>2, <2>5, <3>2, <4>1
      <4>3. p \in changed <=> ~ (p \in before <=> p \in after)
        BY <2>2 DEF Audited
      <4>4. line[p] = IF p \notin changed THEN audit[r][p]
                      ELSE IF p \in after THEN "granted" ELSE "withdrawn"
        OBVIOUS
      <4> HIDE DEF changed, line, r, before, after
      <4> QED BY <4>2, <4>3, <4>4
    <3>6. role[r].status # "None"
      BY <2>5 DEF Exists, Statuses
    <3>7. \A u \in Tabs : Read(u)'
      <4> SUFFICES ASSUME NEW u \in Tabs, u # t, job'[u].step = "grants" PROVE Read(u)'
        BY <2>3
      <4>1. job'[u] = job[u] /\ job[u].role \in Roles
        BY <1>j, <2>3
      <4>2. CASE job[u].role = r
        BY <3>2, <3>4, <3>6, <4>1, <4>2
      <4>3. CASE job[u].role # r
        <5>1. role'[job[u].role] = role[job[u].role]
          BY <3>4, <4>1, <4>3
        <5> QED BY <1>p, <3>2, <4>1, <5>1
      <4> QED BY <4>2, <4>3
    <3>8. ASSUME NEW q \in Roles PROVE Replays(q)' /\ Blank(q)'
      <4>1. CASE q = r
        <5> HIDE DEF line, r, after
        <5> QED BY <3>4, <3>5, <3>6, <4>1
      <4>2. CASE q # r
        <5> HIDE DEF line, r, after
        <5> QED BY <1>p, <3>2, <3>4, <4>2
      <4> QED BY <4>1, <4>2
    <3> HIDE DEF Replays, Blank, Read
    <3> QED BY <1>d, <3>7, <3>8
  <2> QED BY <2>4, <2>5
<1>6. ASSUME NEW t \in Tabs, NEW r \in Roles, NEW grants \in SUBSET Perms, InsertRole(t, r, grants)
      PROVE  AuditInv'
  <2>1. UNCHANGED << audit, raced >>
    BY <1>6 DEF InsertRole
  <2>2. /\ role[r].status = "None" /\ role'[r].status = "Active"
        /\ role'[r].grants = role[r].grants
        /\ \A q \in Roles : q # r => role'[q] = role[q]
    BY <1>6, InsertRoleMakes
  <2>3. job'[t].role = r /\ job'[t].before = {} /\ \A u \in Tabs : u # t => job'[u] = job[u]
    BY <1>6, OtherJobs DEF InsertRole
  <2>4. role[r].grants = {} /\ \A p \in Perms : audit[r][p] # "granted"
    BY <1>p, <2>2
  <2>5. Read(t)'
    BY <2>2, <2>3, <2>4
  <2>6. \A u \in Tabs : u # t => Read(u)'
    <3> SUFFICES ASSUME NEW u \in Tabs, u # t, job[u].step = "grants" PROVE Read(u)'
      BY <2>3
    <3>1. job'[u] = job[u] /\ job[u].role \in Roles /\ role[job[u].role].status # "None"
      BY <1>j, <1>p, <2>3
    <3>2. role'[job[u].role] = role[job[u].role]
      BY <2>2, <3>1
    <3> QED BY <1>p, <2>1, <3>1, <3>2
  <2>7. \A q \in Roles : Replays(q)' /\ Blank(q)'
    BY <1>p, <2>1, <2>2, <2>4
  <2> HIDE DEF Replays, Blank, Read
  <2> QED BY <1>d, <2>5, <2>6, <2>7
<1>7. ASSUME NEW t \in Tabs,
             \/ SessionEnds(t)
             \/ \E o \in Operators : EndSessions(t, o)
             \/ \E o \in Operators, row \in OperatorForms : InsertOperator(t, o, row)
      PROVE  UNCHANGED << role, audit, raced, job >>
  BY <1>7 DEF SessionEnds, EndSessions, InsertOperator
<1>8. UNCHANGED << role, audit, raced, job >> => AuditInv'
  BY DEF AuditInv, AuditReplays, At
<1>9. UNCHANGED vars => UNCHANGED << role, audit, raced, job >>
  BY DEF vars
<1> QED BY <1>1, <1>2, <1>3, <1>4, <1>5, <1>6, <1>7, <1>8, <1>9, Steps

\* The last audit row of a permission says what the role has, unless two saves of
\* the role overlapped: whatever roles are created, taken back, edited and deleted.
THEOREM TrailReplays == Spec => []AuditReplays
<1>1. Init => AuditInv
  <2> SUFFICES ASSUME Init PROVE AuditInv
    OBVIOUS
  <2>1. \A r \in Roles : role[r].grants = {}
    BY DEF Init
  <2>2. \A r \in Roles : \A p \in Perms : audit[r][p] # "granted"
    BY DEF Init
  <2>3. \A t \in Tabs : ~ At(t, "grants")
    BY DEF Init, At, Idle
  <2> QED BY <2>1, <2>2, <2>3 DEF AuditInv, AuditReplays
<1>2. AuditInv => AuditReplays
  BY DEF AuditInv
<1> QED BY <1>1, <1>2, TypeInit, TypeStep, AuditStep, PTL DEF Spec

---------------------------------------------------------------------------
(* Rights of a live session *)

\* An account in use has a role in use.
RolesExist == \A o \in Operators : Exists(operator[o]) => Exists(role[operator[o].role])
\* A live session is of an account in use.
SessionsExist == \A t \in Tabs : session[t] # NoSession => Exists(operator[session[t].operator])

RightsInv == RolesExist /\ SessionsExist /\ RightsAreCurrent

\* A session that is current, for any of the reasons RightsAreCurrent admits.
Current(s) ==
  \/ s.row = operator[s.operator] /\ s.role = role[operator[s.operator].role]
  \/ s.late \/ s.operator \in cut \/ Revoking(s.operator)

LEMMA RightsIs ==
  /\ RightsAreCurrent <=> \A t \in Tabs : session[t] # NoSession => Current(session[t])
  /\ RightsAreCurrent' <=> \A t \in Tabs : session'[t] # NoSession => (Current(session[t]))'
BY DEF RightsAreCurrent, Current

\* A handler that is to revoke keeps its step while another one runs.
LEMMA RevokingKept ==
  ASSUME NEW t \in Tabs, NEW o, Revoking(o),
         ~ At(t, "revoke"), ~ At(t, "revokeRole"),
         \A u \in Tabs : u # t => job'[u] = job[u],
         operator'[o].role = operator[o].role
  PROVE  Revoking(o)'
BY DEF Revoking, At

LEMMA CurrentKept ==
  ASSUME NEW s, Current(s), operator'[s.operator] = operator[s.operator],
         role'[operator[s.operator].role] = role[operator[s.operator].role],
         s.operator \in cut => s.operator \in cut',
         Revoking(s.operator) => s.operator \in cut' \/ Revoking(s.operator)'
  PROVE  Current(s)'
BY DEF Current

\* What a step shows that opens no session.
LEMMA RightsKept ==
  ASSUME TypeInv, RightsInv, SessionsOnlyEnd, RolesExist',
         \A u \in Tabs : \A s : s = session[u] /\ s = session'[u] /\ s # NoSession =>
            Exists(operator'[s.operator]) /\ Current(s)'
  PROVE  RightsInv'
<1>1. ASSUME NEW u \in Tabs, session'[u] # NoSession
      PROVE  Exists(operator'[session'[u].operator]) /\ (Current(session[u]))'
  <2> DEFINE s == session[u]
  <2>1. session'[u] = session[u] /\ s # NoSession
    BY <1>1 DEF SessionsOnlyEnd
  <2>2. PICK r : r = session[u]
    OBVIOUS
  <2>3. Exists(operator'[r.operator]) /\ Current(r)'
    BY <2>1, <2>2
  <2> QED BY <2>1, <2>2, <2>3 DEF Current
<1>2. SessionsExist'
  BY <1>1 DEF SessionsExist
<1>3. RightsAreCurrent'
  BY <1>1, RightsIs
<1> QED BY <1>2, <1>3 DEF RightsInv

\* Accounts and roles as a live session finds them.
LEMMA LiveSession ==
  ASSUME TypeInv, RightsInv, NEW u \in Tabs, session[u] # NoSession
  PROVE  /\ session[u] \in LiveSessions /\ session[u].operator \in Operators
         /\ Exists(operator[session[u].operator]) /\ operator[session[u].operator].role \in Roles
         /\ Exists(role[operator[session[u].operator].role])
         /\ Current(session[u])
         /\ session[u].operator \in Holders(operator[session[u].operator].role)
<1>1. session[u] \in LiveSessions /\ session[u].operator \in Operators
  BY SessionOf
<1>2. Exists(operator[session[u].operator]) /\ Exists(role[operator[session[u].operator].role])
  BY <1>1 DEF RightsInv, RolesExist, SessionsExist
<1>3. operator[session[u].operator].role \in Roles
  BY <1>1 DEF TypeInv, OperatorRows
<1>4. Current(session[u])
  BY RightsIs DEF RightsInv
<1> QED BY <1>1, <1>2, <1>3, <1>4 DEF Holders

\* A save of permissions changes those of one role.
LEMMA WriteGrantsKeeps ==
  ASSUME TypeInv, NEW t \in Tabs, WriteGrants(t), NEW r \in Roles
  PROVE  /\ Exists(role'[r]) <=> Exists(role[r])
         /\ r # job[t].role => role'[r] = role[r]
<1> DEFINE q == job[t].role
           row == [role[q] EXCEPT !.grants = job[t].after]
<1>1. q \in Roles
  BY JobOf DEF WriteGrants, GrantJobs
<1>2. role \in [Roles -> RoleRows] /\ role[q] \in RoleRows
  BY <1>1 DEF TypeInv
<1>3. role' = role \/ role' = [role EXCEPT ![q] = row]
  BY <1>1, <1>2 DEF WriteGrants
<1>4. row.status = role[q].status
  BY <1>2 DEF RoleRows
<1> HIDE DEF q, row
<1> QED BY <1>1, <1>2, <1>3, <1>4 DEF Exists, q

LEMMA RightsStep == TypeInv /\ RightsInv /\ [Next]_vars => RightsInv'
<1> SUFFICES ASSUME TypeInv, RightsInv, [Next]_vars PROVE RightsInv'
  OBVIOUS
<1>r. RolesExist
  BY DEF RightsInv
<1>t. /\ role \in [Roles -> RoleRows] /\ operator \in [Operators -> OperatorRows]
      /\ \A o \in Operators : operator[o].role \in Roles
  BY DEF TypeInv, OperatorRows
<1>e. UNCHANGED << operator, role >> => RolesExist'
  BY <1>r DEF RolesExist
<1>1. ASSUME NEW t \in Tabs,
             \/ Opens(t) \/ WriteSecret(t) \/ WriteConfirmation(t) \/ WriteDisabled(t)
             \/ \E r \in Roles, grants \in SUBSET Perms : InsertRole(t, r, grants)
      PROVE  RightsInv'
  <2>1. UNCHANGED << operator, cut >> /\ session' = session
    BY <1>1, OpensFrame DEF WriteSecret, WriteConfirmation, WriteDisabled, InsertRole
  <2>2. \A r \in Roles : Exists(role[r]) => role'[r] = role[r]
    <3>1. (\E r \in Roles, grants \in SUBSET Perms : InsertRole(t, r, grants)) \/ role' = role
      BY <1>1, OpensFrame DEF WriteSecret, WriteConfirmation, WriteDisabled
    <3> QED BY <3>1, InsertRoleMakes DEF Exists, Statuses
  <2>3. ~ At(t, "revoke") /\ ~ At(t, "revokeRole")
    BY <1>1, OpensFrame DEF At, WriteSecret, WriteConfirmation, WriteDisabled, InsertRole, SuperActs
  <2>4. \A u \in Tabs : u # t => job'[u] = job[u]
    <3>1. \E j : Go(t, j)
      BY <1>1, OpensFrame DEF WriteSecret, WriteConfirmation, WriteDisabled, InsertRole
    <3> QED BY <3>1, OtherJobs
  <2>5. RolesExist'
    BY <1>r, <1>t, <2>1, <2>2 DEF RolesExist
  <2>6. ASSUME NEW u \in Tabs, NEW s, s = session[u], s # NoSession
        PROVE  Exists(operator'[s.operator]) /\ Current(s)'
    <3>1. /\ Current(s) /\ Exists(operator[s.operator]) /\ operator[s.operator].role \in Roles
          /\ Exists(role[operator[s.operator].role])
      BY <2>6, LiveSession
    <3>2. Revoking(s.operator) => Revoking(s.operator)'
      BY <2>1, <2>3, <2>4, RevokingKept
    <3> QED BY <2>1, <2>2, <3>1, <3>2, CurrentKept
  <2> QED BY <2>1, <2>5, <2>6, RightsKept DEF SessionsOnlyEnd
<1>2. ASSUME NEW t \in Tabs, CreateSessionRecord(t) PROVE RightsInv'
  <2> DEFINE o == job[t].operator
             opened == [operator |-> o, row |-> job[t].row, role |-> job[t].role,
                        late |-> operator[o] # job[t].row \/ role[operator[o].role] # job[t].role]
  <2>1. UNCHANGED << operator, role, cut >>
    BY <1>2 DEF CreateSessionRecord
  <2>2. ~ At(t, "revoke") /\ ~ At(t, "revokeRole")
    BY <1>2 DEF CreateSessionRecord, At
  <2>3. \A u \in Tabs : u # t => job'[u] = job[u]
    BY <1>2, WritesGo
  <2>4. \A p : Revoking(p) => Revoking(p)'
    BY <2>1, <2>2, <2>3, RevokingKept
  <2>5. \A u \in Tabs : session[u] # NoSession =>
          Exists(operator'[session[u].operator]) /\ \A s : s = session[u] => Current(s)'
    <3> SUFFICES ASSUME NEW u \in Tabs, session[u] # NoSession, NEW s, s = session[u]
                 PROVE  Exists(operator'[s.operator]) /\ Current(s)'
      OBVIOUS
    <3>1. Current(s) /\ Exists(operator[s.operator])
      BY LiveSession
    <3> QED BY <2>1, <2>4, <3>1, CurrentKept
  <2>6. CASE session' = session
    BY <1>e, <2>1, <2>5, <2>6, RightsKept DEF SessionsOnlyEnd
  <2>7. CASE Exists(operator[o]) /\ session' = SessionsAfter(o, t, opened)
    <3>1. /\ opened.operator = o
          /\ opened.late \/ (opened.row = operator[o] /\ opened.role = role[operator[o].role])
      OBVIOUS
    <3> HIDE DEF opened, o
    <3>2. \A u \in Tabs : session'[u] = IF u = t THEN opened
                           ELSE IF session[u].operator = o THEN NoSession ELSE session[u]
      BY <2>7 DEF SessionsAfter
    <3>3. ASSUME NEW u \in Tabs, NEW s, s = session'[u], s # NoSession
          PROVE  Exists(operator'[s.operator]) /\ Current(s)'
      <4>1. CASE s = opened
        BY <2>1, <2>7, <3>1, <4>1 DEF Current
      <4>2. CASE s = session[u]
        BY <2>5, <3>3, <4>2
      <4> QED BY <3>2, <3>3, <4>1, <4>2
    <3>4. SessionsExist'
      BY <3>3 DEF SessionsExist
    <3>5. RightsAreCurrent'
      BY <3>3, RightsIs DEF Current
    <3> QED BY <1>e, <2>1, <3>4, <3>5 DEF RightsInv
  <2> QED BY <1>2, <2>6, <2>7 DEF CreateSessionRecord
<1>3. ASSUME NEW t \in Tabs, WriteOperator(t) PROVE RightsInv'
  <2> DEFINE o == job[t].operator
  <2>1. job[t] \in EditJobs /\ job[t].step = "edit"
    BY <1>3, JobOf DEF WriteOperator, At
  <2>2. o \in Operators /\ job[t].row \in OperatorForms
    BY <2>1 DEF EditJobs
  <2>3. role' = role /\ cut' = cut /\ session' = session
    BY <1>3 DEF WriteOperator
  <2>4. /\ ~ At(t, "revoke") /\ ~ At(t, "revokeRole")
        /\ \A u \in Tabs : u # t => job'[u] = job[u]
    BY <1>3, <2>1, WritesGo DEF At
  <2>5. CASE operator' = operator
    <3>1. ASSUME NEW u \in Tabs, NEW s, s = session[u], s # NoSession
          PROVE  Exists(operator'[s.operator]) /\ Current(s)'
      <4>1. Current(s) /\ Exists(operator[s.operator])
        BY <3>1, LiveSession
      <4>2. Revoking(s.operator) => Revoking(s.operator)'
        BY <2>4, <2>5, RevokingKept
      <4> QED BY <2>3, <2>5, <4>1, <4>2, CurrentKept
    <3> QED BY <1>e, <2>3, <2>5, <3>1, RightsKept DEF SessionsOnlyEnd
  <2>6. CASE operator' # operator
    <3>1. /\ operator' = [operator EXCEPT ![o] = job[t].row]
          /\ Exists(role[job[t].row.role])
          /\ Go(t, [step |-> "revoke", of |-> {o}])
      BY <1>3, <2>6 DEF WriteOperator
    <3>2. Exists(job[t].row)
      BY <2>2 DEF OperatorForms, Exists
    <3>3. operator'[o] = job[t].row /\ \A p \in Operators : p # o => operator'[p] = operator[p]
      BY <1>t, <2>2, <3>1
    <3>4. RolesExist'
      <4> HIDE DEF o
      <4> QED BY <1>r, <2>2, <2>3, <3>1, <3>3 DEF RolesExist, o
    <3>5. \A p : p = o => Revoking(p)'
      <4>1. job'[t].step = "revoke" /\ job'[t].of = {o}
        BY <3>1, OtherJobs
      <4> QED BY <4>1 DEF Revoking, At
    <3>6. ASSUME NEW u \in Tabs, NEW s, s = session[u], s # NoSession
          PROVE  Exists(operator'[s.operator]) /\ Current(s)'
      <4>1. Current(s) /\ Exists(operator[s.operator]) /\ s.operator \in Operators
        BY <3>6, LiveSession
      <4>2. CASE s.operator = o
        <5>1. Exists(operator'[s.operator]) /\ Revoking(s.operator)'
          BY <3>2, <3>3, <3>5, <4>2
        <5> QED BY <5>1 DEF Current
      <4>3. CASE s.operator # o
        <5>1. operator'[s.operator] = operator[s.operator]
          BY <3>3, <4>1, <4>3
        <5>2. Revoking(s.operator) => Revoking(s.operator)'
          BY <2>4, <5>1, RevokingKept
        <5> QED BY <2>3, <4>1, <5>1, <5>2, CurrentKept
      <4> QED BY <4>2, <4>3
    <3> QED BY <2>3, <3>4, <3>6, RightsKept DEF SessionsOnlyEnd
  <2> QED BY <2>5, <2>6
<1>4. ASSUME NEW t \in Tabs, DeleteOperator(t) PROVE RightsInv'
  <2> DEFINE o == job[t].operator
  <2>1. o \in Operators
    BY <1>4, JobOf DEF DeleteOperator, RemoveJobs
  <2>2. /\ role' = role /\ cut' = cut /\ session' = Without({o})
        /\ operator' = [operator EXCEPT ![o] = [status |-> "Deleted", role |-> StaffRole]]
    BY <1>4 DEF DeleteOperator
  <2>3. /\ ~ At(t, "revoke") /\ ~ At(t, "revokeRole")
        /\ \A u \in Tabs : u # t => job'[u] = job[u]
    BY <1>4, WritesGo DEF DeleteOperator, At
  <2>4. ~ Exists(operator'[o]) /\ \A p \in Operators : p # o => operator'[p] = operator[p]
    BY <1>t, <2>1, <2>2 DEF Exists, Statuses
  <2>5. RolesExist'
    BY <1>r, <2>2, <2>4 DEF RolesExist
  <2>6. ASSUME NEW u \in Tabs, NEW s, s = session[u], s = session'[u], s # NoSession
        PROVE  Exists(operator'[s.operator]) /\ Current(s)'
    <3>1. Current(s) /\ Exists(operator[s.operator]) /\ s.operator \in Operators
      BY <2>6, LiveSession
    <3>2. s.operator # o
      BY <2>2, <2>6, WithoutOf
    <3>3. operator'[s.operator] = operator[s.operator]
      BY <2>4, <3>1, <3>2
    <3>4. Revoking(s.operator) => Revoking(s.operator)'
      BY <2>3, <3>3, RevokingKept
    <3> QED BY <2>2, <3>1, <3>3, <3>4, CurrentKept
  <2>7. SessionsOnlyEnd
    BY <2>2, WithoutEnds
  <2> QED BY <2>5, <2>6, <2>7, RightsKept
<1>5. ASSUME NEW t \in Tabs, WriteRole(t) \/ WriteGrants(t) PROVE RightsInv'
  <2> DEFINE r == job[t].role
  <2>1. operator' = operator /\ cut' = cut /\ session' = session
    BY <1>5 DEF WriteRole, WriteGrants
  <2>2. \A q \in Roles : /\ Exists(role'[q]) <=> Exists(role[q])
                         /\ q # r => role'[q] = role[q]
    BY <1>5, WriteRoleKeeps, WriteGrantsKeeps
  <2>3. role' = role \/ Go(t, [step |-> "revokeRole", role |-> r])
    BY <1>5, Zenon DEF WriteRole, WriteGrants
  <2>4. /\ ~ At(t, "revoke") /\ ~ At(t, "revokeRole")
        /\ \A u \in Tabs : u # t => job'[u] = job[u]
    BY <1>5, WritesGo DEF WriteRole, WriteGrants, At
  <2>5. RolesExist'
    BY <1>r, <1>t, <2>1, <2>2 DEF RolesExist
  <2>6. ASSUME NEW u \in Tabs, NEW s, s = session[u], s # NoSession
        PROVE  Exists(operator'[s.operator]) /\ Current(s)'
    <3> DEFINE o == s.operator
    <3>1. Current(s) /\ Exists(operator[o]) /\ operator[o].role \in Roles
      BY <2>6, LiveSession
    <3>2. Revoking(o) => Revoking(o)'
      BY <2>1, <2>4, RevokingKept
    <3>3. CASE role'[operator[o].role] = role[operator[o].role]
      BY <2>1, <3>1, <3>2, <3>3, CurrentKept
    <3>4. CASE role'[operator[o].role] # role[operator[o].role]
      <4>1. operator[o].role = r /\ Go(t, [step |-> "revokeRole", role |-> r])
        BY <2>2, <2>3, <3>1, <3>4
      <4>2. job'[t].step = "revokeRole" /\ job'[t].role = r
        BY <4>1, OtherJobs
      <4>3. Revoking(o)'
        BY <2>1, <4>1, <4>2 DEF Revoking, At
      <4> QED BY <2>1, <3>1, <4>3 DEF Current
    <3> QED BY <3>3, <3>4
  <2> QED BY <2>1, <2>5, <2>6, RightsKept DEF SessionsOnlyEnd
<1>6. ASSUME NEW t \in Tabs, DeleteRole(t) \/ TakeBackRole(t) PROVE RightsInv'
  <2>1. operator' = operator /\ cut' = cut /\ session' = session
    BY <1>6 DEF DeleteRole, TakeBackRole
  <2>2. \A q \in Roles : role'[q] = role[q] \/ Holders(q) = {}
    BY <1>6, DropRole
  <2>3. /\ ~ At(t, "revoke") /\ ~ At(t, "revokeRole")
        /\ \A u \in Tabs : u # t => job'[u] = job[u]
    BY <1>6, WritesGo DEF DeleteRole, TakeBackRole, At
  <2>4. \A o \in Operators : Exists(operator[o]) => role'[operator[o].role] = role[operator[o].role]
    BY <1>t, <2>2 DEF Holders
  <2>5. RolesExist'
    BY <1>r, <2>1, <2>4 DEF RolesExist
  <2>6. ASSUME NEW u \in Tabs, NEW s, s = session[u], s # NoSession
        PROVE  Exists(operator'[s.operator]) /\ Current(s)'
    <3>1. Current(s) /\ Exists(operator[s.operator]) /\ s.operator \in Operators
      BY <2>6, LiveSession
    <3>2. Revoking(s.operator) => Revoking(s.operator)'
      BY <2>1, <2>3, RevokingKept
    <3> QED BY <2>1, <2>4, <3>1, <3>2, CurrentKept
  <2> QED BY <2>1, <2>5, <2>6, RightsKept DEF SessionsOnlyEnd
<1>7. ASSUME NEW t \in Tabs, RevokeRoleSessions(t) PROVE RightsInv'
  <2> DEFINE r == job[t].role
  <2>1. /\ operator' = operator /\ role' = role /\ session' = Without(Holders(r))
        /\ cut' = cut \ Holders(r) /\ At(t, "revokeRole")
    BY <1>7 DEF RevokeRoleSessions
  <2>2. \A u \in Tabs : u # t => job'[u] = job[u]
    BY <1>7, WritesGo
  <2>3. SessionsOnlyEnd
    BY <2>1, WithoutEnds
  <2>4. ASSUME NEW u \in Tabs, NEW s, s = session[u], s = session'[u], s # NoSession
        PROVE  Exists(operator'[s.operator]) /\ Current(s)'
    <3> DEFINE o == s.operator
    <3>1. Current(s) /\ Exists(operator[o]) /\ o \in Holders(operator[o].role)
      BY <2>4, LiveSession
    <3>2. o \notin Holders(r) /\ operator[o].role # r
      BY <2>1, <2>4, <3>1, WithoutOf
    <3>3. Revoking(o) => Revoking(o)'
      BY <2>1, <2>2, <3>2 DEF Revoking, At
    <3> QED BY <2>1, <3>1, <3>2, <3>3, CurrentKept
  <2> QED BY <1>e, <2>1, <2>3, <2>4, RightsKept
<1>8. ASSUME NEW t \in Tabs, RevokeOperatorSessions(t) PROVE RightsInv'
  <2>1. /\ operator' = operator /\ role' = role /\ session' = Without(job[t].of)
        /\ cut' = cut \ job[t].of /\ At(t, "revoke")
    BY <1>8 DEF RevokeOperatorSessions
  <2>2. \A u \in Tabs : u # t => job'[u] = job[u]
    BY <1>8, WritesGo
  <2>3. SessionsOnlyEnd
    BY <2>1, WithoutEnds
  <2>4. ASSUME NEW u \in Tabs, NEW s, s = session[u], s = session'[u], s # NoSession
        PROVE  Exists(operator'[s.operator]) /\ Current(s)'
    <3> DEFINE o == s.operator
    <3>1. Current(s) /\ Exists(operator[o])
      BY <2>4, LiveSession
    <3>2. o \notin job[t].of
      BY <2>1, <2>4, WithoutOf
    <3>3. Revoking(o) => Revoking(o)'
      BY <2>1, <2>2, <3>2 DEF Revoking, At
    <3> QED BY <2>1, <3>1, <3>2, <3>3, CurrentKept
  <2> QED BY <1>e, <2>1, <2>3, <2>4, RightsKept
<1>9. ASSUME NEW t \in Tabs, HandlerDies(t) PROVE RightsInv'
  <2>1. operator' = operator /\ role' = role /\ session' = session
    BY <1>9 DEF HandlerDies
  <2>2. \A u \in Tabs : u # t => job'[u] = job[u]
    BY <1>9, WritesGo
  <2>3. /\ cut \subseteq cut'
        /\ At(t, "revoke") => job[t].of \subseteq cut'
        /\ At(t, "revokeRole") => Holders(job[t].role) \subseteq cut'
    BY <1>9 DEF HandlerDies, At
  <2>4. ASSUME NEW u \in Tabs, NEW s, s = session[u], s # NoSession
        PROVE  Exists(operator'[s.operator]) /\ Current(s)'
    <3> DEFINE o == s.operator
    <3>1. Current(s) /\ Exists(operator[o]) /\ o \in Holders(operator[o].role)
      BY <2>4, LiveSession
    <3>2. Revoking(o) => o \in cut' \/ Revoking(o)'
      BY <2>1, <2>2, <2>3, <3>1 DEF Revoking, At
    <3> QED BY <2>1, <2>3, <3>1, <3>2, CurrentKept
  <2> QED BY <1>e, <2>1, <2>4, RightsKept DEF SessionsOnlyEnd
<1>10. ASSUME NEW t \in Tabs, SessionEnds(t) \/ (\E o \in Operators : EndSessions(t, o))
       PROVE  RightsInv'
  <2>1. UNCHANGED << operator, role, cut, job >>
    BY <1>10 DEF SessionEnds, EndSessions
  <2>2. SessionsOnlyEnd
    BY <1>10, WithoutEnds DEF SessionEnds, EndSessions, SessionsOnlyEnd, TypeInv
  <2>3. ASSUME NEW u \in Tabs, NEW s, s = session[u], s # NoSession
        PROVE  Exists(operator'[s.operator]) /\ Current(s)'
    <3>1. Current(s) /\ Exists(operator[s.operator])
      BY <2>3, LiveSession
    <3>2. Revoking(s.operator) => Revoking(s.operator)'
      BY <2>1 DEF Revoking, At
    <3> QED BY <2>1, <3>1, <3>2, CurrentKept
  <2> QED BY <1>e, <2>1, <2>2, <2>3, RightsKept
<1>11. ASSUME NEW t \in Tabs, NEW p \in Operators, NEW row \in OperatorForms, InsertOperator(t, p, row)
       PROVE  RightsInv'
  <2>1. /\ UNCHANGED << role, cut, job >> /\ session' = session
        /\ operator' = [operator EXCEPT ![p] = row] /\ operator[p].status = "None"
        /\ Exists(role[row.role])
    BY <1>11 DEF InsertOperator
  <2>2. operator'[p] = row /\ \A o \in Operators : o # p => operator'[o] = operator[o]
    BY <1>t, <2>1
  <2>3. RolesExist'
    BY <1>r, <2>1, <2>2 DEF RolesExist
  <2>4. ASSUME NEW u \in Tabs, NEW s, s = session[u], s # NoSession
        PROVE  Exists(operator'[s.operator]) /\ Current(s)'
    <3>1. Current(s) /\ Exists(operator[s.operator]) /\ s.operator \in Operators
      BY <2>4, LiveSession
    <3>2. operator'[s.operator] = operator[s.operator]
      BY <2>1, <2>2, <3>1 DEF Exists, Statuses
    <3>3. Revoking(s.operator) => Revoking(s.operator)'
      BY <2>1, <3>2 DEF Revoking, At
    <3> QED BY <2>1, <3>1, <3>2, <3>3, CurrentKept
  <2> QED BY <2>1, <2>3, <2>4, RightsKept DEF SessionsOnlyEnd
<1>12. CASE UNCHANGED vars
  BY <1>12 DEF vars, RightsInv, RolesExist, SessionsExist, RightsAreCurrent, Revoking, At
<1> QED BY <1>1, <1>2, <1>3, <1>4, <1>5, <1>6, <1>7, <1>8, <1>9, <1>10, <1>11, <1>12, Steps

\* A live session was opened under its account's and role's rows as they are now,
\* but for the handlers and sign-ins that RightsAreCurrent names.
THEOREM RightsFollow == Spec => []RightsAreCurrent
<1>1. Init => RightsInv
  <2> SUFFICES ASSUME Init PROVE RightsInv
    OBVIOUS
  <2>1. \A t \in Tabs : session[t] = NoSession
    BY DEF Init
  <2>2. RolesExist
    <3>1. \A r \in Roles : r \in {Super, StaffRole} => role[r].status = "Active"
      BY DEF Init
    <3>2. \A o \in Operators : operator[o].role \in {Super, StaffRole}
      BY DEF Init
    <3> QED BY <3>1, <3>2, Given DEF RolesExist, Exists, Statuses
  <2> QED BY <2>1, <2>2 DEF RightsInv, SessionsExist, RightsAreCurrent
<1>2. RightsInv => RightsAreCurrent
  BY DEF RightsInv
<1> QED BY <1>1, <1>2, TypeInit, TypeStep, RightsStep, PTL DEF Spec
=============================================================================
