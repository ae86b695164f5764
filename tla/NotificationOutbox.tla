------------------------- MODULE NotificationOutbox -------------------------
(***************************************************************************)
(* The rows of notification_outbox and the senders that deliver them to    *)
(* Telegram.  Every web request of a division and every synchronisation    *)
(* cycle of a device runs a sender; they share nothing but the rows.  A    *)
(* sender reads its configuration and the due rows once, then claims,      *)
(* sends and settles one row after the other.                              *)
(*                                                                         *)
(* Time is counted in minutes and relative: a row holds the age of its     *)
(* claim and the wait until its next attempt.  A claim older than the      *)
(* lease and no claim at all mean the same to every statement of the       *)
(* code, so both are the age ClaimLease + 1.                               *)
(*                                                                         *)
(* Not covered: the text of a message, the bell (it only reads), and which *)
(* days a digest covers (DailyDigest).                                     *)
(***************************************************************************)
EXTENDS Integers, FiniteSets

CONSTANTS
  Sender,       \* processes that may run dispatch
  RowCount,     \* bound: rows that are ever created
  Division,     \* divisions with a Telegram group
  DivisionOf,   \* the division a row is addressed to
  DigestRow,    \* rows that a sender creates, the daily digests
  MaxAttempts,  \* NOTIFICATION_MAX_ATTEMPTS (5 in the code)
  RetryDelay,   \* minutes to wait after an attempt (1, 5, 15, 60 in the code)
  ClaimLease,   \* minutes a claim is respected (10 in the code)
  DueLimit,     \* rows a sender takes in one pass (10 in the code)
  SlowSenders,  \* may a sender be suspended for longer than the lease?
  MaxCrashes,   \* bound: senders that die or lose the database
  MaxEdits,     \* bound: changes to the bot or to the group ids
  MaxRetries    \* bound: uses of "Retry failed"

Row == 1..RowCount      \* in the order of created_at, rowid

ASSUME RowAssumption ==
  /\ RowCount \in Nat
  /\ DivisionOf \in [Row -> Division]
  /\ DigestRow \subseteq Row

ASSUME TimingAssumption ==
  /\ MaxAttempts \in Nat \ {0}
  /\ RetryDelay \in [1..(MaxAttempts - 1) -> Nat]
  /\ ClaimLease \in Nat
  /\ DueLimit \in Nat \ {0}
  /\ SlowSenders \in BOOLEAN

ASSUME BudgetAssumption ==
  /\ MaxCrashes \in Nat
  /\ MaxEdits \in Nat
  /\ MaxRetries \in Nat

VARIABLES
  rows,     \* notification_outbox
  bot,      \* telegram_config: active, with a token
  chats,    \* divisions whose group id is filled in
  sender,   \* what each running dispatch has read and where it is
  posted,   \* messages that reached the group, per row
  unacked,  \* those of them whose sender never learned of it
  budget    \* what is used of the bounds on faults and on operators

outboxVars == <<rows, bot, chats, sender, posted, unacked, budget>>

Unclaimed == ClaimLease + 1

NoRow == [status |-> "NONE", attempts |-> 0, age |-> Unclaimed, wait |-> 0]

NoJob == [row |-> 0, attempts |-> 0]

IdleSender == [pc |-> "idle", ready |-> FALSE, chats |-> {}, due |-> {},
         job |-> NoJob, ok |-> FALSE]

OutboxInit ==
  /\ rows = [r \in Row |-> NoRow]
  /\ bot \in BOOLEAN
  /\ chats \in SUBSET Division
  /\ sender = [s \in Sender |-> IdleSender]
  /\ posted = [r \in Row |-> 0]
  /\ unacked = [r \in Row |-> 0]
  /\ budget = [crash |-> 0, edit |-> 0, retry |-> 0]

-----------------------------------------------------------------------------
(* Rows are born, configured and put back in the queue.                    *)

\* Rows are numbered in the order they are created.
Fresh(r) == rows[r].status = "NONE" /\ \A q \in 1..(r - 1) : rows[q].status # "NONE"

Born(verdict) == [NoRow EXCEPT !.status = verdict]

\* The transaction of a mutation writes its notification; a replay of the
\* same mutation meets the id and does nothing.
Emit(r) ==
  /\ r \notin DigestRow
  /\ Fresh(r)
  /\ rows' = [rows EXCEPT ![r] =
       Born(IF bot /\ DivisionOf[r] \in chats THEN "PENDING" ELSE "SKIPPED")]
  /\ UNCHANGED <<bot, chats, sender, posted, unacked, budget>>

SaveTelegramConfig ==
  /\ budget.edit < MaxEdits
  /\ bot' = ~bot
  /\ budget' = [budget EXCEPT !.edit = @ + 1]
  /\ UNCHANGED <<rows, chats, sender, posted, unacked>>

SaveChatIds ==
  /\ budget.edit < MaxEdits
  /\ chats' \in SUBSET Division
  /\ budget' = [budget EXCEPT !.edit = @ + 1]
  /\ UNCHANGED <<rows, bot, sender, posted, unacked>>

\* "Retry failed" sets back all that a row holds of its attempts.
RetryFailed ==
  /\ budget.retry < MaxRetries
  /\ rows' = [r \in Row |-> IF rows[r].status = "FAILED" THEN Born("PENDING") ELSE rows[r]]
  /\ budget' = [budget EXCEPT !.retry = @ + 1]
  /\ UNCHANGED <<bot, chats, sender, posted, unacked>>

-----------------------------------------------------------------------------
(* One pass of a sender; every step below is one round trip.               *)

LoadContext(s) ==
  /\ sender[s].pc = "idle"
  /\ sender' = [sender EXCEPT ![s] =
       [IdleSender EXCEPT !.pc = "digest", !.ready = bot, !.chats = chats]]
  /\ UNCHANGED <<rows, bot, chats, posted, unacked, budget>>

\* A digest is born with the configuration the sender read.
AddDigest(s, r, empty) ==
  /\ sender[s].pc = "digest"
  /\ r \in DigestRow
  /\ Fresh(r)
  /\ rows' = [rows EXCEPT ![r] =
       Born(IF sender[s].ready /\ ~empty /\ DivisionOf[r] \in sender[s].chats
            THEN "PENDING" ELSE "SKIPPED")]
  /\ UNCHANGED <<bot, chats, sender, posted, unacked, budget>>

PassDigests(s) ==
  /\ sender[s].pc = "digest"
  /\ sender' = [sender EXCEPT ![s] =
       IF sender[s].ready THEN [sender[s] EXCEPT !.pc = "list"] ELSE IdleSender]
  /\ UNCHANGED <<rows, bot, chats, posted, unacked, budget>>

\* Slips for checking OneWinner, SentOnce and PromiseKept: the claim forgets
\* to look at the other claim, or at the verdict.
ClaimableWhilePending(r) == rows[r].status = "PENDING"
ClaimableOnceFree(r) == rows[r].status # "NONE" /\ rows[r].age > ClaimLease

Claimable(r) == rows[r].status = "PENDING" /\ rows[r].age > ClaimLease

Due == {r \in Row : Claimable(r) /\ rows[r].wait = 0}

Oldest(R) == {r \in R : Cardinality({q \in R : q < r}) < DueLimit}

ListDue(s) ==
  /\ sender[s].pc = "list"
  /\ sender' = [sender EXCEPT ![s] =
       IF Due = {} THEN IdleSender
       ELSE [@ EXCEPT !.pc = "claim",
                      !.due = {[row |-> r, attempts |-> rows[r].attempts] : r \in Oldest(Due)}]]
  /\ UNCHANGED <<rows, bot, chats, posted, unacked, budget>>

\* The rest of the list after a row, or the end of the pass.
Onward(s, rest) ==
  IF rest = {} THEN IdleSender
  ELSE [sender[s] EXCEPT !.pc = "claim", !.due = rest, !.job = NoJob, !.ok = FALSE]

Claimed(row) == [row EXCEPT !.age = 0, !.attempts = @ + 1]

Winner(s, entry) ==
  [sender[s] EXCEPT !.due = @ \ {entry}, !.job = entry,
                    !.pc = IF DivisionOf[entry.row] \in sender[s].chats
                           THEN "send" ELSE "skip"]

\* The row is claimed as it is now, with the attempts the list remembers.
Claim(s, entry) ==
  /\ sender[s].pc = "claim"
  /\ entry \in sender[s].due
  /\ \A other \in sender[s].due : entry.row <= other.row
  /\ \/ /\ Claimable(entry.row)
        /\ rows' = [rows EXCEPT ![entry.row] = Claimed(@)]
        /\ sender' = [sender EXCEPT ![s] = Winner(s, entry)]
     \/ /\ ~Claimable(entry.row)
        /\ sender' = [sender EXCEPT ![s] = Onward(s, sender[s].due \ {entry})]
        /\ UNCHANGED rows
  /\ UNCHANGED <<bot, chats, posted, unacked, budget>>

Skip(s) ==
  LET r == sender[s].job.row IN
  /\ sender[s].pc = "skip"
  /\ rows' = [rows EXCEPT ![r] = [@ EXCEPT !.status = "SKIPPED", !.age = Unclaimed]]
  /\ sender' = [sender EXCEPT ![s] = Onward(s, sender[s].due)]
  /\ UNCHANGED <<bot, chats, posted, unacked, budget>>

\* Telegram accepts the message, refuses it, or accepts it and the answer is
\* lost or comes after 15 seconds.
Post(s) ==
  LET r == sender[s].job.row IN
  /\ sender[s].pc = "send"
  /\ \E reaches \in BOOLEAN, answered \in BOOLEAN :
       /\ sender' = [sender EXCEPT ![s] =
            [@ EXCEPT !.pc = "settle", !.ok = reaches /\ answered]]
       /\ posted' = IF reaches THEN [posted EXCEPT ![r] = @ + 1] ELSE posted
       /\ unacked' = IF reaches /\ ~answered THEN [unacked EXCEPT ![r] = @ + 1] ELSE unacked
  /\ UNCHANGED <<rows, bot, chats, budget>>

MarkSent(s) ==
  LET r == sender[s].job.row IN
  /\ sender[s].pc = "settle"
  /\ sender[s].ok
  /\ rows' = [rows EXCEPT ![r] = [@ EXCEPT !.status = "SENT", !.age = Unclaimed]]
  /\ sender' = [sender EXCEPT ![s] = Onward(s, sender[s].due)]
  /\ UNCHANGED <<bot, chats, posted, unacked, budget>>

\* A row stops after the last attempt and else waits for its next one.
AfterFailure(row, attempts) ==
  IF attempts >= MaxAttempts
  THEN [row EXCEPT !.status = "FAILED", !.age = Unclaimed]
  ELSE [row EXCEPT !.age = Unclaimed, !.wait = RetryDelay[attempts]]

MarkFailed(s) ==
  LET job == sender[s].job IN
  /\ sender[s].pc = "settle"
  /\ ~sender[s].ok
  /\ rows' = [rows EXCEPT ![job.row] = AfterFailure(@, job.attempts + 1)]
  /\ sender' = [sender EXCEPT ![s] = Onward(s, sender[s].due)]
  /\ UNCHANGED <<bot, chats, posted, unacked, budget>>

\* The process dies, or a round trip to the database fails and the error ends
\* the pass; what was claimed stays claimed.
Abandon(s) ==
  LET r == sender[s].job.row IN
  /\ sender[s].pc # "idle"
  /\ budget.crash < MaxCrashes
  /\ sender' = [sender EXCEPT ![s] = IdleSender]
  /\ unacked' = IF sender[s].pc = "settle" /\ sender[s].ok
                THEN [unacked EXCEPT ![r] = @ + 1] ELSE unacked
  /\ budget' = [budget EXCEPT !.crash = @ + 1]
  /\ UNCHANGED <<rows, bot, chats, posted>>

-----------------------------------------------------------------------------
(* Time.  A claimed row is posted within 15 seconds and settled by the next *)
(* statement, so a sender outlives its lease only when it is suspended.     *)

Holds(s, r) == sender[s].pc \in {"skip", "send", "settle"} /\ sender[s].job.row = r

LeaseLasts ==
  \A s \in Sender, r \in Row : Holds(s, r) => rows[r].age < ClaimLease

\* A slip for checking EveryRowSettles: a claim never expires.
LaterWaitOnly(row) ==
  [row EXCEPT !.wait = IF @ = 0 THEN 0 ELSE @ - 1]

Later(row) ==
  [row EXCEPT !.age = IF @ > ClaimLease THEN @ ELSE @ + 1,
              !.wait = IF @ = 0 THEN 0 ELSE @ - 1]

Tick ==
  /\ SlowSenders \/ LeaseLasts
  /\ rows' = [r \in Row |-> Later(rows[r])]
  /\ UNCHANGED <<bot, chats, sender, posted, unacked, budget>>

-----------------------------------------------------------------------------

Work(s) ==
  \/ PassDigests(s) \/ ListDue(s)
  \/ \E entry \in sender[s].due : Claim(s, entry)
  \/ Skip(s) \/ Post(s) \/ MarkSent(s) \/ MarkFailed(s)

OutboxNext ==
  \/ \E r \in Row : Emit(r)
  \/ SaveTelegramConfig \/ SaveChatIds \/ RetryFailed \/ Tick
  \/ \E s \in Sender :
       \/ LoadContext(s) \/ Work(s) \/ Abandon(s)
       \/ \E r \in Row, empty \in BOOLEAN : AddDigest(s, r, empty)

OutboxSpec == OutboxInit /\ [][OutboxNext]_outboxVars

\* Every round trip ends (the clients have timeouts), passes keep being
\* started (a device runs one at the end of each cycle), and time passes.
Fairness ==
  /\ WF_outboxVars(Tick)
  /\ \A s \in Sender : WF_outboxVars(LoadContext(s)) /\ WF_outboxVars(Work(s))

LiveSpec == OutboxSpec /\ Fairness

-----------------------------------------------------------------------------
(* Properties.                                                             *)

RowRecord ==
  [status : {"NONE", "PENDING", "SENT", "SKIPPED", "FAILED"},
   attempts : Nat, age : 0..Unclaimed, wait : Nat]

SenderRecord ==
  [pc : {"idle", "digest", "list", "claim", "skip", "send", "settle"},
   ready : BOOLEAN, chats : SUBSET Division,
   due : SUBSET [row : Row, attempts : Nat],
   job : [row : Row, attempts : Nat] \cup {NoJob}, ok : BOOLEAN]

OutboxTypeOK ==
  /\ rows \in [Row -> RowRecord]
  /\ bot \in BOOLEAN
  /\ chats \in SUBSET Division
  /\ sender \in [Sender -> SenderRecord]
  /\ posted \in [Row -> Nat]
  /\ unacked \in [Row -> Nat]
  /\ budget \in [crash : 0..MaxCrashes, edit : 0..MaxEdits, retry : 0..MaxRetries]

\* The claim picks one winner: no two senders are between the claim and the
\* verdict of one row, whatever lists they read before.
OneWinner ==
  \A r \in Row : \A s, t \in Sender : Holds(s, r) /\ Holds(t, r) => s = t

\* A group sees a message a second time only if the answer to the first was
\* lost, or its sender died before it could write SENT.
SentOnce == \A r \in Row : posted[r] <= 1 + unacked[r]

\* A row settles once: what was sent, skipped or failed is not changed by a
\* sender that still works from an older list.
Promise == INSTANCE NotificationRow WITH status <- [r \in Row |-> rows[r].status]

PromiseKept == Promise!Spec

\* With the bot on for good, every waiting row gets its verdict, also when
\* the sender that claimed it died.
EveryRowSettles ==
  <>[]bot => \A r \in Row : rows[r].status = "PENDING" ~> rows[r].status # "PENDING"

=============================================================================
