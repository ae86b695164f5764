---------------------------- MODULE DailyDigest -----------------------------
(***************************************************************************)
(* The two daily digests, cold leads for CS and repeat orders for CRM.     *)
(* Any sender of NotificationOutbox may write the digest of the day: it    *)
(* reads the clock, looks up the last digest, collects the days since then *)
(* and inserts one row whose id is the date.                               *)
(*                                                                         *)
(* A day is covered when a digest lists what fell due on it; the shift by  *)
(* lead_warm_max_days is the same for all days and left out, so a change   *)
(* of that setting is not covered.  Midnight and COLD_DIGEST_HOUR cut the  *)
(* time into an early and a late part of each day.                         *)
(***************************************************************************)
EXTENDS Integers

CONSTANTS
  Dispatcher,       \* processes that may run dispatch
  CatchUp,      \* COLD_DIGEST_MAX_CATCH_UP_DAYS (7 in the code)
  LastDay       \* bound: days

Kind == {"cold", "reorder"}
Day == 1..LastDay

ASSUME DayAssumption == CatchUp \in Nat \ {0} /\ LastDay \in Nat \ {0}

VARIABLES
  day,      \* the date in the company's time zone
  late,     \* is it COLD_DIGEST_HOUR or later?
  covers,   \* per kind and date: the days the digest lists, {} without one
  dispatcher    \* what each running dispatch has read and where it is

digestVars == <<day, late, covers, dispatcher>>

None == 0

NoDispatch == [pc |-> "idle", kind |-> "cold", day |-> None, last |-> None]

DigestInit ==
  /\ day = 1
  /\ late = FALSE
  /\ covers = [k \in Kind |-> [d \in Day |-> {}]]
  /\ dispatcher = [s \in Dispatcher |-> NoDispatch]

Digests(k) == {d \in Day : covers[k][d] # {}}

\* The greatest id of a kind: an id ends in its date and sorts like it.
Last(k) ==
  IF Digests(k) = {} THEN None
  ELSE CHOOSE d \in Digests(k) : \A e \in Digests(k) : e <= d

LaterOf(a, b) == IF a > b THEN a ELSE b

\* Mutants: the last day is listed again, a day too few is listed.
WindowWithLast(today, last) ==
  LET first == IF last = None THEN today ELSE LaterOf(last, today - CatchUp + 1)
  IN  first..today
WindowTooShort(today, last) ==
  LET first == IF last = None THEN today ELSE LaterOf(last + 1, today - CatchUp + 2)
  IN  first..today

\* A first digest lists its own day, the next ones the days since the last,
\* CatchUp at most.
Window(today, last) ==
  LET first == IF last = None THEN today ELSE LaterOf(last + 1, today - CatchUp + 1)
  IN  first..today

-----------------------------------------------------------------------------

BeginDigests(s) ==
  /\ dispatcher[s].pc = "idle"
  /\ late
  /\ dispatcher' = [dispatcher EXCEPT ![s] = [NoDispatch EXCEPT !.pc = "read", !.day = day]]
  /\ UNCHANGED <<day, late, covers>>

\* The cold digest comes first, then the one of repeat orders.
NextKind(s) ==
  IF dispatcher[s].kind = "cold"
  THEN [dispatcher[s] EXCEPT !.pc = "read", !.kind = "reorder", !.last = None]
  ELSE NoDispatch

\* Nothing is left to do when today has its row, or a later day has one.
ReadState(s) ==
  LET k == dispatcher[s].kind
      today == dispatcher[s].day IN
  /\ dispatcher[s].pc = "read"
  /\ dispatcher' = [dispatcher EXCEPT ![s] =
       IF today \in Digests(k) \/ Window(today, Last(k)) = {} THEN NextKind(s)
       ELSE [@ EXCEPT !.pc = "insert", !.last = Last(k)]]
  /\ UNCHANGED <<day, late, covers>>

\* ON CONFLICT(id) DO NOTHING
Insert(s) ==
  LET k == dispatcher[s].kind
      today == dispatcher[s].day IN
  /\ dispatcher[s].pc = "insert"
  /\ covers' = IF today \in Digests(k) THEN covers
               ELSE [covers EXCEPT ![k][today] = Window(today, dispatcher[s].last)]
  /\ dispatcher' = [dispatcher EXCEPT ![s] = NextKind(s)]
  /\ UNCHANGED <<day, late>>

\* The process ends or an error of the database ends the pass.
EndDispatch(s) ==
  /\ dispatcher[s].pc # "idle"
  /\ dispatcher' = [dispatcher EXCEPT ![s] = NoDispatch]
  /\ UNCHANGED <<day, late, covers>>

\* A pass is a handful of statements: one that began on a date has ended when
\* COLD_DIGEST_HOUR of the next date comes, but midnight may pass in it.
Morning ==
  /\ ~late
  /\ \A s \in Dispatcher : dispatcher[s].pc = "idle"
  /\ late' = TRUE
  /\ UNCHANGED <<day, covers, dispatcher>>

Midnight ==
  /\ late
  /\ day < LastDay
  /\ day' = day + 1
  /\ late' = FALSE
  /\ UNCHANGED <<covers, dispatcher>>

DigestNext ==
  \/ Morning
  \/ Midnight
  \/ \E s \in Dispatcher : BeginDigests(s) \/ ReadState(s) \/ Insert(s) \/ EndDispatch(s)

DigestSpec == DigestInit /\ [][DigestNext]_digestVars

-----------------------------------------------------------------------------
(* Properties.                                                             *)

DigestTypeOK ==
  /\ day \in Day
  /\ late \in BOOLEAN
  /\ covers \in [Kind -> [Day -> SUBSET Day]]
  /\ dispatcher \in [Dispatcher -> [pc : {"idle", "read", "insert"}, kind : Kind,
                            day : Day \cup {None}, last : Day \cup {None}]]

\* No day is listed by two digests, also when two senders race or a pass runs
\* over midnight.
CoveredOnce ==
  \A k \in Kind : \A d, e \in Day : d # e => covers[k][d] \cap covers[k][e] = {}

\* The days before a digest, as far as it may catch up and back to the first
\* digest, are all listed by one, however many days had no sender.
NoDayMissed ==
  \A k \in Kind : \A d \in Digests(k) : \A e \in Day :
    /\ d - CatchUp < e
    /\ e <= d
    /\ \E f \in Digests(k) : f <= e
    => \E f \in Digests(k) : e \in covers[k][f]

=============================================================================
