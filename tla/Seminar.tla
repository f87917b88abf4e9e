------------------------------ MODULE Seminar -------------------------------
(***************************************************************************)
(* One seminar with one session: models/Seminar.js, models/SeminarBooking, *)
(* controllers/seminarController.js and seminarBookingController.js, and   *)
(* the seminar part of checkout.session.completed in routes/webhooks.js.   *)
(*                                                                         *)
(* Seats are not counted but kept in a counter inside the seminar.  The    *)
(* webhook reads the seminar, creates the booking and saves the counter it *)
(* read plus one; a cancellation saves the counter it read less one.       *)
(* mongoose writes an element of an array by its position only while       *)
(* __v is the one that was read (`version`), and adds one to it only when  *)
(* the whole array is set: two counters saved at once do not notice each   *)
(* other, an edit of the sessions makes both fail.                         *)
(*                                                                         *)
(* An event may be delivered any number of times; POST .../confirm-payment *)
(* and POST /webhooks/stripe handle it alike.  The booking reference is    *)
(* the number of bookings (of the year) plus one, under a unique index.    *)
(***************************************************************************)
EXTENDS Integers, FiniteSets

CONSTANTS
  Clerks,      \* requests the server works on
  Purchases,   \* checkout sessions
  Seats,       \* booking ids
  Price,       \* of a seat; a refund is a part of it, all or nothing
  MaxSeats,    \* bound on maxAttendees
  MaxEdits     \* bound on the edits of the sessions

ASSUME SeminarAssumption ==
  IsFiniteSet(Seats) /\ Price \in Nat /\ MaxSeats \in Nat \ {0} /\ MaxEdits \in Nat

VARIABLES
  seminar,   \* the document
  seats,     \* booking id -> booking
  purchase,  \* Stripe: checkout session -> state, session it is for
  clerk,     \* request -> where it waits and what it has read
  drifted    \* history: a counter was lost, or saved from an old copy

seminarVars == <<seminar, seats, purchase, clerk, drifted>>

Attendees == 0..Cardinality(Seats)

Seminars == [ alive : BOOLEAN, status : {"draft", "published", "archived"},
              session : 0..MaxEdits, max : 1..MaxSeats, count : Attendees,
              full : BOOLEAN, version : 0..MaxEdits ]

\* What a request uses of the seminar it has read.
Copies == [ session : 0..MaxEdits, max : 1..MaxSeats, count : Attendees, full : BOOLEAN,
            version : 0..MaxEdits ]

NoSeat == "none"

SeatDocs == [ status : {NoSeat, "confirmed", "cancelled"}, session : 0..MaxEdits,
              reference : 0..Cardinality(Seats), refunded : 0..Price ]

ClerkSteps == {"idle", "tally", "insert", "seat", "seminar", "refund", "cancel", "unseat", "edit"}

ClerkStates ==
  [ step : ClerkSteps, copy : Copies, tally : Attendees, owed : 0..Price,
    seat : Seats \cup {NoSeat},
    late : BOOLEAN ]  \* history: a seat was sold that its copy does not count

SeminarTypeOK ==
  /\ seminar \in Seminars
  /\ seats \in [Seats -> SeatDocs]
  /\ purchase \in [Purchases -> [state : {"none", "open", "paid"}, session : 0..MaxEdits]]
  /\ clerk \in [Clerks -> ClerkStates]
  /\ drifted \in BOOLEAN

NewSeminar(max) ==
  [alive |-> TRUE, status |-> "draft", session |-> 0, max |-> max, count |-> 0,
   full |-> FALSE, version |-> 0]

CopyOf(s) == [session |-> s.session, max |-> s.max, count |-> s.count, full |-> s.full,
              version |-> s.version]

IdleClerk == [step |-> "idle", copy |-> CopyOf(NewSeminar(1)), tally |-> 0, owed |-> 0,
              seat |-> NoSeat, late |-> FALSE]

SeminarInit ==
  /\ seminar = NewSeminar(1)
  /\ seats = [b \in Seats |-> [status |-> NoSeat, session |-> 0, reference |-> 0, refunded |-> 0]]
  /\ purchase = [p \in Purchases |-> [state |-> "none", session |-> 0]]
  /\ clerk = [h \in Clerks |-> IdleClerk]
  /\ drifted = FALSE

-----------------------------------------------------------------------------
(* Helpers                                                                 *)

Confirmed == {b \in Seats : seats[b].status = "confirmed"}

Existing == {b \in Seats : seats[b].status # NoSeat}

\* Mutant: a full session has one seat more.
HasSpareSeat(s) == s.count <= s.max

\* currentAttendees < maxAttendees
HasSeat(s) == s.count < s.max

\* isSessionBookable; the session's date is ahead.
Bookable(s) == s.status = "published" /\ ~s.full /\ HasSeat(s)

\* currentAttendees = n and updateSessionStatus; only what changed is written.
Counted(copy, n) ==
  [seminar EXCEPT !.count = n,
                  !.full = IF (n >= copy.max) = copy.full THEN @ ELSE n >= copy.max]

ClerkEnds(h) == clerk' = [clerk EXCEPT ![h] = IdleClerk]

ClerkGoes(h, step) == clerk' = [clerk EXCEPT ![h].step = step]

\* The save by position finds the document it was read from.
SameArray(h) == seminar.alive /\ clerk[h].copy.version = seminar.version

-----------------------------------------------------------------------------
(* createCheckoutSession, and Stripe                                       *)

StartPurchase(p) ==
  /\ purchase[p].state = "none"
  /\ seminar.alive /\ Bookable(seminar)
  /\ purchase' = [purchase EXCEPT ![p] = [state |-> "open", session |-> seminar.session]]
  /\ UNCHANGED <<seminar, seats, clerk, drifted>>

PayPurchase(p) ==
  /\ purchase[p].state = "open"
  /\ purchase' = [purchase EXCEPT ![p].state = "paid"]
  /\ UNCHANGED <<seminar, seats, clerk, drifted>>

-----------------------------------------------------------------------------
(* checkout.session.completed                                              *)

\* The seminar is read; an event for a full or unknown session is dropped
\* ("TODO: Handle refund").
ReceivePurchase(h, p) ==
  /\ clerk[h].step = "idle"
  /\ purchase[p].state = "paid"
  /\ seminar.alive /\ seminar.session = purchase[p].session /\ HasSeat(seminar)
  /\ clerk' = [clerk EXCEPT ![h] =
       [IdleClerk EXCEPT !.step = "tally", !.copy = CopyOf(seminar),
                         !.late = \E g \in Clerks : clerk[g].step = "seat"]]
  /\ UNCHANGED <<seminar, seats, purchase, drifted>>

\* The hook of save() counts the bookings ...
TallyBookings(h) ==
  /\ clerk[h].step = "tally"
  /\ clerk' = [clerk EXCEPT ![h].step = "insert", ![h].tally = Cardinality(Existing)]
  /\ UNCHANGED <<seminar, seats, purchase, drifted>>

\* ... and the booking is inserted, unless its reference is taken.
InsertSeat(h, b) ==
  LET reference == clerk[h].tally + 1 IN
  /\ clerk[h].step = "insert"
  /\ seats[b].status = NoSeat
  /\ \/ /\ \E d \in Existing : seats[d].reference = reference
        /\ ClerkEnds(h)
        /\ UNCHANGED seats
     \/ /\ \A d \in Existing : seats[d].reference # reference
        /\ seats' = [seats EXCEPT ![b] =
             [status |-> "confirmed", session |-> clerk[h].copy.session,
              reference |-> reference, refunded |-> 0]]
        /\ clerk' = [g \in Clerks |->
             IF g = h THEN [clerk[h] EXCEPT !.step = "seat"]
             ELSE IF clerk[g].step \in {"tally", "insert"} THEN [clerk[g] EXCEPT !.late = TRUE]
             ELSE clerk[g]]
  /\ UNCHANGED <<seminar, purchase, drifted>>

SaveSeat(h) ==
  LET copy == clerk[h].copy IN
  /\ clerk[h].step = "seat"
  /\ seminar' = IF SameArray(h) THEN Counted(copy, copy.count + 1) ELSE seminar
  /\ drifted' = (drifted \/ ~SameArray(h) \/ copy.count # seminar.count)
  /\ ClerkEnds(h)
  /\ UNCHANGED <<seats, purchase>>

-----------------------------------------------------------------------------
(* cancelBooking                                                           *)

ReadSeat(h, b) ==
  /\ clerk[h].step = "idle"
  /\ seats[b].status = "confirmed"
  /\ clerk' = [clerk EXCEPT ![h].step = "seminar", ![h].seat = b]
  /\ UNCHANGED <<seminar, seats, purchase, drifted>>

\* The refund is all of the price, a half or nothing, by the session's date.
ReadItsSeminar(h) ==
  /\ clerk[h].step = "seminar"
  /\ \/ /\ seminar.alive /\ seminar.session = seats[clerk[h].seat].session
        /\ \E n \in 0..Price :
             clerk' = [clerk EXCEPT ![h].copy = CopyOf(seminar), ![h].owed = n,
                                    ![h].step = IF n > 0 THEN "refund" ELSE "cancel"]
     \/ /\ ~seminar.alive \/ seminar.session # seats[clerk[h].seat].session
        /\ ClerkEnds(h)
  /\ UNCHANGED <<seminar, seats, purchase, drifted>>

\* No idempotency key: Stripe refunds what has not been refunded yet.
RefundSeat(h) ==
  LET b == clerk[h].seat IN
  /\ clerk[h].step = "refund"
  /\ IF seats[b].refunded + clerk[h].owed <= Price
       THEN /\ seats' = [seats EXCEPT ![b].refunded = @ + clerk[h].owed]
            /\ ClerkGoes(h, "cancel")
       ELSE ClerkEnds(h) /\ UNCHANGED seats
  /\ UNCHANGED <<seminar, purchase, drifted>>

\* The booking is saved, whatever its status is by now.
SaveCancelledSeat(h) ==
  LET b    == clerk[h].seat
      free == clerk[h].copy.count > 0
  IN
  /\ clerk[h].step = "cancel"
  /\ seats' = [seats EXCEPT ![b].status = "cancelled"]
  /\ drifted' = (drifted \/ ~free \/ seats[b].status # "confirmed")
  /\ IF free THEN ClerkGoes(h, "unseat") ELSE ClerkEnds(h)
  /\ UNCHANGED <<seminar, purchase>>

\* Mutant: the seat is not given back.
KeepSeat(h) ==
  /\ clerk[h].step = "unseat"
  /\ ClerkEnds(h)
  /\ UNCHANGED <<seminar, seats, purchase, drifted>>

FreeSeat(h) ==
  LET copy == clerk[h].copy IN
  /\ clerk[h].step = "unseat"
  /\ seminar' = IF SameArray(h) THEN Counted(copy, copy.count - 1) ELSE seminar
  /\ drifted' = (drifted \/ ~SameArray(h) \/ copy.count # seminar.count)
  /\ ClerkEnds(h)
  /\ UNCHANGED <<seats, purchase>>

-----------------------------------------------------------------------------
(* seminarController.js; isSeminarOwner has read the seminar               *)

ReadSeminar(h) ==
  /\ clerk[h].step = "idle"
  /\ seminar.alive
  /\ clerk' = [clerk EXCEPT ![h].step = "edit", ![h].copy = CopyOf(seminar)]
  /\ UNCHANGED <<seminar, seats, purchase, drifted>>

\* updateSeminar with sessions: the counter of the copy is written back; the
\* session keeps its _id only if the caller sent it along.
SaveSessions(h, max, sameId) ==
  LET copy == clerk[h].copy IN
  /\ clerk[h].step = "edit"
  /\ SameArray(h) /\ seminar.version < MaxEdits
  /\ seminar' = [seminar EXCEPT
       !.session = IF sameId THEN @ ELSE seminar.version + 1,
       !.max = max, !.count = copy.count, !.full = copy.full, !.version = @ + 1]
  /\ drifted' = (drifted \/ copy.count # seminar.count)
  /\ clerk' = [g \in Clerks |-> IF g = h THEN IdleClerk ELSE
       [clerk[g] EXCEPT !.late = clerk[g].step \in {"tally", "insert"}]]
  /\ UNCHANGED <<seats, purchase>>

\* publishSeminar, archiveSeminar.
SaveSeminarStatus(h, status) ==
  /\ clerk[h].step = "edit"
  /\ seminar' = IF seminar.alive THEN [seminar EXCEPT !.status = status] ELSE seminar
  /\ ClerkEnds(h)
  /\ UNCHANGED <<seats, purchase, drifted>>

\* deleteSeminar
DeleteSeminar(h) ==
  /\ clerk[h].step = "edit"
  /\ clerk[h].copy.count = 0
  /\ seminar' = [seminar EXCEPT !.alive = FALSE]
  /\ ClerkEnds(h)
  /\ UNCHANGED <<seats, purchase, drifted>>

\* The server dies, or an await throws.
ClerkFails(h) ==
  /\ clerk[h].step # "idle"
  /\ drifted' = (drifted \/ clerk[h].step \in {"seat", "unseat"})
  /\ ClerkEnds(h)
  /\ UNCHANGED <<seminar, seats, purchase>>

SeminarNext ==
  \/ \E p \in Purchases : StartPurchase(p) \/ PayPurchase(p)
  \/ \E h \in Clerks :
       \/ \E p \in Purchases : ReceivePurchase(h, p)
       \/ TallyBookings(h) \/ SaveSeat(h)
       \/ \E b \in Seats : InsertSeat(h, b) \/ ReadSeat(h, b)
       \/ ReadItsSeminar(h) \/ RefundSeat(h) \/ SaveCancelledSeat(h) \/ FreeSeat(h)
       \/ ReadSeminar(h) \/ DeleteSeminar(h) \/ ClerkFails(h)
       \/ \E max \in 1..MaxSeats, sameId \in BOOLEAN : SaveSessions(h, max, sameId)
       \/ \E status \in {"published", "archived"} : SaveSeminarStatus(h, status)

SeminarSpec == SeminarInit /\ [][SeminarNext]_seminarVars

-----------------------------------------------------------------------------
(* Properties                                                              *)

\* currentAttendees counts the confirmed bookings, up to those whose request is
\* between the two writes, until a request saves a counter that another one has
\* changed, cancels what is cancelled, or fails behind the first of its writes.
SeatsAreCounted ==
  seminar.alive /\ ~drifted =>
    seminar.count + Cardinality({h \in Clerks : clerk[h].step = "seat"})
      = Cardinality(Confirmed) + Cardinality({h \in Clerks : clerk[h].step = "unseat"})

\* A booking beyond maxAttendees is made only by a request that read the counter
\* before another one's seat was in it, or before the limit was lowered, or when
\* the counter had drifted: never by the comparison itself.
OversoldByRaceOnly ==
  [][\A h \in Clerks : clerk[h].step = "insert" /\ clerk'[h].step = "seat" =>
       Cardinality(Confirmed) < seminar.max \/ clerk[h].late \/ drifted]_seminarVars
=============================================================================
