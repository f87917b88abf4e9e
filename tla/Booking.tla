------------------------------ MODULE Booking ------------------------------
(***************************************************************************)
(* The appointments of one specialist: models/Appointment.js with its TTL  *)
(* index, routes/appointments.js, the appointment part of                  *)
(* routes/checkout.js and of routes/webhooks.js, the bookings of           *)
(* routes/users.js and routes/client.js, and                               *)
(* services/waitlistAutoFillService.js.                                    *)
(*                                                                         *)
(* Every handler reads, awaits and writes; between its await points the    *)
(* others run.  No appointment is written under a version or under a lock  *)
(* of lockService: nearly every write is unconditional.  The three         *)
(* cancelled_* statuses are one here, amounts of money and payment.status  *)
(* are left out, and an appointment covers exactly one slot.               *)
(***************************************************************************)
EXTENDS Integers, FiniteSets

CONSTANTS
  Handlers,   \* requests the server works on
  Appts,      \* appointment ids
  Slots,      \* times of the specialist
  Sessions,   \* Stripe checkout sessions
  NoAppt, NoSlot, NoSession,
  HoldTicks   \* the three minutes of an unpaid reservation, in ticks

ASSUME ConstantsAssumption ==
  /\ HoldTicks \in Nat \ {0}
  /\ NoAppt \notin Appts /\ NoSlot \notin Slots /\ NoSession \notin Sessions

VARIABLES
  appts,     \* the collection: id -> document; status "none": there is none
  sessions,  \* Stripe: session -> the appointment it was opened for, its state
  events,    \* Stripe: events that are still to be delivered
  proc,      \* handler -> where it waits and what it has read
  excused,   \* history: overlapping pairs that no check could have seen
  vouched    \* history: appointments that staff or the salon confirmed

vars == <<appts, sessions, events, proc, excused, vouched>>

Statuses == {"reserved_unpaid", "confirmed", "cancelled", "no_show"}

Docs == [ status  : Statuses \cup {"none"},
          slot    : Slots \cup {NoSlot},
          age     : 0..HoldTicks,            \* time since createdAt
          session : Sessions \cup {NoSession} ]  \* payment.sessionId

NoDoc == [status |-> "none", slot |-> NoSlot, age |-> 0, session |-> NoSession]

\* What a booking handler creates: an unpaid reservation alone, one with a
\* checkout session, one with a deposit link, or a confirmed appointment.
Kinds == {"reserve", "checkout", "deposit", "salon"}

Steps == {"idle", "book", "session", "confirm", "abandon", "cancel", "user cancel",
          "fill", "fill check", "checked move", "unchecked move", "erase"}

Procs == [ step    : Steps,
           kind    : Kinds,
           appt    : Appts \cup {NoAppt},
           slot    : Slots \cup {NoSlot},
           session : Sessions \cup {NoSession},
           unseen  : SUBSET Appts ]  \* history: arrivals in slot since the check

Idle == [step |-> "idle", kind |-> "reserve", appt |-> NoAppt, slot |-> NoSlot,
         session |-> NoSession, unseen |-> {}]

TypeOK ==
  /\ appts \in [Appts -> Docs]
  /\ \A a \in Appts : appts[a].slot \in Slots <=> appts[a].status # "none"
  /\ sessions \in [Sessions -> [appt  : Appts \cup {NoAppt},
                                state : {"none", "open", "paid", "expired"}]]
  /\ events \in SUBSET (Sessions \X {"paid", "failed"})
  /\ proc \in [Handlers -> Procs]
  /\ excused \in SUBSET SUBSET Appts
  /\ vouched \in SUBSET Appts

Init ==
  /\ appts = [a \in Appts |-> NoDoc]
  /\ sessions = [x \in Sessions |-> [appt |-> NoAppt, state |-> "none"]]
  /\ events = {}
  /\ proc = [h \in Handlers |-> Idle]
  /\ excused = {}
  /\ vouched = {}

-----------------------------------------------------------------------------
(* Helpers                                                                 *)

Exists(a) == appts[a].status # "none"

\* The filter of the conflict queries: everything but cancelled appointments
\* and unpaid reservations that are older than three minutes.
Active(doc) ==
  \/ doc.status \in {"confirmed", "no_show"}
  \/ doc.status = "reserved_unpaid" /\ doc.age < HoldTicks

\* Mutant: a conflict query that sees no unpaid reservation.
OccupantsConfirmed(s) ==
  {a \in Appts : appts[a].status = "confirmed" /\ appts[a].slot = s}

Occupants(s) == {a \in Appts : Active(appts[a]) /\ appts[a].slot = s}

\* A new _id: nothing in the system refers to it.
Unused(a) ==
  /\ ~Exists(a)
  /\ \A x \in Sessions : sessions[x].appt # a
  /\ \A h \in Handlers : proc[h].appt # a /\ a \notin proc[h].unseen

At(h, step) == proc[h].step = step

Waiting(step, a, s, x) ==
  [Idle EXCEPT !.step = step, !.appt = a, !.slot = s, !.session = x]

Then(h, p) == proc' = [proc EXCEPT ![h] = p]

End(h) == Then(h, Idle)

\* Handlers that have checked slot s do not see a's arrival there.
Unnoticed(p, a, s) ==
  [h \in Handlers |->
     IF p[h].step \in {"book", "checked move"} /\ p[h].slot = s
       THEN [p[h] EXCEPT !.unseen = @ \cup {a}] ELSE p[h]]

\* a's document becomes doc and the handlers' state p.  When a begins to occupy
\* doc.slot, it may overlap the appointments of `unseen` and is excused for them.
Put(a, doc, unseen, p) ==
  /\ appts' = [appts EXCEPT ![a] = doc]
  /\ IF Active(doc) /\ ~(Active(appts[a]) /\ appts[a].slot = doc.slot)
       THEN /\ excused' = {e \in excused : a \notin e} \cup {{a, b} : b \in unseen}
            /\ proc' = Unnoticed(p, a, doc.slot)
       ELSE UNCHANGED excused /\ proc' = p

\* Mutant: createdAt is refreshed with every change of the status.
SetStatusTouching(a, status, session, p) ==
  Put(a, [appts[a] EXCEPT !.status = status, !.session = session, !.age = 0],
      Occupants(appts[a].slot), p)

\* A write that sets a's status without looking for conflicts.
SetStatus(a, status, session, p) ==
  Put(a, [appts[a] EXCEPT !.status = status, !.session = session],
      Occupants(appts[a].slot), p)

\* Mutant: a deleted appointment keeps its time.
RemoveStatus(a) == appts' = [appts EXCEPT ![a].status = "none"]

Remove(a) == appts' = [appts EXCEPT ![a] = NoDoc]

-----------------------------------------------------------------------------
(* Booking                                                                 *)

\* POST /appointments or POST /checkout/create-session: the conflict query.
Check(h, k, s) ==
  /\ At(h, "idle")
  /\ Occupants(s) = {}
  /\ Then(h, [Waiting("book", NoAppt, s, NoSession) EXCEPT !.kind = k])
  /\ UNCHANGED <<appts, sessions, events, excused, vouched>>

\* Appointment.create(), after more awaits.  With a checkout or a deposit the
\* handler goes on to Stripe.
Create(h, a) ==
  LET r   == proc[h]
      doc == [status |-> IF r.kind = "salon" THEN "confirmed" ELSE "reserved_unpaid",
              slot |-> r.slot, age |-> 0, session |-> NoSession]
  IN
  /\ At(h, "book")
  /\ Unused(a)
  /\ Put(a, doc, r.unseen,
         [proc EXCEPT ![h] =
            IF r.kind \in {"checkout", "deposit"}
              THEN [Waiting("session", a, NoSlot, NoSession) EXCEPT !.kind = r.kind]
              ELSE Idle])
  /\ vouched' = IF r.kind = "salon" THEN vouched \cup {a} ELSE vouched \ {a}
  /\ UNCHANGED <<sessions, events>>

\* POST /checkout/create-session for an appointment that exists already.
PayExisting(h, a) ==
  /\ At(h, "idle")
  /\ appts[a].status = "reserved_unpaid"
  /\ Then(h, [Waiting("session", a, NoSlot, NoSession) EXCEPT !.kind = "checkout"])
  /\ UNCHANGED <<appts, sessions, events, excused, vouched>>

\* Stripe opens a session; its id goes into the document, if that still exists
\* and whatever its status is by now.  A deposit link is stored elsewhere
\* (payment.checkoutSessionId), where GET /confirm does not look.  The url is
\* given out last, so nobody can use the session before.
OpenSession(h, x) ==
  LET a == proc[h].appt IN
  /\ At(h, "session")
  /\ sessions[x].state = "none"
  /\ sessions' = [sessions EXCEPT ![x] = [appt |-> a, state |-> "open"]]
  /\ appts' = IF Exists(a) /\ proc[h].kind = "checkout"
                THEN [appts EXCEPT ![a].session = x] ELSE appts
  /\ End(h)
  /\ UNCHANGED <<events, excused, vouched>>

-----------------------------------------------------------------------------
(* Stripe                                                                  *)

Pay(x) ==
  /\ sessions[x].state = "open"
  /\ sessions' = [sessions EXCEPT ![x].state = "paid"]
  /\ events' = events \cup {<<x, "paid">>}
  /\ UNCHANGED <<appts, proc, excused, vouched>>

\* The card is declined; the customer may try again in the same session.
Decline(x) ==
  /\ sessions[x].state = "open"
  /\ <<x, "failed">> \notin events
  /\ events' = events \cup {<<x, "failed">>}
  /\ UNCHANGED <<appts, sessions, proc, excused, vouched>>

\* The session's day is over.  Its event changes payment.status only.
SessionExpires(x) ==
  /\ sessions[x].state = "open"
  /\ sessions' = [sessions EXCEPT ![x].state = "expired"]
  /\ UNCHANGED <<appts, events, proc, excused, vouched>>

\* An event is delivered in any order, and again until it is answered.
Deliver(e) == e \in events /\ events' \in {events, events \ {e}}

\* checkout.session.completed or payment_intent.succeeded (which leaves the
\* session id alone): confirmed, whatever the status was.
WebhookPaid(x) ==
  LET a == sessions[x].appt IN
  /\ Deliver(<<x, "paid">>)
  /\ Exists(a)
  /\ \E y \in {x, appts[a].session} : SetStatus(a, "confirmed", y, proc)
  /\ UNCHANGED <<sessions, vouched>>

\* payment_intent.payment_failed: unpaid, whatever the status was.
WebhookFailed(x) ==
  LET a == sessions[x].appt IN
  /\ Deliver(<<x, "failed">>)
  /\ Exists(a)
  /\ SetStatus(a, "reserved_unpaid", appts[a].session, proc)
  /\ UNCHANGED <<sessions, vouched>>

\* Nothing to update, or the update has failed and the error is logged: the
\* answer is 200 all the same.
WebhookVain(e) ==
  /\ Deliver(e) /\ e \notin events'
  /\ UNCHANGED <<appts, sessions, proc, excused, vouched>>

\* GET /checkout/confirm: the document is found by its session id.  A cancelled
\* one ends the request, a confirmed one is not written again.
ConfirmRead(h, a) ==
  /\ At(h, "idle")
  /\ appts[a].session # NoSession
  /\ appts[a].status \notin {"cancelled", "confirmed"}
  /\ Then(h, Waiting("confirm", a, NoSlot, appts[a].session))
  /\ UNCHANGED <<appts, sessions, events, excused, vouched>>

\* Mutant: the session's payment status is not looked at.
ConfirmUnpaid(h) ==
  LET a == proc[h].appt
      x == proc[h].session
      p == [proc EXCEPT ![h] = Idle]
  IN
  /\ At(h, "confirm")
  /\ \/ Exists(a) /\ SetStatus(a, "confirmed", x, p)
     \/ ~Exists(a) /\ End(h) /\ UNCHANGED <<appts, excused>>
  /\ UNCHANGED <<sessions, events, vouched>>

\* Stripe says the session is paid (409 otherwise): the status and the payment
\* that was read, with its session id, are written if the document still exists.
ConfirmWrite(h) ==
  LET a == proc[h].appt
      x == proc[h].session
      p == [proc EXCEPT ![h] = Idle]
  IN
  /\ At(h, "confirm")
  /\ \/ sessions[x].state = "paid" /\ Exists(a) /\ SetStatus(a, "confirmed", x, p)
     \/ (sessions[x].state # "paid" \/ ~Exists(a)) /\ End(h) /\ UNCHANGED <<appts, excused>>
  /\ UNCHANGED <<sessions, events, vouched>>

-----------------------------------------------------------------------------
(* Giving up and cancelling                                                *)

\* DELETE /checkout/cancel-appointment: only an unpaid appointment ...
AbandonRead(h, a) ==
  /\ At(h, "idle")
  /\ appts[a].status = "reserved_unpaid"
  /\ Then(h, Waiting("abandon", a, NoSlot, NoSession))
  /\ UNCHANGED <<appts, sessions, events, excused, vouched>>

\* ... findByIdAndDelete: whatever it is by now.
AbandonDelete(h) ==
  /\ At(h, "abandon")
  /\ Remove(proc[h].appt)
  /\ End(h)
  /\ UNCHANGED <<sessions, events, excused, vouched>>

\* POST /:id/cancel up to the refund.
CancelRead(h, a) ==
  /\ At(h, "idle")
  /\ appts[a].status \notin {"none", "cancelled"}
  /\ Then(h, Waiting("cancel", a, NoSlot, NoSession))
  /\ UNCHANGED <<appts, sessions, events, excused, vouched>>

\* findOneAndUpdate, on a confirmed or unpaid appointment only; the request that
\* wins tries to fill the slot from the waitlist.
CancelWrite(h) ==
  LET a == proc[h].appt IN
  /\ At(h, "cancel")
  /\ \/ /\ appts[a].status \in {"confirmed", "reserved_unpaid"}
        /\ appts' = [appts EXCEPT ![a].status = "cancelled"]
        /\ Then(h, Waiting("fill", a, NoSlot, NoSession))
     \/ /\ appts[a].status \notin {"confirmed", "reserved_unpaid"}
        /\ End(h) /\ UNCHANGED appts
  /\ UNCHANGED <<sessions, events, excused, vouched>>

\* PATCH /users/me/bookings/:id/cancel: not for a cancelled appointment ...
UserCancelRead(h, a) ==
  /\ At(h, "idle")
  /\ appts[a].status \notin {"none", "cancelled"}
  /\ Then(h, Waiting("user cancel", a, NoSlot, NoSession))
  /\ UNCHANGED <<appts, sessions, events, excused, vouched>>

\* ... save(), whatever it is by now; an error when the document is gone.
UserCancelSave(h) ==
  LET a == proc[h].appt IN
  /\ At(h, "user cancel")
  /\ \/ /\ Exists(a)
        /\ appts' = [appts EXCEPT ![a].status = "cancelled"]
        /\ Then(h, Waiting("fill", a, NoSlot, NoSession))
     \/ ~Exists(a) /\ End(h) /\ UNCHANGED appts
  /\ UNCHANGED <<sessions, events, excused, vouched>>

\* autoFillCancelledSlot: the appointment is read again and must be cancelled.
FillRead(h) ==
  LET a == proc[h].appt IN
  /\ At(h, "fill")
  /\ IF appts[a].status = "cancelled"
       THEN Then(h, Waiting("fill check", a, appts[a].slot, NoSession))
       ELSE End(h)
  /\ UNCHANGED <<appts, sessions, events, excused, vouched>>

\* There is a candidate, and nobody but the cancelled appointment itself, which
\* the query leaves out, has the slot: a confirmed appointment is created next.
FillCheck(h) ==
  LET r == proc[h] IN
  /\ At(h, "fill check")
  /\ \/ /\ Occupants(r.slot) \subseteq {r.appt}
        /\ Then(h, [Waiting("book", NoAppt, r.slot, NoSession)
                      EXCEPT !.kind = "salon", !.unseen = {r.appt}])
     \/ End(h)
  /\ UNCHANGED <<appts, sessions, events, excused, vouched>>

-----------------------------------------------------------------------------
(* Staff, and rescheduling by the client                                   *)

\* PATCH /:id/status.  The handler looks at nothing it has read, so its read
\* and its write (none, when the document is gone) are one step.
PatchStatus(a, status) ==
  /\ Exists(a)
  /\ SetStatus(a, status, appts[a].session, proc)
  /\ vouched' = IF status = "confirmed" THEN vouched \cup {a} ELSE vouched
  /\ UNCHANGED <<sessions, events>>

\* PATCH /:id with a new start: another appointment at that time, of whatever
\* status, is a conflict, but only a body that names the specialist too is
\* checked.  POST /client/bookings/:id/reschedule, for an appointment that is
\* not over, counts all but cancelled ones.
MoveCheck(h, a, s) ==
  LET others == {b \in Appts \ {a} : appts[b].slot = s} IN
  /\ At(h, "idle")
  /\ Exists(a)
  /\ appts[a].slot # s
  /\ \/ /\ \/ others = {}
           \/ /\ appts[a].status \in {"confirmed", "reserved_unpaid"}
              /\ \A b \in others : appts[b].status = "cancelled"
        /\ Then(h, Waiting("checked move", a, s, NoSession))
     \/ Then(h, Waiting("unchecked move", a, s, NoSession))
  /\ UNCHANGED <<appts, sessions, events, excused, vouched>>

\* save(): an error when the document is gone.
MoveSave(h) ==
  LET r == proc[h]
      p == [proc EXCEPT ![h] = Idle]
  IN
  /\ At(h, "checked move") \/ At(h, "unchecked move")
  /\ \/ /\ Exists(r.appt)
        /\ Put(r.appt, [appts[r.appt] EXCEPT !.slot = r.slot],
               IF At(h, "checked move") THEN r.unseen ELSE Occupants(r.slot), p)
     \/ ~Exists(r.appt) /\ proc' = p /\ UNCHANGED <<appts, excused>>
  /\ UNCHANGED <<sessions, events, vouched>>

\* DELETE /:id: a cancelled appointment ...
EraseRead(h, a) ==
  /\ At(h, "idle")
  /\ appts[a].status = "cancelled"
  /\ Then(h, Waiting("erase", a, NoSlot, NoSession))
  /\ UNCHANGED <<appts, sessions, events, excused, vouched>>

\* ... deleteOne, whatever it is by now.
Erase(h) ==
  /\ At(h, "erase")
  /\ Remove(proc[h].appt)
  /\ End(h)
  /\ UNCHANGED <<sessions, events, excused, vouched>>

\* DELETE /specialist/:specialistId
DeleteAll ==
  /\ appts' = [a \in Appts |-> NoDoc]
  /\ UNCHANGED <<sessions, events, proc, excused, vouched>>

-----------------------------------------------------------------------------
(* Time and crashes                                                        *)

Tick ==
  /\ \E a \in Appts : Exists(a) /\ appts[a].age < HoldTicks
  /\ appts' = [a \in Appts |->
                 IF Exists(a) /\ appts[a].age < HoldTicks
                   THEN [appts[a] EXCEPT !.age = @ + 1] ELSE appts[a]]
  /\ UNCHANGED <<sessions, events, proc, excused, vouched>>

\* MongoDB's TTL monitor, some time after the three minutes.
TtlDelete(a) ==
  /\ appts[a].status = "reserved_unpaid"
  /\ appts[a].age = HoldTicks
  /\ Remove(a)
  /\ UNCHANGED <<sessions, events, proc, excused, vouched>>

\* The server dies, or an await throws (Stripe, the refund, the database).
HandlerCrash(h) ==
  /\ ~At(h, "idle")
  /\ End(h)
  /\ UNCHANGED <<appts, sessions, events, excused, vouched>>

Book(h) ==
  \/ \E k \in Kinds, s \in Slots : Check(h, k, s)
  \/ \E a \in Appts : Create(h, a) \/ PayExisting(h, a) \/ ConfirmRead(h, a)
  \/ \E x \in Sessions : OpenSession(h, x)
  \/ ConfirmWrite(h)

Withdraw(h) ==
  \/ \E a \in Appts : AbandonRead(h, a) \/ CancelRead(h, a) \/ UserCancelRead(h, a)
  \/ AbandonDelete(h) \/ CancelWrite(h) \/ UserCancelSave(h)
  \/ FillRead(h) \/ FillCheck(h)

Manage(h) ==
  \/ \E a \in Appts : EraseRead(h, a) \/ \E s \in Slots : MoveCheck(h, a, s)
  \/ MoveSave(h) \/ Erase(h)

Stripe ==
  \/ \E x \in Sessions :
       Pay(x) \/ Decline(x) \/ SessionExpires(x) \/ WebhookPaid(x) \/ WebhookFailed(x)
  \/ \E e \in events : WebhookVain(e)

Next ==
  \/ \E h \in Handlers : Book(h) \/ Withdraw(h) \/ Manage(h) \/ HandlerCrash(h)
  \/ Stripe
  \/ \E a \in Appts : TtlDelete(a) \/ \E status \in Statuses : PatchStatus(a, status)
  \/ DeleteAll \/ Tick

\* Time does not stop and MongoDB's TTL monitor runs every minute.
Spec ==
  Init /\ [][Next]_vars /\ WF_vars(Tick) /\ \A a \in Appts : WF_vars(TtlDelete(a))

-----------------------------------------------------------------------------
(* Properties                                                              *)

\* Two active appointments share a slot only when the later of them could not
\* have seen the other: it arrived between the conflict query and the write
\* (nothing locks the slot), or the later one arrived without a query (a late
\* payment, a status set by staff, a move without the specialist).  In every
\* other history the conflict query, the three minutes and the TTL index keep
\* them apart.
OverlapIsExplained ==
  \A a, b \in Appts :
    /\ a # b
    /\ Active(appts[a]) /\ Active(appts[b])
    /\ appts[a].slot = appts[b].slot
    => {a, b} \in excused

Paid(a) == \E x \in Sessions : sessions[x].appt = a /\ sessions[x].state = "paid"

\* Only a paid session of its own, staff, or payment in the salon confirms an
\* appointment: no late, repeated or reordered event and no stale copy does.
ConfirmedIsPaidOrVouched ==
  \A a \in Appts : appts[a].status = "confirmed" => a \in vouched \/ Paid(a)

\* An unpaid reservation does not block its slot for ever, whatever declined
\* payments and retries come: it is paid, cancelled or deleted.
ReservationEnds ==
  \A a \in Appts :
    appts[a].status = "reserved_unpaid" ~> appts[a].status # "reserved_unpaid"

\* "No double-bookings (system prevents conflicts)", docs/CLIENT_PROPOSAL.md:74.
NoDoubleBooking ==
  \A a, b \in Appts :
    appts[a].status = "confirmed" /\ appts[b].status = "confirmed"
      /\ appts[a].slot = appts[b].slot => a = b

\* "Only delete if appointment is reserved_unpaid (hasn't been paid)", comment
\* in DELETE /checkout/cancel-appointment: it does not delete a paid and
\* confirmed one.
PaidIsNotAbandoned ==
  [][\A h \in Handlers :
       LET a == proc[h].appt IN
       At(h, "abandon") /\ ~At(h, "abandon")' /\ a \in Appts
         /\ appts[a].status = "confirmed" /\ Paid(a)
       => appts'[a] # NoDoc]_vars

\* "TTL index to automatically delete abandoned unpaid reservations after 3
\* minutes", comment in models/Appointment.js:175: it does not delete an
\* appointment that is paid for and whose event Stripe has been told is done.
PaidIsNotExpired ==
  [][\A a \in Appts, x \in Sessions :
       TtlDelete(a) /\ sessions[x].appt = a
       => sessions[x].state # "paid" \/ <<x, "paid">> \in events]_vars
=============================================================================
