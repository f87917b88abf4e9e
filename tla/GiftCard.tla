------------------------------ MODULE GiftCard ------------------------------
(***************************************************************************)
(* One gift card: models/GiftCard.js, routes/giftCards.js, the purchase    *)
(* case of routes/webhooks.js and the gift card part of the checkout in    *)
(* routes/checkout.js.                                                     *)
(*                                                                         *)
(* A request handler reads the document, changes its copy and saves it at  *)
(* a later await.  The schema has optimisticConcurrency, so save() writes  *)
(* only if the document still has the version that was read (VersionError  *)
(* otherwise); updateOne() neither checks nor changes the version.  Of the *)
(* version number only this matters: `current` is the set of handlers      *)
(* whose copy has the stored version.                                      *)
(*                                                                         *)
(* PaymentSchema (models/Appointment.js) has no giftCard path, so mongoose *)
(* drops payment.giftCard on every write and the handlers that look for it *)
(* (webhook redemption, release on cancel or expiry) find nothing: a hold  *)
(* ends by its own expiry or by the checkout's own error path only.        *)
(***************************************************************************)
EXTENDS Integers, FiniteSetsExt

CONSTANTS
  Handlers,   \* request handlers that run concurrently
  Appts,      \* appointments whose checkout uses the card
  Amount,     \* the card's amount, in the smallest unit
  HoldTicks   \* holdMinutes (30), in ticks

ASSUME ConstantsAssumption ==
  /\ Amount \in Nat \ {0} /\ HoldTicks \in Nat \ {0}
  /\ IsFiniteSet(Appts) /\ Appts # {}

VARIABLES
  card,      \* the stored document
  stripe,    \* the Stripe checkout session that sells the card (external)
  event,     \* checkout.session.completed or .expired is still to be delivered
  proc,      \* handler -> where it waits and the copy it is going to save
  current,   \* the handlers whose copy has the stored version
  expired,   \* expiryDate has passed
  credited   \* history: what the redeemers were told they redeemed

vars == <<card, stripe, event, proc, current, expired, credited>>

Statuses == {"none", "pending", "sent", "redeemed", "cancelled"}

NoHold == [amount |-> 0, left |-> 0]
Holds == [amount : 0..Amount, left : 0..HoldTicks]

\* pendingRedemptions has at most one entry for an appointment; an entry whose
\* expiresAt has passed counts for nothing and is NoHold here.
Docs == [status : Statuses, redeemed : 0..Amount, holds : [Appts -> Holds]]

NoCard == [status |-> "none", redeemed |-> 0, holds |-> [a \in Appts |-> NoHold]]

Steps == {"idle", "confirm", "webhook", "check", "cancel", "redeem", "reserve", "reread",
          "reserve again", "stripe", "release", "unhold"}

Idle == [step |-> "idle", doc |-> NoCard, appt |-> CHOOSE a \in Appts : TRUE, amount |-> 0]

TypeOK ==
  /\ card \in Docs
  /\ stripe \in {"none", "open", "paid", "expired"}
  /\ event \in BOOLEAN
  /\ proc \in [Handlers -> [step : Steps, doc : Docs, appt : Appts, amount : 0..Amount]]
  /\ current \in SUBSET Handlers
  /\ expired \in BOOLEAN
  /\ credited \in 0..Amount

Init ==
  /\ card = NoCard
  /\ stripe = "none"
  /\ event = FALSE
  /\ proc = [h \in Handlers |-> Idle]
  /\ current = {}
  /\ expired = FALSE
  /\ credited = 0

-----------------------------------------------------------------------------
(* The model's methods, on a copy of the document                          *)

HeldAmount(d) == MapThenSumSet(LAMBDA a : d.holds[a].amount, Appts)

\* Mutant: the redemptions of the past are not subtracted.
UnreducedBalance(d) ==
  LET left == Amount - HeldAmount(d) IN IF left > 0 THEN left ELSE 0

RemainingBalance(d) ==
  LET left == Amount - d.redeemed - HeldAmount(d) IN IF left > 0 THEN left ELSE 0

IsValid(d) == d.status = "sent" /\ ~expired /\ d.redeemed < Amount

\* redeem(): the amount is added; a used-up card becomes "redeemed".
Redeemed(d, n) ==
  [d EXCEPT !.redeemed = @ + n,
            !.status = IF d.redeemed + n >= Amount THEN "redeemed" ELSE @]

\* Mutant: the new entry replaces the whole array, not the appointment's own entry.
ReservedAlone(d, a, n) ==
  [d EXCEPT !.holds = [b \in Appts |-> IF b = a THEN [amount |-> n, left |-> HoldTicks]
                                               ELSE NoHold]]

\* reserveForAppointment(): the appointment's own entry, if any, is replaced.
Reserved(d, a, n) == [d EXCEPT !.holds[a] = [amount |-> n, left |-> HoldTicks]]

\* releaseReservation()
Released(d, a) == [d EXCEPT !.holds[a] = NoHold]

-----------------------------------------------------------------------------
(* How a handler reads, saves and ends                                     *)

At(h, step) == proc[h].step = step

\* findOne/findById, and the copy changed without an await in between.
Fetch(h, step, doc, a, n) ==
  /\ proc' = [proc EXCEPT ![h] = [step |-> step, doc |-> doc, appt |-> a, amount |-> n]]
  /\ current' = current \cup {h}

End(h) ==
  /\ proc' = [proc EXCEPT ![h] = Idle]
  /\ current' = current \ {h}

\* Mutant: a schema without optimisticConcurrency, save() always writes.
SaveAnyway(h) == card' = proc[h].doc /\ current' = {}

\* save() of h's copy; every other copy is out of date from then on.
Save(h) == h \in current /\ card' = proc[h].doc /\ current' = {}

VersionError(h) == h \notin current /\ UNCHANGED card

NoAppt == Idle.appt

-----------------------------------------------------------------------------
(* Buying a card                                                           *)

\* POST /create-session up to the request to Stripe.
CreatePending ==
  /\ card.status = "none"
  /\ card' = [card EXCEPT !.status = "pending"]
  /\ UNCHANGED <<stripe, event, proc, current, expired, credited>>

\* Stripe has created the session; its id is saved and its url returned.
SessionCreated ==
  /\ card.status = "pending" /\ stripe = "none"
  /\ stripe' = "open"
  /\ UNCHANGED <<card, event, proc, current, expired, credited>>

\* Stripe has refused: updateOne({status: pending}, cancelled).
SessionRefused ==
  /\ card.status = "pending" /\ stripe = "none"
  /\ card' = [card EXCEPT !.status = "cancelled"]
  /\ UNCHANGED <<stripe, event, proc, current, expired, credited>>

\* POST /: a card issued at once.
CreateSent ==
  /\ card.status = "none"
  /\ card' = [card EXCEPT !.status = "sent"]
  /\ UNCHANGED <<stripe, event, proc, current, expired, credited>>

\* The buyer pays; Stripe owes a checkout.session.completed event.
Pay ==
  /\ stripe = "open"
  /\ stripe' = "paid" /\ event' = TRUE
  /\ UNCHANGED <<card, proc, current, expired, credited>>

\* The session's 24 hours are over; Stripe owes a checkout.session.expired event.
SessionExpires ==
  /\ stripe = "open"
  /\ stripe' = "expired" /\ event' = TRUE
  /\ UNCHANGED <<card, proc, current, expired, credited>>

\* The paid card's document is read and, unless it is finalised already, a copy
\* with status "sent" is going to be saved: from "cancelled" as from "pending".
Finalise(h, step) ==
  /\ At(h, "idle")
  /\ card.status \notin {"sent", "redeemed"}
  /\ Fetch(h, step, [card EXCEPT !.status = "sent"], NoAppt, 0)

\* GET /confirm, from the success page: Stripe says the session is paid.
Confirm(h) ==
  /\ stripe = "paid"
  /\ Finalise(h, "confirm")
  /\ UNCHANGED <<card, stripe, event, expired, credited>>

\* A VersionError is answered with 500.
ConfirmSave(h) ==
  /\ At(h, "confirm")
  /\ \/ Save(h) /\ proc' = [proc EXCEPT ![h] = Idle]
     \/ VersionError(h) /\ End(h)
  /\ UNCHANGED <<stripe, event, expired, credited>>

\* checkout.session.completed: Stripe delivers the event until it gets an
\* answer, and perhaps again.
Webhook(h) ==
  /\ event /\ stripe = "paid"
  /\ \/ Finalise(h, "webhook") /\ UNCHANGED event
     \/ /\ At(h, "idle") /\ card.status \in {"sent", "redeemed"}
        /\ event' = FALSE
        /\ UNCHANGED <<proc, current>>
  /\ UNCHANGED <<card, stripe, expired, credited>>

\* checkout.session.expired: only a pending card is cancelled.
WebhookExpired(h) ==
  /\ event /\ stripe = "expired"
  /\ At(h, "idle")
  /\ \/ /\ card.status = "pending"
        /\ Fetch(h, "webhook", [card EXCEPT !.status = "cancelled"], NoAppt, 0)
        /\ UNCHANGED event
     \/ /\ card.status # "pending"
        /\ event' = FALSE
        /\ UNCHANGED <<proc, current>>
  /\ UNCHANGED <<card, stripe, expired, credited>>

\* A VersionError is logged; the answer is 200 all the same.
WebhookSave(h) ==
  /\ At(h, "webhook")
  /\ event' \in {event, FALSE}
  /\ \/ Save(h) /\ proc' = [proc EXCEPT ![h] = Idle]
     \/ VersionError(h) /\ End(h)
  /\ UNCHANGED <<stripe, expired, credited>>

\* POST /cancel: findById.  (For a card that is cancelled already nothing is
\* changed, so save() writes nothing.)
CancelRead(h) ==
  /\ At(h, "idle")
  /\ stripe # "none"
  /\ card.status = "pending"
  /\ Fetch(h, "check", [card EXCEPT !.status = "cancelled"], NoAppt, 0)
  /\ UNCHANGED <<card, stripe, event, expired, credited>>

\* sessions.retrieve: a paid session is answered with 409.
CancelCheck(h) ==
  /\ At(h, "check")
  /\ \/ stripe = "paid" /\ End(h)
     \/ /\ stripe # "paid"
        /\ proc' = [proc EXCEPT ![h].step = "cancel"]
        /\ UNCHANGED current
  /\ UNCHANGED <<card, stripe, event, expired, credited>>

CancelSave(h) ==
  /\ At(h, "cancel")
  /\ \/ Save(h) /\ proc' = [proc EXCEPT ![h] = Idle]
     \/ VersionError(h) /\ End(h)
  /\ UNCHANGED <<stripe, event, expired, credited>>

-----------------------------------------------------------------------------
(* Spending a card                                                         *)

\* PATCH /:code/redeem: findOne, isValid, redeem().
RedeemRead(h, n) ==
  /\ At(h, "idle")
  /\ IsValid(card)
  /\ n <= RemainingBalance(card)
  /\ Fetch(h, "redeem", Redeemed(card, n), NoAppt, n)
  /\ UNCHANGED <<card, stripe, event, expired, credited>>

RedeemSave(h) ==
  /\ At(h, "redeem")
  /\ \/ /\ Save(h)
        /\ proc' = [proc EXCEPT ![h] = Idle]
        /\ credited' = credited + proc[h].amount
     \/ VersionError(h) /\ End(h) /\ UNCHANGED credited
  /\ UNCHANGED <<stripe, event, expired>>

\* POST /checkout/create-session with a gift card: findOne, isValid, and a
\* hold of what the card can pay of the price.
ReserveRead(h, a, price) ==
  LET toApply == IF price < RemainingBalance(card) THEN price ELSE RemainingBalance(card) IN
  /\ At(h, "idle")
  /\ IsValid(card)
  /\ toApply > 0
  /\ Fetch(h, "reserve", Reserved(card, a, toApply), a, toApply)
  /\ UNCHANGED <<card, stripe, event, expired, credited>>

\* The first VersionError leads to a second attempt, the second one to 409.
ReserveSave(h) ==
  /\ At(h, "reserve") \/ At(h, "reserve again")
  /\ \/ Save(h) /\ proc' = [proc EXCEPT ![h].step = "stripe", ![h].doc = NoCard]
     \/ /\ VersionError(h)
        /\ IF At(h, "reserve")
             THEN proc' = [proc EXCEPT ![h].step = "reread", ![h].doc = NoCard]
                  /\ UNCHANGED current
             ELSE End(h)
  /\ UNCHANGED <<stripe, event, expired, credited>>

\* Mutant: the second attempt trusts the balance of the first.
RereadUnchecked(h) ==
  LET p == proc[h] IN
  /\ At(h, "reread")
  /\ Fetch(h, "reserve again", Reserved(card, p.appt, p.amount), p.appt, p.amount)
  /\ UNCHANGED <<card, stripe, event, expired, credited>>

\* findById; the amount stays, the balance is looked at again, isValid is not.
ReserveReread(h) ==
  LET p == proc[h] IN
  /\ At(h, "reread")
  /\ \/ /\ p.amount <= RemainingBalance(card)
        /\ Fetch(h, "reserve again", Reserved(card, p.appt, p.amount), p.appt, p.amount)
     \/ p.amount > RemainingBalance(card) /\ End(h)
  /\ UNCHANGED <<card, stripe, event, expired, credited>>

\* The rest of create-session succeeds, or returns early ("Invalid amount"):
\* the hold stays either way.  Only an exception goes on to release it.
CheckoutSession(h) ==
  /\ At(h, "stripe")
  /\ \/ End(h)
     \/ proc' = [proc EXCEPT ![h].step = "release"] /\ UNCHANGED current
  /\ UNCHANGED <<card, stripe, event, expired, credited>>

ReleaseRead(h) ==
  /\ At(h, "release")
  /\ Fetch(h, "unhold", Released(card, proc[h].appt), proc[h].appt, 0)
  /\ UNCHANGED <<card, stripe, event, expired, credited>>

\* A VersionError is logged; the hold stays until it expires.
ReleaseSave(h) ==
  /\ At(h, "unhold")
  /\ \/ Save(h) /\ proc' = [proc EXCEPT ![h] = Idle]
     \/ VersionError(h) /\ End(h)
  /\ UNCHANGED <<stripe, event, expired, credited>>

-----------------------------------------------------------------------------
(* Crashes and time                                                        *)

HandlerCrash(h) ==
  /\ ~At(h, "idle")
  /\ End(h)
  /\ UNCHANGED <<card, stripe, event, expired, credited>>

\* Mutant: an entry whose time is up goes on counting.
AgedNeverOut(d) ==
  [d EXCEPT !.holds = [a \in Appts |->
     IF d.holds[a].left > 1 THEN [d.holds[a] EXCEPT !.left = @ - 1] ELSE d.holds[a]]]

Aged(d) ==
  [d EXCEPT !.holds = [a \in Appts |->
     IF d.holds[a].left > 1 THEN [d.holds[a] EXCEPT !.left = @ - 1] ELSE NoHold]]

\* expiresAt is a time: it comes nearer in the document and in every copy.
Tick ==
  /\ \E d \in {card} \cup {proc[h].doc : h \in Handlers}, a \in Appts : d.holds[a] # NoHold
  /\ card' = Aged(card)
  /\ proc' = [h \in Handlers |-> [proc[h] EXCEPT !.doc = Aged(@)]]
  /\ UNCHANGED <<stripe, event, current, expired, credited>>

\* The card's year is over.
Expire ==
  /\ ~expired /\ card.status = "sent"
  /\ expired' = TRUE
  /\ UNCHANGED <<card, stripe, event, proc, current, credited>>

Buy(h) ==
  \/ Confirm(h) \/ ConfirmSave(h) \/ Webhook(h) \/ WebhookExpired(h) \/ WebhookSave(h)
  \/ CancelRead(h) \/ CancelCheck(h) \/ CancelSave(h)

Spend(h) ==
  \/ \E n \in 1..Amount : RedeemRead(h, n)
  \/ RedeemSave(h)
  \/ \E a \in Appts, price \in 1..Amount : ReserveRead(h, a, price)
  \/ ReserveSave(h) \/ ReserveReread(h) \/ CheckoutSession(h)
  \/ ReleaseRead(h) \/ ReleaseSave(h)

Next ==
  \/ CreatePending \/ SessionCreated \/ SessionRefused \/ CreateSent \/ Pay \/ SessionExpires
  \/ Tick \/ Expire
  \/ \E h \in Handlers : Buy(h) \/ Spend(h) \/ HandlerCrash(h)

\* No request is assumed to come or to end; time does not stop.
Spec == Init /\ [][Next]_vars /\ WF_vars(Tick)

-----------------------------------------------------------------------------
(* Properties                                                              *)

\* What is redeemed and what live holds promise to checkouts never exceeds the
\* card, whatever redemptions, reservations, retries, releases and expiries
\* run at the same time on copies of the document.
NeverOverdrawn == card.redeemed + HeldAmount(card) <= Amount

\* Every redemption that was answered with success is on the card, and nothing
\* else is, and the status says "redeemed" exactly when the amount is used up:
\* no save of an older copy loses or repeats one, or puts back a status (isValid
\* looks at both).
RedeemedIsCredited ==
  /\ card.redeemed = credited
  /\ card.status = "redeemed" <=> card.redeemed >= Amount

\* A card that has been sent can be spent until it is used up: neither the
\* buyer's late POST /cancel nor a repeated finalisation takes it back.
SentStaysSpendable ==
  [][card.status = "sent" => card'.status \in {"sent", "redeemed"}]_vars

\* A live hold changes only with time or by a checkout of its own appointment:
\* nobody's redemption, reservation or release rewrites another one's hold with
\* the array it read earlier.
HoldStands ==
  [][\A a \in Appts :
       card.holds[a] # NoHold /\ card'.holds[a] # card.holds[a] =>
         \/ card' = Aged(card)
         \/ \E h \in Handlers : proc[h].appt = a /\ h \in current
                                /\ proc[h].step \in {"reserve", "reserve again", "unhold"}]_vars

\* No handler works on a checkout of the appointment.
Unattended(a) ==
  \A h \in Handlers :
    proc[h].step \in {"reserve", "reread", "reserve again", "stripe", "release", "unhold"}
      => proc[h].appt # a

\* A hold that its checkout left behind (a crash, a lost release, the early
\* return on "Invalid amount") gives the money back by itself.
AbandonedHoldLapses ==
  \A a \in Appts :
    card.holds[a] # NoHold /\ Unattended(a) ~> card.holds[a] = NoHold \/ ~Unattended(a)

\* A card is not left cancelled when its session has been paid for and Stripe's
\* event has been answered (POST /cancel is for a buyer who "abandons Stripe
\* checkout"; it asks Stripe first).
PaidCardNotCancelled ==
  stripe = "paid" /\ ~event /\ (\A h \in Handlers : At(h, "idle"))
    => card.status # "cancelled"
=============================================================================
