---------------------------- MODULE Cancellation ----------------------------
(***************************************************************************)
(* The cancellation of one appointment that was paid through Stripe:       *)
(* POST /appointments/:id/cancel with payments/stripe.js, the cancellation *)
(* by the user in routes/users.js, and the writes of webhooks and staff    *)
(* that come in between.                                                   *)
(*                                                                         *)
(* The refund is asked for before the appointment is written, under the    *)
(* idempotency key cancel:<id>:<updatedAt as it was read>.  updatedAt is   *)
(* counted in writes here: `version`.  The outcome (no refund, a part, all *)
(* of the base amount) depends on the clock and on the policy, which staff *)
(* may edit: it is chosen anew by every request (see CancellationOutcome). *)
(* payment.status, fees and e-mails are left out.                          *)
(***************************************************************************)
EXTENDS Integers, FiniteSetsExt

CONSTANTS
  Cancellers,  \* requests the server works on
  Charge,      \* the refundable amount
  MaxVersion   \* bound on the writes of the document

ASSUME CancellationAssumption == Charge \in Nat \ {0} /\ MaxVersion \in Nat

VARIABLES
  doc,      \* the appointment
  refunds,  \* Stripe: the refunds of its payment, with their keys
  req,      \* request -> where it waits, what it has read and decided
  touched,  \* history: versions that another write than POST /cancel made
  looked,   \* history: versions that its look-up of the payment made
  claimed   \* history: the present status was set without asking Stripe

cancellationVars == <<doc, refunds, req, touched, looked, claimed>>

Cancelled == {"cancelled_no_refund", "cancelled_partial_refund", "cancelled_full_refund"}
ApptStatuses == {"reserved_unpaid", "confirmed", "no_show"} \cup Cancelled

ApptDocs == [ status     : ApptStatuses,
              version    : 0..MaxVersion,
              referenced : BOOLEAN,  \* payment.stripe has an intent or charge id
              refundIds  : SUBSET (0..MaxVersion) ]  \* refunds, named by their keys

CancelSteps == {"idle", "lookup", "refund", "write", "user"}

Requests == [ step : CancelSteps, seen : ApptDocs, amount : 0..Charge ]

CancellationTypeOK ==
  /\ doc \in ApptDocs
  /\ refunds \in SUBSET [key : 0..MaxVersion, amount : 1..Charge]
  /\ req \in [Cancellers -> Requests]
  /\ {touched, looked} \subseteq SUBSET (1..MaxVersion)
  /\ claimed \in BOOLEAN

NewAppt(status, referenced) ==
  [status |-> status, version |-> 0, referenced |-> referenced, refundIds |-> {}]

NoRequest == [step |-> "idle", seen |-> NewAppt("confirmed", TRUE), amount |-> 0]

CancellationInit ==
  /\ doc \in {NewAppt(s, b) : s \in {"reserved_unpaid", "confirmed"}, b \in BOOLEAN}
  /\ refunds = {}
  /\ req = [h \in Cancellers |-> NoRequest]
  /\ touched = {} /\ looked = {}
  /\ claimed = FALSE

-----------------------------------------------------------------------------
(* Helpers                                                                 *)

Await(h, step) == req' = [req EXCEPT ![h].step = step]

Answer(h) == req' = [req EXCEPT ![h] = NoRequest]

\* mongoose sets updatedAt with every update that changes something.
Written(d) == d.version < MaxVersion /\ doc' = [d EXCEPT !.version = @ + 1]

\* A write of the document by anything else than POST /cancel.
Touched(d) ==
  Written(d) /\ touched' = touched \cup {doc.version + 1} /\ UNCHANGED looked

\* Mutant: the key is made from the time of the refund.
KeyNow(h) == doc.version

\* `cancel:${id}:${updatedAt}`, of the copy that was read.
IdempotencyKey(h) == req[h].seen.version

RefundedTotal == MapThenSumSet(LAMBDA r : r.amount, refunds)

\* Mutant: the policy's outcome without the prefix of the statuses.
BareOutcome(n) ==
  CASE n = 0 -> "no_refund" [] n = Charge -> "full_refund" [] OTHER -> "partial_refund"

OutcomeStatus(n) ==
  CASE n = 0 -> "cancelled_no_refund"
    [] n = Charge -> "cancelled_full_refund"
    [] OTHER -> "cancelled_partial_refund"

-----------------------------------------------------------------------------
(* POST /appointments/:id/cancel                                           *)

\* findById, the policy, and computeCancellationOutcome.  A cancelled one ends
\* the request, an unpaid one needs no refund; a no_show is refunded.
CancelRequest(h, n) ==
  /\ req[h].step = "idle"
  /\ doc.status \notin Cancelled
  /\ doc.status = "reserved_unpaid" => n = 0
  /\ req' = [req EXCEPT ![h] =
       [step |-> IF n = 0 THEN "write" ELSE IF doc.referenced THEN "refund" ELSE "lookup",
        seen |-> doc, amount |-> n]]
  /\ UNCHANGED <<doc, refunds, touched, looked, claimed>>

\* The payment's reference is fetched through its checkout session and stored:
\* a write of its own, after which updatedAt is not the one that was read.
LookupReference(h) ==
  /\ req[h].step = "lookup"
  /\ Written([doc EXCEPT !.referenced = TRUE])
  /\ looked' = looked \cup {doc.version + 1}
  /\ Await(h, "refund")
  /\ UNCHANGED <<refunds, touched, claimed>>

\* Mutant: a failed refund does not stop the cancellation.
RefundFailureIgnored(h) ==
  /\ req[h].step = "refund"
  /\ Await(h, "write")
  /\ UNCHANGED <<doc, refunds, touched, looked, claimed>>

\* Stripe executes a key once: it repeats its answer to the same request and
\* refuses another amount.  A new key refunds what has not been refunded yet.
\* An error of Stripe's is answered with 502.
AskRefund(h) ==
  LET key  == IdempotencyKey(h)
      n    == req[h].amount
      used == {r \in refunds : r.key = key}
  IN
  /\ req[h].step = "refund"
  /\ \/ /\ used = {} /\ RefundedTotal + n <= Charge
        /\ refunds' = refunds \cup {[key |-> key, amount |-> n]}
        /\ Await(h, "write")
     \/ /\ [key |-> key, amount |-> n] \in used
        /\ Await(h, "write")
        /\ UNCHANGED refunds
     \/ /\ IF used = {} THEN RefundedTotal + n > Charge
                        ELSE [key |-> key, amount |-> n] \notin used
        /\ Answer(h)
        /\ UNCHANGED refunds
  /\ UNCHANGED <<doc, touched, looked, claimed>>

\* findOneAndUpdate with the statuses in the filter; refundIds is the array
\* that was read with the new refund.
WriteCancelled(h) ==
  LET r == req[h] IN
  /\ r.step = "write"
  /\ \/ /\ doc.status \in {"confirmed", "reserved_unpaid"}
        /\ Written([doc EXCEPT !.status = OutcomeStatus(r.amount),
                               !.refundIds = IF r.amount = 0 THEN @
                                 ELSE r.seen.refundIds \cup {IdempotencyKey(h)}])
        /\ claimed' = FALSE
     \/ /\ doc.status \notin {"confirmed", "reserved_unpaid"}
        /\ UNCHANGED <<doc, claimed>>
  /\ Answer(h)
  /\ UNCHANGED <<refunds, touched, looked>>

\* The server dies or an await throws; a refund may have been made already.
CancelFails(h) ==
  /\ req[h].step # "idle"
  /\ Answer(h)
  /\ UNCHANGED <<doc, refunds, touched, looked, claimed>>

-----------------------------------------------------------------------------
(* The other writers                                                       *)

\* PATCH /users/me/bookings/:id/cancel ...
UserRequest(h) ==
  /\ req[h].step = "idle"
  /\ doc.status \notin Cancelled
  /\ req' = [req EXCEPT ![h].step = "user", ![h].seen = doc]
  /\ UNCHANGED <<doc, refunds, touched, looked, claimed>>

\* ... says "cancelled_full_refund" 24 hours ahead and asks nobody to refund.
UserWrite(h) ==
  /\ req[h].step = "user"
  /\ \E status \in {"cancelled_no_refund", "cancelled_full_refund"} :
       Touched([doc EXCEPT !.status = status]) /\ claimed' = (status # "cancelled_no_refund")
  /\ Answer(h)
  /\ UNCHANGED refunds

\* checkout.session.completed and payment_intent.succeeded, late or repeated.
PaidAgain ==
  /\ Touched([doc EXCEPT !.status = "confirmed", !.referenced = TRUE])
  /\ claimed' = FALSE
  /\ UNCHANGED <<refunds, req>>

\* charge.refunded, PATCH /:id, a reminder: other fields only.
OtherWrite ==
  /\ Touched(doc)
  /\ UNCHANGED <<refunds, req, claimed>>

\* PATCH /:id/status; save() writes nothing when the status is the same.
StaffStatus(status) ==
  /\ status # doc.status
  /\ Touched([doc EXCEPT !.status = status])
  /\ claimed' = (status \in Cancelled \ {"cancelled_no_refund"})
  /\ UNCHANGED <<refunds, req>>

CancellationNext ==
  \/ \E h \in Cancellers :
       \/ \E n \in 0..Charge : CancelRequest(h, n)
       \/ LookupReference(h) \/ AskRefund(h) \/ WriteCancelled(h) \/ CancelFails(h)
       \/ UserRequest(h) \/ UserWrite(h)
  \/ PaidAgain \/ OtherWrite
  \/ \E status \in ApptStatuses : StaffStatus(status)

CancellationSpec == CancellationInit /\ [][CancellationNext]_cancellationVars

-----------------------------------------------------------------------------
(* Properties                                                              *)

\* Between the readings of two requests that both refunded, the document was
\* written by something else than POST /cancel, or by the look-up of the payment
\* in POST /cancel itself.  When the payment's reference is stored from the
\* beginning, a second click, a crash behind the refund and a retry refund once.
SecondRefundNeedsAWrite ==
  \A r, s \in refunds :
    r.key < s.key => \E v \in touched \cup looked : r.key < v /\ v <= s.key

\* An appointment that POST /cancel marked as refunded was refunded, by as much
\* as its status says and its refundIds record, whatever failed or raced.
RefundStatusIsBacked ==
  doc.status \in Cancelled \ {"cancelled_no_refund"} /\ ~claimed =>
    \E r \in refunds :
      r.key \in doc.refundIds /\ (doc.status = "cancelled_full_refund" <=> r.amount = Charge)

\* Both: a second refund has one of two causes, and what the appointment says of
\* its refund is so.
RefundsAreJustified == SecondRefundNeedsAWrite /\ RefundStatusIsBacked

\* "Each cancellation attempt uses same key", "Stripe won't process duplicate",
\* docs/REFUND_POLICY.md:429: while nothing but POST /cancel writes the
\* appointment, it refunds once.
RetriesRefundOnce == touched = {} => \A r, s \in refunds : r = s
=============================================================================
