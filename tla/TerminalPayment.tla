-------------------------- MODULE TerminalPayment ---------------------------
(***************************************************************************)
(* One card payment at the terminal: routes/payments.js, models/Payment.js *)
(* and the tap-to-pay cases of routes/webhooks.js.                         *)
(*                                                                         *)
(* The status of the document follows Stripe only through POST /confirm,   *)
(* POST /refund and the event payment_intent.canceled: the cases for       *)
(* payment_intent.succeeded, .payment_failed and charge.refunded further   *)
(* down in the switch of webhooks.js repeat labels of earlier cases, which *)
(* know appointments and orders only, and are never reached.               *)
(*                                                                         *)
(* mongoose writes the fields a request changed, as compared to its own    *)
(* copy; refunds.push becomes an atomic $push.                             *)
(***************************************************************************)
EXTENDS Integers

CONSTANTS
  Cashiers,    \* requests the server works on
  Total,       \* the amount of the payment
  MaxRefunds   \* bound on the refunds

ASSUME TerminalAssumption == Total \in Nat \ {0} /\ MaxRefunds \in Nat

VARIABLES
  intent,      \* Stripe: state of the PaymentIntent
  refunded,    \* Stripe: how many refunds it has made, and their sum
  payment,     \* the document
  cashier,     \* request -> where it waits and what it has read
  unrecorded,  \* history: a request ended between refund and save
  overwritten    \* history: a status was written over one that another refund is in

terminalVars == <<intent, refunded, payment, cashier, unrecorded, overwritten>>

IntentStates == {"none", "open", "held", "succeeded", "canceled"}

PaymentStatuses == {"none", "pending", "processing", "succeeded", "failed", "canceled",
                    "refunded", "partially_refunded"}

RefundIds == 1..MaxRefunds

\* back: the sum of the refunds.
PaymentDocs == [status : PaymentStatuses, refunds : SUBSET RefundIds, back : Nat]

CashierSteps == {"idle", "create", "retrieve", "confirm", "refund", "record", "cancel"}

CashierStates == [ step : CashierSteps, copy : PaymentDocs, seen : IntentStates,
                   amount : 0..Total, id : 0..MaxRefunds ]

TerminalTypeOK ==
  /\ intent \in IntentStates
  /\ refunded \in [count : 0..MaxRefunds, sum : 0..Total]
  /\ payment \in PaymentDocs
  /\ cashier \in [Cashiers -> CashierStates]
  /\ unrecorded \in BOOLEAN /\ overwritten \in BOOLEAN

NoPayment == [status |-> "none", refunds |-> {}, back |-> 0]

IdleCashier == [step |-> "idle", copy |-> NoPayment, seen |-> "none", amount |-> 0, id |-> 0]

TerminalInit ==
  /\ intent = "none" /\ refunded = [count |-> 0, sum |-> 0]
  /\ payment = NoPayment
  /\ cashier = [h \in Cashiers |-> IdleCashier]
  /\ unrecorded = FALSE /\ overwritten = FALSE

-----------------------------------------------------------------------------
(* Helpers                                                                 *)

\* getRefundableAmount
Refundable(copy) == Total - copy.back

\* canRefund
CanRefund(copy) == copy.status \in {"succeeded", "partially_refunded"}

CashierEnds(h) == cashier' = [cashier EXCEPT ![h] = IdleCashier]

\* save() with a new status, which is written when it is not the copy's.
NewStatus(h, status) ==
  [payment EXCEPT !.status = IF status = cashier[h].copy.status THEN @ ELSE status]

\* Mutant: the array of refunds is written as a whole.
RefundsOf(h) == cashier[h].copy.refunds \cup {cashier[h].id}

\* refunds.push
PushedTo(h) == payment.refunds \cup {cashier[h].id}

-----------------------------------------------------------------------------
(* Stripe: the card is presented; with manual capture, the default, somebody *)
(* captures the amount later (nothing in the server does).                   *)

PresentCard ==
  /\ intent = "open"
  /\ intent' \in {"held", "succeeded"}
  /\ UNCHANGED <<refunded, payment, cashier, unrecorded, overwritten>>

CaptureIntent ==
  /\ intent = "held"
  /\ intent' = "succeeded"
  /\ UNCHANGED <<refunded, payment, cashier, unrecorded, overwritten>>

CancelIntent ==
  /\ intent \in {"open", "held"}
  /\ intent' = "canceled"
  /\ UNCHANGED <<refunded, payment, cashier, unrecorded, overwritten>>

-----------------------------------------------------------------------------
(* POST /intents                                                           *)

\* The intent is created, or Stripe refuses and a failed payment is saved.
CreateIntent(h) ==
  /\ cashier[h].step = "idle"
  /\ payment.status = "none" /\ intent = "none"
  /\ \/ /\ intent' = "open"
        /\ cashier' = [cashier EXCEPT ![h].step = "create"]
        /\ UNCHANGED payment
     \/ /\ payment' = [payment EXCEPT !.status = "failed"]
        /\ UNCHANGED <<intent, cashier>>
  /\ UNCHANGED <<refunded, unrecorded, overwritten>>

SavePayment(h) ==
  /\ cashier[h].step = "create"
  /\ payment' = [payment EXCEPT !.status = "pending"]
  /\ CashierEnds(h)
  /\ UNCHANGED <<intent, refunded, unrecorded, overwritten>>

-----------------------------------------------------------------------------
(* POST /confirm, and the event payment_intent.canceled                    *)

\* The document is found by its intent, whatever its status is.
ReadToConfirm(h) ==
  /\ cashier[h].step = "idle"
  /\ payment.status # "none" /\ intent # "none"
  /\ cashier' = [cashier EXCEPT ![h].step = "retrieve", ![h].copy = payment]
  /\ UNCHANGED <<intent, refunded, payment, unrecorded, overwritten>>

RetrieveIntent(h) ==
  /\ cashier[h].step = "retrieve"
  /\ cashier' = [cashier EXCEPT ![h].step = "confirm", ![h].seen = intent]
  /\ UNCHANGED <<intent, refunded, payment, unrecorded, overwritten>>

\* Mutant: a held amount counts as paid.
HeldIsPaid(seen) == IF seen \in {"held", "succeeded"} THEN "succeeded" ELSE "processing"

ConfirmedStatus(seen) == IF seen = "succeeded" THEN "succeeded" ELSE "processing"

SaveConfirmed(h) ==
  /\ cashier[h].step = "confirm"
  /\ payment' = NewStatus(h, ConfirmedStatus(cashier[h].seen))
  /\ overwritten' = (overwritten \/ payment.back > 0)
  /\ CashierEnds(h)
  /\ UNCHANGED <<intent, refunded, unrecorded>>

ReadToCancel(h) ==
  /\ cashier[h].step = "idle"
  /\ payment.status # "none" /\ intent = "canceled"
  /\ cashier' = [cashier EXCEPT ![h].step = "cancel", ![h].copy = payment]
  /\ UNCHANGED <<intent, refunded, payment, unrecorded, overwritten>>

SaveCanceled(h) ==
  /\ cashier[h].step = "cancel"
  /\ payment' = NewStatus(h, "canceled")
  /\ overwritten' = (overwritten \/ payment.back > 0)
  /\ CashierEnds(h)
  /\ UNCHANGED <<intent, refunded, unrecorded>>

-----------------------------------------------------------------------------
(* POST /refund                                                            *)

ReadToRefund(h, n) ==
  /\ cashier[h].step = "idle"
  /\ CanRefund(payment)
  /\ n <= Refundable(payment)
  /\ cashier' = [cashier EXCEPT ![h].step = "refund", ![h].copy = payment, ![h].amount = n]
  /\ UNCHANGED <<intent, refunded, payment, unrecorded, overwritten>>

\* Stripe refunds what has not been refunded yet, and refuses more.
RefundIntent(h) ==
  LET n == cashier[h].amount IN
  /\ cashier[h].step = "refund"
  /\ \/ /\ refunded.sum + n <= Total /\ refunded.count < MaxRefunds
        /\ refunded' = [count |-> refunded.count + 1, sum |-> refunded.sum + n]
        /\ cashier' = [cashier EXCEPT ![h].step = "record", ![h].id = refunded.count + 1]
     \/ /\ refunded.sum + n > Total
        /\ CashierEnds(h)
        /\ UNCHANGED refunded
  /\ UNCHANGED <<intent, payment, unrecorded, overwritten>>

\* getTotalRefunded, when the refund has been pushed.
TotalRefunded(h) == cashier[h].copy.back + cashier[h].amount

\* The amount is in getTotalRefunded already when it is added to it.
RefundStatus(h) ==
  IF TotalRefunded(h) + cashier[h].amount >= Total THEN "refunded" ELSE "partially_refunded"

RecordRefund(h) ==
  /\ cashier[h].step = "record"
  /\ payment' = [NewStatus(h, RefundStatus(h)) EXCEPT !.refunds = PushedTo(h),
                                                         !.back = @ + cashier[h].amount]
  /\ overwritten' = (overwritten \/ payment.back # cashier[h].copy.back)
  /\ CashierEnds(h)
  /\ UNCHANGED <<intent, refunded, unrecorded>>

\* The server dies, or an await throws.
CashierFails(h) ==
  /\ cashier[h].step # "idle"
  /\ unrecorded' = (unrecorded \/ cashier[h].step = "record")
  /\ CashierEnds(h)
  /\ UNCHANGED <<intent, refunded, payment, overwritten>>

TerminalNext ==
  \/ PresentCard \/ CaptureIntent \/ CancelIntent
  \/ \E h \in Cashiers :
       \/ CreateIntent(h) \/ SavePayment(h)
       \/ ReadToConfirm(h) \/ RetrieveIntent(h) \/ SaveConfirmed(h)
       \/ ReadToCancel(h) \/ SaveCanceled(h)
       \/ \E n \in 1..Total : ReadToRefund(h, n)
       \/ RefundIntent(h) \/ RecordRefund(h) \/ CashierFails(h)

TerminalSpec == TerminalInit /\ [][TerminalNext]_terminalVars

-----------------------------------------------------------------------------
(* Properties                                                              *)

\* Every refund Stripe has made is in the document or about to be put there,
\* however many requests refund at once, unless one of them died in between.
RefundsAreRecorded ==
  unrecorded \/ 1..refunded.count =
    payment.refunds \cup {cashier[h].id : h \in {g \in Cashiers : cashier[g].step = "record"}}

\* A payment that is called paid or refunded was paid, whatever a late
\* confirmation, a cancellation or a refund wrote in between.
PaidIsCaptured ==
  payment.status \in {"succeeded", "partially_refunded", "refunded"} => intent = "succeeded"

\* The status tells whether money went back, as long as no confirmation or
\* cancellation was saved behind a refund and no refund on a copy from before
\* another one.  "refunded" says no more than that at least half of the amount
\* did: a refund is added to a sum that it is in.
StatusIsExplained ==
  /\ payment.status = "refunded" => 2 * payment.back >= Total
  /\ payment.status = "partially_refunded" => payment.back > 0
  /\ ~overwritten =>
       /\ payment.back > 0 => payment.status \in {"refunded", "partially_refunded"}
       /\ payment.back >= Total => payment.status = "refunded"

\* All: what the document says of the refunds and the capture is so.
PaymentIsRecorded == RefundsAreRecorded /\ PaidIsCaptured /\ StatusIsExplained

\* "refunded" is a full refund (models/Payment.js: "Full refund issued").
RefundStatusSaysSo == payment.status = "refunded" => refunded.sum = Total
=============================================================================
