----------------------------- MODULE ShopOrder -----------------------------
(***************************************************************************)
(* One order of the shop and the product it is for: routes/orders.js and   *)
(* the order parts of routes/webhooks.js.                                  *)
(*                                                                         *)
(* New orders cannot be stored: Order requires tenantId, which neither     *)
(* route sets before validation.  The orders the handlers work on are      *)
(* those scripts/migrate-to-multitenant.js took over, so a behaviour       *)
(* starts with one of them, in any state the shop had left it.             *)
(*                                                                         *)
(* save() writes the paths the handler has changed in its copy, whatever   *)
(* the document holds by then, and fails if the document is gone.          *)
(***************************************************************************)
EXTENDS Integers

CONSTANTS
  Keepers,    \* requests that run concurrently
  MaxStock    \* bound: the product's stock

ASSUME ShopAssumption == MaxStock \in Nat \ {0}

VARIABLES
  order,         \* the stored order
  stock,         \* the product's stock
  orderPayment,  \* the payment at Stripe (external)
  keeper,        \* request -> its step and what it is going to write
  deducted       \* history: refunds taken from the specialist's earnings, up to 2

shopVars == <<order, stock, orderPayment, keeper, deducted>>

\* intent: stripePaymentIntentId names a payment intent; until GET
\* /confirm-checkout it is empty or the checkout session's id.  owed: the one
\* Connect payment is "succeeded".
OrderDocs == [
  status : {"pending", "processing", "shipped", "cancelled", "refunded", "deleted"},
  paid : {"pending", "paid", "failed", "refunded"},
  full : BOOLEAN, intent : BOOLEAN, owed : BOOLEAN]

KeeperSteps == {"idle", "confirm", "take", "refund", "refunded", "save refund", "cancel",
                "restore", "restore and delete", "taken", "put back", "put back and delete"}

\* What a handler will write: changed are the paths it sets to another value
\* than its copy has; intent and owed are the copy's, stock the product's.
KeeperStates == [step : KeeperSteps, changed : SUBSET DOMAIN order, intent : BOOLEAN,
                 owed : BOOLEAN, stock : 0..MaxStock]

\* Type invariant.
ShopTypeOK ==
  /\ order \in OrderDocs /\ stock \in 0..MaxStock
  /\ orderPayment \in {"none", "open", "paid", "refunded"}
  /\ keeper \in [Keepers -> KeeperStates]
  /\ deducted \in 0..2

Migrated(status, paid, confirmed) ==
  [status |-> status, paid |-> paid, full |-> FALSE, intent |-> confirmed, owed |-> confirmed]

IdleKeeper == [step |-> "idle", changed |-> {}, intent |-> FALSE, owed |-> FALSE, stock |-> 0]

\* By POST /, by POST /checkout and not yet paid, paid by the webhook alone,
\* confirmed.
ShopInit ==
  /\ \/ order = Migrated("pending", "pending", FALSE) /\ orderPayment \in {"none", "open"}
     \/ order = Migrated("pending", "paid", FALSE) /\ orderPayment = "paid"
     \/ order = Migrated("processing", "paid", TRUE) /\ orderPayment = "paid"
  /\ stock = 1
  /\ keeper = [h \in Keepers |-> IdleKeeper]
  /\ deducted = 0

-----------------------------------------------------------------------------

Stored == order.status # "deleted"

KeeperGoes(h, step) == keeper' = [keeper EXCEPT ![h].step = step]

KeeperEnds(h) == keeper' = [keeper EXCEPT ![h] = IdleKeeper]

\* findById, for a handler that is going to change the order to d.
ReadOrder(h, d, step) ==
  /\ keeper[h].step = "idle" /\ Stored
  /\ keeper' = [keeper EXCEPT ![h] =
       [step |-> step, changed |-> {f \in DOMAIN order : d[f] # order[f]},
        intent |-> order.intent, owed |-> order.owed, stock |-> 0]]
  /\ UNCHANGED <<order, stock, orderPayment, deducted>>

\* save(): the changed paths get d's values.
SaveOrder(h, d, step) ==
  IF Stored
  THEN /\ order' = [f \in DOMAIN order |-> IF f \in keeper[h].changed THEN d[f] ELSE order[f]]
       /\ keeper' = [keeper EXCEPT ![h] = [IdleKeeper EXCEPT !.step = step]]
  ELSE UNCHANGED order /\ KeeperEnds(h)

ConfirmedOrder(d) ==
  [d EXCEPT !.paid = "paid", !.status = "processing", !.intent = TRUE, !.owed = FALSE]
CancelledOrder(d) == [d EXCEPT !.status = "cancelled"]
RefundedOrder(d) ==
  [d EXCEPT !.paid = "refunded", !.status = "refunded", !.full = TRUE, !.owed = FALSE]

-----------------------------------------------------------------------------
(* Payment                                                                 *)

\* The buyer pays (external).
BuyerPays ==
  /\ orderPayment = "open" /\ orderPayment' = "paid"
  /\ UNCHANGED <<order, stock, keeper, deducted>>

\* checkout.session.completed and payment_intent.succeeded, delivered at least
\* once; the former sets `status`, which is no path of the schema.
PaidEvent ==
  /\ orderPayment \in {"paid", "refunded"} /\ Stored
  /\ order' = [order EXCEPT !.paid = "paid"]
  /\ UNCHANGED <<stock, orderPayment, keeper, deducted>>

\* payment_intent.payment_failed, for an attempt before the one that succeeds.
FailedEvent ==
  /\ orderPayment # "none" /\ Stored
  /\ order' = [order EXCEPT !.paid = "failed"]
  /\ UNCHANGED <<stock, orderPayment, keeper, deducted>>

\* charge.refunded.
RefundedEvent ==
  /\ orderPayment = "refunded" /\ Stored
  /\ order' = [order EXCEPT !.paid = "refunded", !.full = TRUE]
  /\ UNCHANGED <<stock, orderPayment, keeper, deducted>>

\* GET /confirm-checkout, as often as the page is loaded: the order...
ReadOrderToConfirm(h) == ReadOrder(h, ConfirmedOrder(order), "confirm")

\* ...is paid, once Stripe has said so.  Specialist.stripeAccountId is asked
\* of the model, not of the specialist, so that every share fails.
ConfirmOrder(h) ==
  /\ keeper[h].step = "confirm"
  /\ IF orderPayment \in {"paid", "refunded"}
     THEN SaveOrder(h, ConfirmedOrder(order), "take")
     ELSE KeeperEnds(h) /\ UNCHANGED order
  /\ UNCHANGED <<stock, orderPayment, deducted>>

\* The product is read...
ReadStock(h) ==
  /\ \/ keeper[h].step = "take"
        /\ keeper' = [keeper EXCEPT ![h].step = "taken", ![h].stock = stock]
     \/ keeper[h].step = "restore"
        /\ keeper' = [keeper EXCEPT ![h].step = "put back", ![h].stock = stock]
     \/ keeper[h].step = "restore and delete"
        /\ keeper' = [keeper EXCEPT ![h].step = "put back and delete", ![h].stock = stock]
  /\ UNCHANGED <<order, stock, orderPayment, deducted>>

\* Mutant: the schema has no minimum for the stock.
TakeStockAnyway(h) ==
  /\ keeper[h].step = "taken"
  /\ stock' = keeper[h].stock - 1
  /\ KeeperEnds(h)
  /\ UNCHANGED <<order, orderPayment, deducted>>

\* ...and saved with the quantity less: below 0 only validation refuses it.
TakeStock(h) ==
  /\ keeper[h].step = "taken"
  /\ stock' = IF keeper[h].stock > 0 THEN keeper[h].stock - 1 ELSE stock
  /\ KeeperEnds(h)
  /\ UNCHANGED <<order, orderPayment, deducted>>

\* Or with the quantity more.
PutBack(h) ==
  /\ keeper[h].step = "put back" /\ keeper[h].stock < MaxStock
  /\ stock' = keeper[h].stock + 1
  /\ KeeperEnds(h)
  /\ UNCHANGED <<order, orderPayment, deducted>>

-----------------------------------------------------------------------------
(* The admin's routes                                                      *)

\* PATCH /:id: any status, any payment status, and nothing else.
PatchOrder ==
  /\ Stored
  /\ \/ \E s \in {"pending", "processing", "shipped", "cancelled", "refunded"} :
          order' = [order EXCEPT !.status = s]
     \/ \E p \in {"pending", "paid", "failed", "refunded"} : order' = [order EXCEPT !.paid = p]
  /\ UNCHANGED <<stock, orderPayment, keeper, deducted>>

\* POST /:id/cancel, of a pending or processing order; then the stock.
ReadOrderToCancel(h) == order.status \in {"pending", "processing"} /\ ReadOrder(h, CancelledOrder(order), "cancel")

CancelOrder(h) ==
  /\ keeper[h].step = "cancel"
  /\ SaveOrder(h, CancelledOrder(order), "restore")
  /\ UNCHANGED <<stock, orderPayment, deducted>>

\* POST /:id/refund, of a paid order that is not marked refunded.
ReadOrderToRefund(h) ==
  order.paid = "paid" /\ ~order.full /\ ReadOrder(h, RefundedOrder(order), "refund")

\* Mutant: a refund Stripe refuses is taken for one made before.
RefundAssumed(h) ==
  /\ keeper[h].step = "refund"
  /\ orderPayment' = IF orderPayment = "paid" /\ keeper[h].intent THEN "refunded" ELSE orderPayment
  /\ KeeperGoes(h, "refunded")
  /\ UNCHANGED <<order, stock, deducted>>

\* Stripe refunds the payment intent, if there is one and only once.
RefundAtStripe(h) ==
  /\ keeper[h].step = "refund"
  /\ IF orderPayment = "paid" /\ keeper[h].intent
     THEN orderPayment' = "refunded" /\ KeeperGoes(h, "refunded")
     ELSE UNCHANGED orderPayment /\ KeeperEnds(h)
  /\ UNCHANGED <<order, stock, deducted>>

\* The specialist's share is taken back if the copy has it as paid out.
DeductShare(h) ==
  /\ keeper[h].step = "refunded"
  /\ deducted' = IF keeper[h].owed /\ deducted < 2 THEN deducted + 1 ELSE deducted
  /\ KeeperGoes(h, "save refund")
  /\ UNCHANGED <<order, stock, orderPayment>>

\* The order is marked; then the stock.
SaveRefund(h) ==
  /\ keeper[h].step = "save refund"
  /\ SaveOrder(h, RefundedOrder(order), "restore")
  /\ UNCHANGED <<stock, orderPayment, deducted>>

\* DELETE /:id (the first of the two routes of that path): the stock goes back
\* unless the order is cancelled or refunded.
ReadToDelete(h) ==
  /\ order.status \notin {"cancelled", "refunded"}
  /\ ReadOrder(h, order, "restore and delete")

RestoreAndDelete(h) ==
  /\ keeper[h].step = "put back and delete" /\ keeper[h].stock < MaxStock
  /\ stock' = keeper[h].stock + 1
  /\ order' = [order EXCEPT !.status = "deleted"]
  /\ KeeperEnds(h)
  /\ UNCHANGED <<orderPayment, deducted>>

DeleteOnly ==
  /\ order.status \in {"cancelled", "refunded"}
  /\ order' = [order EXCEPT !.status = "deleted"]
  /\ UNCHANGED <<stock, orderPayment, keeper, deducted>>

\* The process stops, or an answer does not come.
ClerkStops(h) ==
  /\ keeper[h].step # "idle"
  /\ KeeperEnds(h)
  /\ UNCHANGED <<order, stock, orderPayment, deducted>>

-----------------------------------------------------------------------------

ShopNext ==
  \/ BuyerPays \/ PaidEvent \/ FailedEvent \/ RefundedEvent \/ PatchOrder \/ DeleteOnly
  \/ \E h \in Keepers :
       \/ ReadOrderToConfirm(h) \/ ConfirmOrder(h) \/ ReadStock(h) \/ TakeStock(h) \/ PutBack(h)
       \/ ReadOrderToCancel(h) \/ CancelOrder(h)
       \/ ReadOrderToRefund(h) \/ RefundAtStripe(h) \/ DeductShare(h) \/ SaveRefund(h)
       \/ ReadToDelete(h) \/ RestoreAndDelete(h) \/ ClerkStops(h)

ShopSpec == ShopInit /\ [][ShopNext]_shopVars

-----------------------------------------------------------------------------
(* Properties                                                              *)

\* However often and however concurrently an order is refunded, patched and
\* confirmed again, its specialist's earnings are reduced once at most, and
\* only for money that went back to the buyer.
SellerPaysOnce == deducted <= 1 /\ (deducted = 1 => orderPayment = "refunded")
=============================================================================
