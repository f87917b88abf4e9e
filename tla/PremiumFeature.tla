--------------------------- MODULE PremiumFeature ---------------------------
(***************************************************************************)
(* The two features a specialist pays for by the month, bookings without a *)
(* fee and messages by SMS: routes/features.js and the three cases         *)
(* customer.subscription.* of routes/webhooks.js.                          *)
(*                                                                         *)
(* Stripe tells of a subscription by events that hold its state as it was. *)
(* They may arrive late, twice and in any order; the handler reads the     *)
(* specialist, works on its copy and saves the fields it changed, and it   *)
(* answers 200 even if it failed, so that an event is then lost.           *)
(* A subscription has status "session" while the checkout page is open;    *)
(* trialing is the same as active here.                                    *)
(***************************************************************************)
EXTENDS Integers, Sequences, FiniteSets

CONSTANTS
  Hooks,      \* requests the server works on
  Subs,       \* subscriptions at Stripe
  NoSub,
  MaxEvents   \* bound on the events

ASSUME PremiumAssumption == NoSub \notin Subs /\ MaxEvents \in Nat /\ IsFiniteSet(Hooks)

VARIABLES
  sub,        \* Stripe: subscription -> its state
  events,     \* Stripe: the events, in the order they happened
  handled,    \* events that were delivered
  customers,  \* Stripe: number of customers made for the specialist
  feature,    \* the specialist: feature -> what is stored of it
  customer,   \* the specialist: its customer, 0 if none
  tenantSms,  \* the tenant: its two flags for SMS
  hook,       \* request -> where it waits and what it has read
  disturbed   \* history: events overtook each other, came twice or were lost

premiumVars == <<sub, events, handled, customers, feature, customer, tenantSms, hook, disturbed>>

Features == {"noFee", "sms"}

SubStates == {"none", "session", "incomplete", "active", "past_due", "canceled"}

StripeSubs == [ status : SubStates, cancelling : BOOLEAN, feature : Features,
                customer : 0..Cardinality(Hooks) ]

Events == [ kind : {"created", "updated", "deleted"}, sub : Subs,
            status : SubStates, cancelling : BOOLEAN ]

StoredFeatures ==
  [ enabled : BOOLEAN, status : SubStates \cup {"inactive"}, sub : Subs \cup {NoSub} ]

HookSteps == {"idle", "customer", "session", "cancel", "flag", "save"}

HookStates == [ step : HookSteps, event : 0..MaxEvents, feature : Features,
                customer : 0..Cardinality(Hooks),
                copy : StoredFeatures, new : StoredFeatures ]

PremiumTypeOK ==
  /\ sub \in [Subs -> StripeSubs]
  /\ events \in Seq(Events) /\ Len(events) <= MaxEvents
  /\ handled \in SUBSET (1..MaxEvents)
  /\ customers \in 0..Cardinality(Hooks) /\ customer \in 0..Cardinality(Hooks)
  /\ feature \in [Features -> StoredFeatures]
  /\ tenantSms \in BOOLEAN /\ disturbed \in BOOLEAN
  /\ hook \in [Hooks -> HookStates]

NoFeature == [enabled |-> FALSE, status |-> "inactive", sub |-> NoSub]

IdleHook == [step |-> "idle", event |-> 0, feature |-> "noFee", customer |-> 0,
             copy |-> NoFeature, new |-> NoFeature]

PremiumInit ==
  /\ sub = [s \in Subs |-> [status |-> "none", cancelling |-> FALSE, feature |-> "noFee",
                            customer |-> 0]]
  /\ events = <<>> /\ handled = {}
  /\ customers = 0 /\ customer = 0
  /\ feature = [f \in Features |-> NoFeature]
  /\ tenantSms = FALSE
  /\ hook = [h \in Hooks |-> IdleHook]
  /\ disturbed = FALSE

-----------------------------------------------------------------------------
(* Stripe                                                                  *)

\* A subscription changes and an event says so.
Reports(s, kind, new) ==
  /\ Len(events) < MaxEvents
  /\ sub' = [sub EXCEPT ![s] = new]
  /\ events' = Append(events, [kind |-> kind, sub |-> s, status |-> new.status,
                               cancelling |-> new.cancelling])
  /\ UNCHANGED <<handled, customers, feature, customer, tenantSms, disturbed>>

\* The page is paid, it begins; the first invoice may be paid a little later.
SubscriptionBegins(s) ==
  /\ sub[s].status = "session"
  /\ \E status \in {"incomplete", "active"} :
       Reports(s, "created", [sub[s] EXCEPT !.status = status])
  /\ UNCHANGED hook

InvoicePaid(s) ==
  /\ sub[s].status \in {"incomplete", "past_due"}
  /\ Reports(s, "updated", [sub[s] EXCEPT !.status = "active"])
  /\ UNCHANGED hook

InvoiceUnpaid(s) ==
  /\ sub[s].status = "active"
  /\ Reports(s, "updated", [sub[s] EXCEPT !.status = "past_due"])
  /\ UNCHANGED hook

\* At the end of the period, or after too many unpaid invoices.
SubscriptionEnds(s) ==
  /\ sub[s].cancelling \/ sub[s].status = "past_due"
  /\ sub[s].status # "canceled"
  /\ Reports(s, "deleted", [sub[s] EXCEPT !.status = "canceled"])
  /\ UNCHANGED hook

-----------------------------------------------------------------------------
(* features.js: subscribe-no-fee, subscribe-sms, cancel-no-fee, cancel-sms *)

HookEnds(h) == hook' = [hook EXCEPT ![h] = IdleHook]

HookStarts(h, f, step) ==
  /\ hook[h].step = "idle"
  /\ hook' = [hook EXCEPT ![h] = [IdleHook EXCEPT !.step = step, !.feature = f,
                                                  !.customer = customer]]

Subscribe(h, f) ==
  /\ ~feature[f].enabled
  /\ HookStarts(h, f, IF customer = 0 THEN "customer" ELSE "session")
  /\ UNCHANGED <<sub, events, handled, customers, feature, customer, tenantSms, disturbed>>

\* stripe.customers.create and save()
CreateCustomer(h) ==
  /\ hook[h].step = "customer"
  /\ customers < Cardinality(Hooks)
  /\ customers' = customers + 1 /\ customer' = customers + 1
  /\ hook' = [hook EXCEPT ![h].step = "session", ![h].customer = customers + 1]
  /\ UNCHANGED <<sub, events, handled, feature, tenantSms, disturbed>>

CreateSession(h, s) ==
  /\ hook[h].step = "session"
  /\ sub[s].status = "none"
  /\ sub' = [sub EXCEPT ![s] = [status |-> "session", cancelling |-> FALSE,
                                feature |-> hook[h].feature, customer |-> hook[h].customer]]
  /\ HookEnds(h)
  /\ UNCHANGED <<events, handled, customers, feature, customer, tenantSms, disturbed>>

\* The subscription that is stored, whatever its state.
CancelFeature(h, f) ==
  /\ feature[f].sub # NoSub
  /\ HookStarts(h, f, "cancel")
  /\ UNCHANGED <<sub, events, handled, customers, feature, customer, tenantSms, disturbed>>

\* stripe.subscriptions.update; Stripe refuses one that has ended.
CancelAtPeriodEnd(h) ==
  LET s == feature[hook[h].feature].sub IN
  /\ hook[h].step = "cancel"
  /\ sub[s].status \in {"incomplete", "active", "past_due"}
  /\ Reports(s, "updated", [sub[s] EXCEPT !.cancelling = TRUE])
  /\ HookEnds(h)

-----------------------------------------------------------------------------
(* webhooks.js: customer.subscription.created, .updated, .deleted          *)

\* Mutant: a subscription that is to end counts as enabled.
StatusOnly(e) == e.status = "active"

InForce(e) == e.status = "active" /\ ~e.cancelling

\* It already has this subscription with a better status.
SkipsCreation(e) ==
  LET stored == feature["noFee"] IN
  stored.sub = e.sub /\ stored.status = "active" /\ e.status = "incomplete"

\* Only the creation of a no-fee subscription is stored; a deletion is looked
\* up by subscription and customer, an update by the metadata as well.
Concerned(e) ==
  CASE e.kind = "created" -> sub[e.sub].feature = "noFee" /\ ~SkipsCreation(e)
    [] e.kind = "updated" -> TRUE
    [] e.kind = "deleted" -> \/ \E f \in Features : feature[f].sub = e.sub
                             \/ customer = sub[e.sub].customer

\* What the event makes of the stored feature.
Told(e, stored) ==
  IF e.kind = "deleted"
    THEN [stored EXCEPT !.enabled = FALSE, !.status = "canceled"]
    ELSE [enabled |-> InForce(e), status |-> e.status, sub |-> e.sub]

\* The tenant's flags are set or reset before the specialist is saved.
Flags(e, f) == f = "sms" /\ (e.kind = "deleted" \/ InForce(e))

Receive(h, i) ==
  LET e == events[i]
      f == sub[e.sub].feature
  IN
  /\ hook[h].step = "idle"
  /\ handled' = handled \cup {i}
  /\ disturbed' = (disturbed \/ handled # 1..(i - 1)
                             \/ \E k \in Hooks : hook[k].step \in {"flag", "save"})
  /\ IF Concerned(e)
       THEN hook' = [hook EXCEPT ![h] =
              [IdleHook EXCEPT !.step = IF Flags(e, f) THEN "flag" ELSE "save",
                               !.event = i, !.feature = f,
                               !.copy = feature[f], !.new = Told(e, feature[f])]]
       ELSE UNCHANGED hook
  /\ UNCHANGED <<sub, events, customers, feature, customer, tenantSms>>

SaveFlags(h) ==
  /\ hook[h].step = "flag"
  /\ tenantSms' = (events[hook[h].event].kind # "deleted")
  /\ hook' = [hook EXCEPT ![h].step = "save"]
  /\ UNCHANGED <<sub, events, handled, customers, feature, customer, disturbed>>

\* A creation writes the whole feature, the others what differs from the copy.
SaveFeature(h) ==
  LET r == hook[h]
      Written(now) ==
        IF events[r.event].kind = "created" THEN r.new
        ELSE [enabled |-> IF r.new.enabled = r.copy.enabled THEN now.enabled ELSE r.new.enabled,
              status |-> IF r.new.status = r.copy.status THEN now.status ELSE r.new.status,
              sub |-> IF r.new.sub = r.copy.sub THEN now.sub ELSE r.new.sub]
  IN
  /\ r.step = "save"
  /\ feature' = [feature EXCEPT ![r.feature] = Written(@)]
  /\ HookEnds(h)
  /\ UNCHANGED <<sub, events, handled, customers, customer, tenantSms, disturbed>>

\* The server dies, or an await throws.
HookFails(h) ==
  /\ hook[h].step # "idle"
  /\ disturbed' = (disturbed \/ hook[h].step \in {"flag", "save"})
  /\ HookEnds(h)
  /\ UNCHANGED <<sub, events, handled, customers, feature, customer, tenantSms>>

PremiumNext ==
  \/ \E s \in Subs : \/ SubscriptionBegins(s) \/ InvoicePaid(s)
                     \/ InvoiceUnpaid(s) \/ SubscriptionEnds(s)
  \/ \E h \in Hooks :
       \/ \E f \in Features : Subscribe(h, f) \/ CancelFeature(h, f)
       \/ CreateCustomer(h) \/ CancelAtPeriodEnd(h)
       \/ \E s \in Subs : CreateSession(h, s)
       \/ \E i \in 1..Len(events) : Receive(h, i)
       \/ SaveFlags(h) \/ SaveFeature(h) \/ HookFails(h)

PremiumSpec == PremiumInit /\ [][PremiumNext]_premiumVars

-----------------------------------------------------------------------------
(* Properties                                                              *)

SubsOf(f) == {s \in Subs : sub[s].feature = f /\ sub[s].status # "none"}

\* Once every event has been handled in its order, one at a time and with none
\* lost, a feature that was subscribed once is enabled exactly while Stripe
\* counts the subscription as active and not ending, and the tenant's flags
\* are off when it has ended.  A feature that was subscribed again is not
\* covered (the end of the old subscription disables the new one), nor SMS
\* while its creation, which is ignored, is the only event.
FeatureFollowsStripe ==
  (~disturbed /\ handled = 1..Len(events) /\ \A h \in Hooks : hook[h].step \notin {"flag", "save"})
    => \A f \in Features : \A s \in SubsOf(f) :
         ( /\ SubsOf(f) = {s}
           /\ f = "sms" => \E i \in handled : events[i].sub = s /\ events[i].kind # "created" )
         => /\ feature[f].enabled <=> sub[s].status = "active" /\ ~sub[s].cancelling
            /\ f = "sms" /\ tenantSms => sub[s].status # "canceled"

=============================================================================
