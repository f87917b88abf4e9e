--------------------------- MODULE ConnectAccount ---------------------------
(***************************************************************************)
(* A specialist's account at Stripe Connect: routes/connect.js and the     *)
(* cases account.* and payout.paid of routes/webhooks.js.                  *)
(*                                                                         *)
(* Every request reads the specialist, may ask Stripe, and saves the       *)
(* fields it changed as compared to what it read.                          *)
(***************************************************************************)
EXTENDS Integers, FiniteSets

CONSTANTS
  Linkers,     \* requests the server works on
  Accounts,    \* accounts at Stripe
  NoAccount,
  MaxPayouts   \* bound on the payouts

ASSUME ConnectAssumption == NoAccount \notin Accounts /\ MaxPayouts \in Nat

VARIABLES
  stripe,     \* Stripe: account -> its state
  payouts,    \* Stripe: payouts made
  seller,     \* the specialist's fields
  linker,     \* request -> where it waits, what it has read, what it will save
  counted,    \* history: payouts whose event found the specialist
  overtaken   \* history: a save of a copy that was old, or one that was lost

connectVars == <<stripe, payouts, seller, linker, counted, overtaken>>

ConnectStatuses == {"not_connected", "pending", "connected", "disconnected"}

Sellers == [ account : Accounts \cup {NoAccount}, status : ConnectStatuses, onboarded : BOOLEAN,
             payoutsOn : BOOLEAN, total : 0..(2 * MaxPayouts) ]

LinkerSteps == {"idle", "onboard", "status", "create", "save", "saveThenCreate"}

LinkerStates == [step : LinkerSteps, copy : Sellers, new : Sellers]

ConnectTypeOK ==
  /\ stripe \in [Accounts -> {"none", "opened", "complete"}]
  /\ payouts \in 0..MaxPayouts
  /\ seller \in Sellers
  /\ linker \in [Linkers -> LinkerStates]
  /\ counted \in SUBSET (1..MaxPayouts)
  /\ overtaken \in BOOLEAN

NewSeller == [account |-> NoAccount, status |-> "not_connected", onboarded |-> FALSE,
              payoutsOn |-> FALSE, total |-> 0]

IdleLinker == [step |-> "idle", copy |-> NewSeller, new |-> NewSeller]

ConnectInit ==
  /\ stripe = [a \in Accounts |-> "none"] /\ payouts = 0
  /\ seller = NewSeller
  /\ linker = [h \in Linkers |-> IdleLinker]
  /\ counted = {} /\ overtaken = FALSE

-----------------------------------------------------------------------------
(* Helpers                                                                 *)

LinkerWaits(h, step, copy, new) ==
  linker' = [linker EXCEPT ![h] = [step |-> step, copy |-> copy, new |-> new]]

LinkerEnds(h) == linker' = [linker EXCEPT ![h] = IdleLinker]

\* A document that is not changed is not written.
WillSave(h, copy, new) ==
  IF new = copy THEN LinkerEnds(h) ELSE LinkerWaits(h, "save", copy, new)

\* Mutant: the status is reset, the onboarding is not.
StatusCleared(d) == [d EXCEPT !.account = NoAccount, !.status = "not_connected"]

\* stripePayoutsEnabled is left as it is.
Cleared(d) == [StatusCleared(d) EXCEPT !.onboarded = FALSE]

Connected(d, isComplete) ==
  [d EXCEPT !.status = IF isComplete THEN "connected" ELSE "pending", !.onboarded = isComplete]

-----------------------------------------------------------------------------
(* connect.js                                                              *)

\* POST /onboard
Onboard(h) ==
  /\ linker[h].step = "idle"
  /\ LinkerWaits(h, IF seller.account = NoAccount THEN "create" ELSE "onboard", seller, seller)
  /\ UNCHANGED <<stripe, payouts, seller, counted, overtaken>>

\* accounts.retrieve: any error counts as an account that does not exist.
RetrieveForLink(h) ==
  LET copy == linker[h].copy IN
  /\ linker[h].step = "onboard"
  /\ \/ LinkerEnds(h)
     \/ LinkerWaits(h, "saveThenCreate", copy, Cleared(copy))
  /\ UNCHANGED <<stripe, payouts, seller, counted, overtaken>>

CreateAccount(h, a) ==
  LET copy == linker[h].copy IN
  /\ linker[h].step = "create"
  /\ stripe[a] = "none"
  /\ stripe' = [stripe EXCEPT ![a] = "opened"]
  /\ WillSave(h, copy, [copy EXCEPT !.account = a, !.status = "pending"])
  /\ UNCHANGED <<payouts, seller, counted, overtaken>>

\* GET /status/:specialistId
GetStatus(h) ==
  /\ linker[h].step = "idle"
  /\ seller.account # NoAccount
  /\ LinkerWaits(h, "status", seller, seller)
  /\ UNCHANGED <<stripe, payouts, seller, counted, overtaken>>

RetrieveForStatus(h) ==
  LET copy == linker[h].copy
      isComplete == stripe[copy.account] = "complete"
  IN
  /\ linker[h].step = "status"
  /\ \/ WillSave(h, copy, Cleared(copy))
     \/ /\ isComplete /\ copy.status # "connected"
        /\ \E enabled \in BOOLEAN :
             WillSave(h, copy, [Connected(copy, TRUE) EXCEPT !.payoutsOn = enabled])
     \/ ~isComplete /\ copy.status = "connected" /\ WillSave(h, copy, Connected(copy, FALSE))
     \/ (isComplete <=> copy.status = "connected") /\ LinkerEnds(h)
  /\ UNCHANGED <<stripe, payouts, seller, counted, overtaken>>

\* DELETE /disconnect/:specialistId
Disconnect(h) ==
  /\ linker[h].step = "idle"
  /\ seller.account # NoAccount
  /\ WillSave(h, seller, Cleared(seller))
  /\ UNCHANGED <<stripe, payouts, seller, counted, overtaken>>

-----------------------------------------------------------------------------
(* webhooks.js; an event for an account no specialist has does nothing     *)

\* Details are submitted and charges enabled, or no longer.
AccountChanges(a) ==
  /\ stripe[a] # "none"
  /\ stripe' = [stripe EXCEPT ![a] = IF @ = "complete" THEN "opened" ELSE "complete"]
  /\ UNCHANGED <<payouts, seller, linker, counted, overtaken>>

\* The event holds the account as it was at some time.
AccountUpdated(h, isComplete, enabled) ==
  /\ linker[h].step = "idle"
  /\ seller.account # NoAccount
  /\ WillSave(h, seller, [Connected(seller, isComplete) EXCEPT !.payoutsOn = enabled])
  /\ UNCHANGED <<stripe, payouts, seller, counted, overtaken>>

ApplicationAuthorized(h) ==
  /\ linker[h].step = "idle"
  /\ seller.account # NoAccount
  /\ WillSave(h, seller, Connected(seller, TRUE))
  /\ UNCHANGED <<stripe, payouts, seller, counted, overtaken>>

ApplicationDeauthorized(h) ==
  /\ linker[h].step = "idle"
  /\ seller.account # NoAccount
  /\ WillSave(h, seller, [Cleared(seller) EXCEPT !.status = "disconnected"])
  /\ UNCHANGED <<stripe, payouts, seller, counted, overtaken>>

\* All payouts are of amount 1.
AddPayout(d) == [d EXCEPT !.total = @ + 1]

PayoutMade ==
  /\ \E a \in Accounts : stripe[a] = "complete"
  /\ payouts < MaxPayouts
  /\ payouts' = payouts + 1
  /\ UNCHANGED <<stripe, seller, linker, counted, overtaken>>

\* The event of payout p; a second delivery adds it again.
PayoutPaid(h, p) ==
  /\ linker[h].step = "idle"
  /\ seller.account # NoAccount
  /\ seller.total < 2 * MaxPayouts
  /\ WillSave(h, seller, AddPayout(seller))
  /\ counted' = counted \cup {p}
  /\ overtaken' = (overtaken \/ p \in counted)
  /\ UNCHANGED <<stripe, payouts, seller>>

-----------------------------------------------------------------------------

\* save()
SaveSeller(h) ==
  LET r == linker[h]
      Write(now, old, new) == IF new = old THEN now ELSE new
  IN
  /\ r.step \in {"save", "saveThenCreate"}
  /\ seller' = [account |-> Write(seller.account, r.copy.account, r.new.account),
                status |-> Write(seller.status, r.copy.status, r.new.status),
                onboarded |-> Write(seller.onboarded, r.copy.onboarded, r.new.onboarded),
                payoutsOn |-> Write(seller.payoutsOn, r.copy.payoutsOn, r.new.payoutsOn),
                total |-> Write(seller.total, r.copy.total, r.new.total)]
  /\ overtaken' = (overtaken \/ r.copy # seller)
  /\ IF r.step = "save" THEN LinkerEnds(h) ELSE LinkerWaits(h, "create", r.new, r.new)
  /\ UNCHANGED <<stripe, payouts, counted>>

\* The server dies, or an await throws.
LinkerFails(h) ==
  /\ linker[h].step # "idle"
  /\ overtaken' = (overtaken \/ linker[h].new.total # linker[h].copy.total)
  /\ LinkerEnds(h)
  /\ UNCHANGED <<stripe, payouts, seller, counted>>

ConnectNext ==
  \/ PayoutMade
  \/ \E a \in Accounts : AccountChanges(a)
  \/ \E h \in Linkers :
       \/ Onboard(h) \/ RetrieveForLink(h) \/ \E a \in Accounts : CreateAccount(h, a)
       \/ GetStatus(h) \/ RetrieveForStatus(h) \/ Disconnect(h)
       \/ \E isComplete \in BOOLEAN, enabled \in BOOLEAN : AccountUpdated(h, isComplete, enabled)
       \/ ApplicationAuthorized(h) \/ ApplicationDeauthorized(h)
       \/ \E p \in 1..payouts : PayoutPaid(h, p)
       \/ SaveSeller(h) \/ LinkerFails(h)

ConnectSpec == ConnectInit /\ [][ConnectNext]_connectVars

-----------------------------------------------------------------------------
(* Properties                                                              *)

\* The specialist's four fields tell one story, unless a save was made from a
\* copy another one had overtaken: connected is onboarded, an account is
\* stored while the status is pending or connected, and the total of payouts
\* is the number of those whose event has found the specialist and was saved.
SellerIsConsistent ==
  ~overtaken =>
    /\ seller.status = "connected" <=> seller.onboarded
    /\ seller.status \in {"pending", "connected"} <=> seller.account # NoAccount
    /\ seller.total + Cardinality({h \in Linkers : linker[h].new.total # linker[h].copy.total})
         = Cardinality(counted)
=============================================================================
