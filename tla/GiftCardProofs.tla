--------------------------- MODULE GiftCardProofs ---------------------------
(***************************************************************************)
(* A sent gift card is never taken back, what redeemers were told is on    *)
(* the card, a hold is its checkout's own, and no card is overdrawn: for   *)
(* any number of handlers and appointments and any amount.  Then the       *)
(* letters about a card and other documents, and what is recorded of them. *)
(*                                                                         *)
(* The argument is optimistic concurrency: a handler whose copy still has  *)
(* the stored version has a copy that is a legal successor of the stored   *)
(* document (Copies, Ledger), because every save makes the other copies    *)
(* stale, and the two writers that do not check a version (SessionRefused, *)
(* CreateSent) never run beside a copy that they could mislead (Unsold).   *)
(* Sums of holds matter only to what is left on a card (Covered).          *)
(***************************************************************************)
EXTENDS MCCards, FiniteSetTheorems, SequenceTheorems, TLAPS

Spendable == {"sent", "redeemed"}

\* As much of the types as the argument needs.
Shape ==
  /\ "status" \in DOMAIN card
  /\ DOMAIN proc = Handlers
  /\ \A h \in Handlers : {"step", "doc"} \subseteq DOMAIN proc[h]
                         /\ "status" \in DOMAIN proc[h].doc
  /\ current \subseteq Handlers

\* Before the card exists nobody works on it.
Unsold ==
  card.status = "none" =>
    stripe = "none" /\ current = {} /\ \A h \in Handlers : At(h, "idle")

\* What an up-to-date handler is going to save may follow what is stored.
Legal(doc) == doc.status # "none" /\ (card.status = "sent" => doc.status \in Spendable)

Copies == \A h \in current : Legal(proc[h].doc)

IInv == Shape /\ Unsold /\ Copies

SentStep == card.status = "sent" => card'.status \in Spendable

-----------------------------------------------------------------------------
(* The ways a handler moves                                                *)

\* A handler reads the card and prepares a legal copy.
LEMMA FetchKeeps ==
  ASSUME IInv, NEW h \in Handlers, NEW step, NEW doc, NEW a, NEW n,
         Fetch(h, step, doc, a, n), UNCHANGED <<card, stripe>>,
         "status" \in DOMAIN doc, card.status # "none", Legal(doc)
  PROVE  IInv' /\ SentStep
  BY DEF IInv, Shape, Unsold, Copies, Legal, Fetch, At, SentStep, Spendable

\* A handler saves its copy.
LEMMA SaveKeeps ==
  ASSUME IInv, NEW h \in Handlers, Save(h), UNCHANGED stripe, NEW p,
         proc' = [proc EXCEPT ![h] = p], {"step", "doc"} \subseteq DOMAIN p,
         "status" \in DOMAIN p.doc
  PROVE  IInv' /\ SentStep
  BY DEF IInv, Shape, Unsold, Copies, Legal, Save, At, SentStep, Spendable

\* A handler ends, or goes on, without touching the card or reading it again;
\* if its copy is still up to date it is still the same copy.
LEMMA MoveKeeps ==
  ASSUME IInv, NEW h \in Handlers, UNCHANGED <<card, stripe>>, NEW p,
         proc' = [proc EXCEPT ![h] = p], {"step", "doc"} \subseteq DOMAIN p,
         "status" \in DOMAIN p.doc, current' \subseteq current,
         h \in current' => p.doc = proc[h].doc,
         card.status = "none" => p.step = "idle"
  PROVE  IInv' /\ SentStep
  BY DEF IInv, Shape, Unsold, Copies, Legal, At, SentStep, Spendable

LEMMA IdleShape == {"step", "doc"} \subseteq DOMAIN Idle /\ "status" \in DOMAIN Idle.doc
                   /\ Idle.step = "idle" /\ "status" \in DOMAIN NoCard
  BY DEF Idle, NoCard

LEMMA EndKeeps ==
  ASSUME IInv, NEW h \in Handlers, End(h), UNCHANGED <<card, stripe>>
  PROVE  IInv' /\ SentStep
  BY MoveKeeps, IdleShape DEF End

\* An attempt to save: the copy is stored, or refused because it is stale.
LEMMA AttemptKeeps ==
  ASSUME IInv, NEW h \in Handlers, UNCHANGED stripe,
         \/ Save(h) /\ proc' = [proc EXCEPT ![h] = Idle]
         \/ VersionError(h) /\ End(h)
  PROVE  IInv' /\ SentStep
  BY SaveKeeps, EndKeeps, IdleShape DEF VersionError

LEMMA AgedStatus ==
  ASSUME NEW d, "status" \in DOMAIN d
  PROVE  "status" \in DOMAIN Aged(d) /\ Aged(d).status = d.status
  BY DEF Aged

-----------------------------------------------------------------------------
(* Every step                                                              *)

LEMMA BuyKeeps ==
  ASSUME IInv, NEW h \in Handlers, Buy(h)
  PROVE  IInv' /\ SentStep
<1>1. CASE Confirm(h) \/ Webhook(h) \/ WebhookExpired(h)
  <2>1. ASSUME NEW step, Finalise(h, step), stripe = "paid", UNCHANGED <<card, stripe>>
        PROVE  IInv' /\ SentStep
    <3> DEFINE doc == [card EXCEPT !.status = "sent"]
    <3>1. "status" \in DOMAIN doc /\ doc.status = "sent"
      BY DEF IInv, Shape
    <3>2. card.status # "none" /\ Legal(doc)
      BY <2>1, <3>1 DEF IInv, Unsold, Legal, Spendable
    <3>3. Fetch(h, step, doc, NoAppt, 0)
      BY <2>1 DEF Finalise
    <3> QED BY <2>1, <3>1, <3>2, <3>3, FetchKeeps
  <2>2. ASSUME UNCHANGED <<card, stripe, proc, current>>
        PROVE  IInv' /\ SentStep
    BY <2>2 DEF IInv, Shape, Unsold, Copies, Legal, At, SentStep, Spendable
  <2>3. ASSUME NEW step, UNCHANGED <<card, stripe>>, card.status = "pending",
               Fetch(h, step, [card EXCEPT !.status = "cancelled"], NoAppt, 0)
        PROVE  IInv' /\ SentStep
    <3> DEFINE doc == [card EXCEPT !.status = "cancelled"]
    <3>1. "status" \in DOMAIN doc /\ doc.status = "cancelled"
      BY DEF IInv, Shape
    <3>2. card.status # "none" /\ Legal(doc)
      BY <2>3, <3>1 DEF Legal
    <3> QED BY <2>3, <3>1, <3>2, FetchKeeps
  <2> QED BY <1>1, <2>1, <2>2, <2>3 DEF Confirm, Webhook, WebhookExpired
<1>2. CASE ConfirmSave(h) \/ WebhookSave(h) \/ CancelSave(h)
  BY <1>2, AttemptKeeps DEF ConfirmSave, WebhookSave, CancelSave
<1>3. CASE CancelRead(h)
  <2> DEFINE doc == [card EXCEPT !.status = "cancelled"]
  <2>1. "status" \in DOMAIN doc /\ doc.status = "cancelled"
    BY DEF IInv, Shape
  <2>2. card.status # "none" /\ Legal(doc)
    BY <1>3, <2>1 DEF CancelRead, Legal
  <2>3. Fetch(h, "check", doc, NoAppt, 0) /\ UNCHANGED <<card, stripe>>
    BY <1>3 DEF CancelRead
  <2> QED BY <2>1, <2>2, <2>3, FetchKeeps
<1>4. CASE CancelCheck(h)
  <2>1. CASE End(h)
    BY <1>4, <2>1, EndKeeps DEF CancelCheck
  <2>2. CASE proc' = [proc EXCEPT ![h].step = "cancel"] /\ UNCHANGED current
    <3> DEFINE p == [proc[h] EXCEPT !.step = "cancel"]
    <3>1. proc' = [proc EXCEPT ![h] = p]
      BY <2>2
    <3>2. {"step", "doc"} \subseteq DOMAIN p /\ p.doc = proc[h].doc
          /\ "status" \in DOMAIN p.doc
      BY DEF IInv, Shape
    <3>3. card.status # "none"
      BY <1>4 DEF CancelCheck, IInv, Unsold, At
    <3> QED BY <1>4, <2>2, <3>1, <3>2, <3>3, MoveKeeps DEF CancelCheck
  <2> QED BY <1>4, <2>1, <2>2 DEF CancelCheck
<1> QED BY <1>1, <1>2, <1>3, <1>4 DEF Buy

LEMMA SpendKeeps ==
  ASSUME IInv, NEW h \in Handlers, Spend(h)
  PROVE  IInv' /\ SentStep
<1>1. ASSUME NEW n \in 1..Amount, RedeemRead(h, n)
      PROVE  IInv' /\ SentStep
  <2>1. "status" \in DOMAIN Redeemed(card, n)
        /\ Redeemed(card, n).status \in {card.status, "redeemed"}
    BY DEF IInv, Shape, Redeemed
  <2>2. card.status # "none" /\ Legal(Redeemed(card, n))
    BY <1>1, <2>1 DEF RedeemRead, IsValid, Legal, Spendable
  <2>3. Fetch(h, "redeem", Redeemed(card, n), NoAppt, n) /\ UNCHANGED <<card, stripe>>
    BY <1>1 DEF RedeemRead
  <2> QED BY <2>1, <2>2, <2>3, FetchKeeps
<1>2. CASE RedeemSave(h)
  BY <1>2, AttemptKeeps DEF RedeemSave
<1>3. ASSUME NEW a, NEW n, NEW step, Fetch(h, step, Reserved(card, a, n), a, n),
             card.status # "none", UNCHANGED <<card, stripe>>
      PROVE  IInv' /\ SentStep
  <2>1. "status" \in DOMAIN Reserved(card, a, n) /\ Reserved(card, a, n).status = card.status
    BY DEF IInv, Shape, Reserved
  <2>2. Legal(Reserved(card, a, n))
    BY <1>3, <2>1 DEF Legal, Spendable
  <2> QED BY <1>3, <2>1, <2>2, FetchKeeps
<1>4. ASSUME NEW a \in Appts, NEW price \in 1..Amount, ReserveRead(h, a, price)
      PROVE  IInv' /\ SentStep
  <2>1. card.status # "none"
    BY <1>4 DEF ReserveRead, IsValid
  <2> QED BY <1>3, <1>4, <2>1 DEF ReserveRead
<1>5. CASE ReserveSave(h)
  <2> DEFINE p == [proc[h] EXCEPT !.step = "stripe", !.doc = NoCard]
             q == [proc[h] EXCEPT !.step = "reread", !.doc = NoCard]
  <2>1. /\ {"step", "doc"} \subseteq DOMAIN p /\ "status" \in DOMAIN p.doc
        /\ {"step", "doc"} \subseteq DOMAIN q /\ "status" \in DOMAIN q.doc
    BY IdleShape DEF IInv, Shape
  <2>2. CASE Save(h)
    <3>1. (proc' = [proc EXCEPT ![h] = p] /\ UNCHANGED stripe) \/ VersionError(h)
      BY <1>5 DEF ReserveSave, IInv, Shape
    <3>2. ~VersionError(h)
      BY <2>2 DEF Save, VersionError
    <3> QED BY <2>1, <2>2, <3>1, <3>2, SaveKeeps
  <2>3. CASE VersionError(h) /\ End(h)
    BY <1>5, <2>3, EndKeeps DEF ReserveSave, VersionError
  <2>4. CASE VersionError(h) /\ UNCHANGED current
             /\ proc' = [proc EXCEPT ![h].step = "reread", ![h].doc = NoCard]
    <3>1. proc' = [proc EXCEPT ![h] = q]
      BY <2>4 DEF IInv, Shape
    <3>2. card.status # "none" /\ h \notin current'
      BY <1>5, <2>4 DEF ReserveSave, IInv, Unsold, At, VersionError
    <3> QED BY <1>5, <2>1, <2>4, <3>1, <3>2, MoveKeeps DEF ReserveSave, VersionError
  <2> QED BY <1>5, <2>2, <2>3, <2>4 DEF ReserveSave
<1>6. CASE ReserveReread(h)
  <2>1. card.status # "none"
    BY <1>6 DEF ReserveReread, IInv, Unsold, At
  <2> QED BY <1>3, <1>6, <2>1, EndKeeps DEF ReserveReread
<1>7. CASE CheckoutSession(h)
  <2> DEFINE p == [proc[h] EXCEPT !.step = "release"]
  <2>1. CASE proc' = [proc EXCEPT ![h].step = "release"] /\ UNCHANGED current
    <3>1. proc' = [proc EXCEPT ![h] = p] /\ p.doc = proc[h].doc
          /\ {"step", "doc"} \subseteq DOMAIN p /\ "status" \in DOMAIN p.doc
      BY <2>1 DEF IInv, Shape
    <3>2. card.status # "none"
      BY <1>7 DEF CheckoutSession, IInv, Unsold, At
    <3> QED BY <1>7, <2>1, <3>1, <3>2, MoveKeeps DEF CheckoutSession
  <2> QED BY <1>7, <2>1, EndKeeps DEF CheckoutSession
<1>8. CASE ReleaseRead(h)
  <2> DEFINE doc == Released(card, proc[h].appt)
  <2>1. "status" \in DOMAIN doc /\ doc.status = card.status
    BY DEF IInv, Shape, Released
  <2>2. card.status # "none" /\ Legal(doc)
    BY <1>8, <2>1 DEF ReleaseRead, IInv, Unsold, At, Legal, Spendable
  <2>3. Fetch(h, "unhold", doc, proc[h].appt, 0) /\ UNCHANGED <<card, stripe>>
    BY <1>8 DEF ReleaseRead
  <2> HIDE DEF doc
  <2> QED BY <2>1, <2>2, <2>3, FetchKeeps
<1>9. CASE ReleaseSave(h)
  BY <1>9, AttemptKeeps DEF ReleaseSave
<1> QED
  BY <1>1, <1>2, <1>4, <1>5, <1>6, <1>7, <1>8, <1>9 DEF Spend

LEMMA StepKeeps == ASSUME IInv, [Next]_vars PROVE IInv' /\ SentStep
<1>1. CASE CreatePending \/ CreateSent
  BY <1>1 DEF CreatePending, CreateSent, IInv, Shape, Unsold, Copies, At, SentStep, Spendable
<1>2. CASE SessionRefused
  BY <1>2 DEF SessionRefused, IInv, Shape, Unsold, Copies, Legal, At, SentStep, Spendable
<1>3. CASE SessionCreated \/ Pay \/ SessionExpires
  BY <1>3 DEF SessionCreated, Pay, SessionExpires, IInv, Shape, Unsold, Copies, Legal, At,
              SentStep, Spendable
<1>4. CASE Expire
  BY <1>4 DEF Expire, IInv, Shape, Unsold, Copies, Legal, At, SentStep, Spendable
<1>5. CASE Tick
  <2>1. "status" \in DOMAIN card' /\ card'.status = card.status
    BY <1>5, AgedStatus DEF Tick, IInv, Shape
  <2>2. ASSUME NEW h \in Handlers
        PROVE  /\ {"step", "doc"} \subseteq DOMAIN proc'[h]
               /\ proc'[h].step = proc[h].step
               /\ "status" \in DOMAIN proc'[h].doc
               /\ proc'[h].doc.status = proc[h].doc.status
    <3>1. proc'[h] = [proc[h] EXCEPT !.doc = Aged(proc[h].doc)]
      BY <1>5 DEF Tick
    <3>2. {"step", "doc"} \subseteq DOMAIN proc[h] /\ "status" \in DOMAIN proc[h].doc
      BY DEF IInv, Shape
    <3>3. proc'[h].doc = Aged(proc[h].doc)
      BY <3>1, <3>2
    <3> QED BY <3>1, <3>2, <3>3, AgedStatus
  <2>3. DOMAIN proc' = Handlers /\ UNCHANGED <<stripe, current>>
    BY <1>5 DEF Tick
  <2>4. Shape'
    BY <2>1, <2>2, <2>3 DEF IInv, Shape
  <2>5. Unsold' /\ Copies' /\ SentStep
    BY <2>1, <2>2, <2>3 DEF IInv, Shape, Unsold, Copies, Legal, At, SentStep, Spendable
  <2> QED BY <2>4, <2>5 DEF IInv
<1>6. ASSUME NEW h \in Handlers, HandlerCrash(h)
      PROVE  IInv' /\ SentStep
  BY <1>6, EndKeeps DEF HandlerCrash
<1>7. CASE UNCHANGED vars
  BY <1>7 DEF vars, IInv, Shape, Unsold, Copies, Legal, At, SentStep, Spendable
<1> QED
  BY <1>1, <1>2, <1>3, <1>4, <1>5, <1>6, <1>7, BuyKeeps, SpendKeeps DEF Next

LEMMA InitHolds == Init => IInv
  BY DEF Init, IInv, Shape, Unsold, Copies, At, NoCard, Idle

\* Whatever handlers run on copies of the document, one that is up to date
\* has a copy that may follow what is stored.
THEOREM CopiesAreLegal == Spec => []IInv
<1>1. IInv /\ [Next]_vars => IInv'
  BY StepKeeps
<1> QED BY <1>1, InitHolds, PTL DEF Spec

\* A card that has been sent stays spendable until it is used up: no late
\* POST /cancel, expired session or repeated finalisation takes it back.
THEOREM SentIsNotTakenBack == Spec => SentStaysSpendable
<1>1. IInv /\ [Next]_vars => [SentStep]_vars
  BY StepKeeps
<1>2. Spec => [][SentStep]_vars
  BY <1>1, CopiesAreLegal, PTL DEF Spec
<1> QED BY <1>2 DEF SentStaysSpendable, SentStep, Spendable

-----------------------------------------------------------------------------
(* What a card has been used for.  A copy that has the stored version      *)
(* differs from what is stored by the handler's own redemption (Adds) and  *)
(* by the hold of its own appointment, and it says "redeemed" when it is   *)
(* used up.                                                                *)

HoldSteps == {"reserve", "reserve again", "unhold"}

Fields(d) == {"redeemed", "holds"} \subseteq DOMAIN d /\ DOMAIN d.holds = Appts

UsedUp(d) == d.redeemed \in Nat /\ (d.status = "redeemed" <=> d.redeemed >= Amount)

Adds(step, n) == IF step = "redeem" THEN n ELSE 0

\* What a handler that works at a step for an appointment may have in its copy.
Follows(step, doc, a, n) ==
  /\ UsedUp(doc)
  /\ doc.redeemed = card.redeemed + Adds(step, n)
  /\ \A b \in Appts : doc.holds[b] # card.holds[b] => b = a /\ step \in HoldSteps

Ledger ==
  /\ Fields(card)
  /\ \A h \in Handlers : {"appt", "amount"} \subseteq DOMAIN proc[h] /\ Fields(proc[h].doc)
  /\ UsedUp(card) /\ card.redeemed = credited
  /\ \A h \in current : Follows(proc[h].step, proc[h].doc, proc[h].appt, proc[h].amount)

HoldStep ==
  \A a \in Appts :
    card.holds[a] # NoHold /\ card'.holds[a] # card.holds[a] =>
      \/ card' = Aged(card)
      \/ \E h \in Handlers : proc[h].appt = a /\ h \in current
                             /\ proc[h].step \in {"reserve", "reserve again", "unhold"}

Kept == Ledger' /\ HoldStep

LEMMA FetchCredits ==
  ASSUME IInv, Ledger, NEW h \in Handlers, NEW step, NEW doc, NEW a, NEW n,
         Fetch(h, step, doc, a, n), UNCHANGED <<card, credited>>,
         Fields(doc), Follows(step, doc, a, n)
  PROVE  Kept
<1>1. \A g \in Handlers : proc'[g] = IF g = h THEN [step |-> step, doc |-> doc, appt |-> a, amount |-> n]
                                     ELSE proc[g]
  BY DEF Fetch, IInv, Shape
<1>2. current' = current \cup {h} /\ current \subseteq Handlers
  BY DEF Fetch, IInv, Shape
<1>3. \A g \in Handlers : {"appt", "amount"} \subseteq DOMAIN proc'[g] /\ Fields(proc'[g].doc)
  BY <1>1 DEF Ledger
<1>4. \A g \in current' : Follows(proc'[g].step, proc'[g].doc, proc'[g].appt, proc'[g].amount)
  BY <1>1, <1>2 DEF Ledger
<1>5. Ledger'
  BY <1>3, <1>4 DEF Ledger, Follows, Fields, UsedUp
<1> QED BY <1>5 DEF Kept, HoldStep

LEMMA SaveCredits ==
  ASSUME IInv, Ledger, NEW h \in Handlers, Save(h), NEW p, proc' = [proc EXCEPT ![h] = p],
         {"appt", "amount"} \subseteq DOMAIN p, Fields(p.doc),
         credited' = credited + Adds(proc[h].step, proc[h].amount)
  PROVE  Kept
<1>1. \A g \in Handlers : proc'[g] = IF g = h THEN p ELSE proc[g]
  BY DEF IInv, Shape
<1>2. h \in current /\ card' = proc[h].doc /\ current' = {}
  BY DEF Save
<1>3. Follows(proc[h].step, proc[h].doc, proc[h].appt, proc[h].amount) /\ Fields(proc[h].doc)
  BY <1>2 DEF Ledger
<1>4. \A g \in Handlers : {"appt", "amount"} \subseteq DOMAIN proc'[g] /\ Fields(proc'[g].doc)
  BY <1>1 DEF Ledger
<1>5. Fields(card') /\ UsedUp(card')
  BY <1>2, <1>3 DEF Follows
<1>6. card'.redeemed = credited'
  BY <1>2, <1>3 DEF Follows, Ledger
<1>7. Ledger'
  BY <1>2, <1>4, <1>5, <1>6 DEF Ledger, Fields, UsedUp
<1>8. HoldStep
  BY <1>2, <1>3 DEF HoldStep, Follows, HoldSteps
<1> QED BY <1>7, <1>8 DEF Kept

LEMMA MoveCredits ==
  ASSUME IInv, Ledger, NEW h \in Handlers, UNCHANGED <<card, credited>>, NEW p,
         proc' = [proc EXCEPT ![h] = p], {"appt", "amount"} \subseteq DOMAIN p, Fields(p.doc),
         current' \subseteq current,
         h \in current' => p = [proc[h] EXCEPT !.step = p.step]
                           /\ p.step \notin HoldSteps \cup {"redeem"}
                           /\ proc[h].step \notin HoldSteps \cup {"redeem"}
  PROVE  Kept
<1>1. \A g \in Handlers : proc'[g] = IF g = h THEN p ELSE proc[g]
  BY DEF IInv, Shape
<1>2. \A g \in Handlers : {"appt", "amount"} \subseteq DOMAIN proc'[g] /\ Fields(proc'[g].doc)
  BY <1>1 DEF Ledger
<1>3. ASSUME NEW g \in current'
      PROVE  Follows(proc'[g].step, proc'[g].doc, proc'[g].appt, proc'[g].amount)
  <2>1. g \in Handlers /\ g \in current
    BY <1>3 DEF IInv, Shape
  <2>2. CASE g # h
    BY <1>1, <2>1, <2>2 DEF Ledger
  <2>3. CASE g = h
    <3>1. p.doc = proc[h].doc
      BY <1>3, <2>3 DEF IInv, Shape
    <3>2. Follows(proc[h].step, proc[h].doc, proc[h].appt, proc[h].amount)
      BY <2>1, <2>3 DEF Ledger
    <3> QED BY <1>1, <1>3, <2>3, <3>1, <3>2 DEF Follows, Adds
  <2> QED BY <2>2, <2>3
<1>4. Ledger'
  BY <1>2, <1>3 DEF Ledger, Follows, Fields, UsedUp
<1> QED BY <1>4 DEF Kept, HoldStep

LEMMA IdleFields ==
  {"appt", "amount"} \subseteq DOMAIN Idle /\ Fields(NoCard) /\ Idle.doc = NoCard
BY DEF Idle, NoCard, Fields

LEMMA EndCredits ==
  ASSUME IInv, Ledger, NEW h \in Handlers, End(h), UNCHANGED <<card, credited>>
  PROVE  Kept
<1>1. current' = current \ {h} /\ proc' = [proc EXCEPT ![h] = Idle]
  BY DEF End
<1> QED BY <1>1, MoveCredits, IdleFields

LEMMA AttemptCredits ==
  ASSUME IInv, Ledger, NEW h \in Handlers,
         \/ /\ Save(h) /\ proc' = [proc EXCEPT ![h] = Idle]
            /\ credited' = credited + Adds(proc[h].step, proc[h].amount)
         \/ VersionError(h) /\ End(h) /\ UNCHANGED credited
  PROVE  Kept
BY SaveCredits, EndCredits, IdleFields DEF VersionError

\* Nothing of the ledger changes but perhaps the status of a card that is not
\* used up.
LEMMA StatusCredits ==
  ASSUME IInv, Ledger, NEW s, card' = [card EXCEPT !.status = s], s # "redeemed",
         card.status # "redeemed", UNCHANGED <<proc, current, credited>>
  PROVE  Kept
<1>1. /\ card'.redeemed = card.redeemed /\ card'.holds = card.holds /\ card'.status = s
      /\ Fields(card')
  BY DEF Ledger, Fields, IInv, Shape
<1>2. UsedUp(card')
  BY <1>1 DEF Ledger, UsedUp
<1>3. (\A h \in current : Follows(proc[h].step, proc[h].doc, proc[h].appt, proc[h].amount))'
  BY <1>1 DEF Ledger, Follows, UsedUp
<1>4. Ledger'
  BY <1>1, <1>2, <1>3 DEF Ledger, Follows, Fields, UsedUp
<1> QED BY <1>1, <1>4 DEF Kept, HoldStep

\* The copies that handlers make of the card as it is stored.
LEMMA CopyOfCard ==
  ASSUME IInv, Ledger, NEW s, s # "redeemed", card.status # "redeemed", NEW step, step # "redeem",
         NEW a, NEW n
  PROVE  LET doc == [card EXCEPT !.status = s] IN Fields(doc) /\ Follows(step, doc, a, n)
BY DEF IInv, Shape, Ledger, Fields, Follows, UsedUp, Adds

LEMMA CopyWithHold ==
  ASSUME IInv, Ledger, NEW step \in HoldSteps, NEW a, NEW n, NEW hold
  PROVE  LET doc == [card EXCEPT !.holds[a] = hold] IN Fields(doc) /\ Follows(step, doc, a, n)
<1> DEFINE doc == [card EXCEPT !.holds[a] = hold]
<1>1. /\ doc.redeemed = card.redeemed /\ doc.status = card.status
      /\ doc.holds = [card.holds EXCEPT ![a] = hold] /\ Fields(doc)
  BY DEF IInv, Shape, Ledger, Fields
<1>2. \A b \in Appts : doc.holds[b] # card.holds[b] => b = a
  BY <1>1
<1>3. UsedUp(doc) /\ Adds(step, n) = 0
  BY <1>1 DEF Ledger, UsedUp, Adds, HoldSteps
<1> HIDE DEF doc
<1>4. doc.redeemed = card.redeemed + Adds(step, n)
  BY <1>1, <1>3 DEF Ledger, UsedUp
<1>5. Follows(step, doc, a, n)
  BY <1>2, <1>3, <1>4 DEF Follows
<1> QED BY <1>1, <1>5 DEF doc

LEMMA CopyRedeemed ==
  ASSUME IInv, Ledger, NEW n \in Nat, card.status = "sent", NEW a
  PROVE  Fields(Redeemed(card, n)) /\ Follows("redeem", Redeemed(card, n), a, n)
<1> DEFINE doc == Redeemed(card, n)
<1>1. /\ doc.redeemed = card.redeemed + n /\ doc.holds = card.holds /\ Fields(doc)
      /\ doc.status = IF card.redeemed + n >= Amount THEN "redeemed" ELSE card.status
  BY DEF IInv, Shape, Ledger, Fields, Redeemed
<1> HIDE DEF doc
<1>2. UsedUp(doc)
  BY <1>1, ConstantsAssumption DEF Ledger, UsedUp
<1>3. Follows("redeem", doc, a, n)
  BY <1>1, <1>2 DEF Follows, Adds
<1> QED BY <1>1, <1>3 DEF doc

LEMMA BuyCredits == ASSUME IInv, Ledger, NEW h \in Handlers, Buy(h) PROVE Kept
<1>1. ASSUME NEW step, Finalise(h, step), step # "redeem", UNCHANGED <<card, credited>> PROVE Kept
  <2> DEFINE doc == [card EXCEPT !.status = "sent"]
  <2>1. Fetch(h, step, doc, NoAppt, 0) /\ card.status # "redeemed"
    BY <1>1 DEF Finalise
  <2>2. Fields(doc) /\ Follows(step, doc, NoAppt, 0)
    BY <1>1, <2>1, CopyOfCard
  <2> QED BY <1>1, <2>1, <2>2, FetchCredits
<1>2. ASSUME NEW step, Fetch(h, step, [card EXCEPT !.status = "cancelled"], NoAppt, 0),
             step # "redeem", card.status = "pending", UNCHANGED <<card, credited>>
      PROVE  Kept
  <2> DEFINE doc == [card EXCEPT !.status = "cancelled"]
  <2>1. Fields(doc) /\ Follows(step, doc, NoAppt, 0)
    BY <1>2, CopyOfCard
  <2> QED BY <1>2, <2>1, FetchCredits
<1>3. ASSUME UNCHANGED <<card, proc, current, credited>> PROVE Kept
  BY <1>3 DEF Kept, HoldStep, Ledger, Follows, Fields, UsedUp
<1>4. CASE Confirm(h) \/ Webhook(h) \/ WebhookExpired(h)
  BY <1>1, <1>2, <1>3, <1>4 DEF Confirm, Webhook, WebhookExpired
<1>5. CASE ConfirmSave(h) \/ WebhookSave(h) \/ CancelSave(h)
  <2>1. proc[h].step # "redeem" /\ UNCHANGED credited
    BY <1>5 DEF ConfirmSave, WebhookSave, CancelSave, At
  <2>2. credited' = credited + Adds(proc[h].step, proc[h].amount)
    BY <2>1 DEF Ledger, UsedUp, Adds
  <2> QED BY <1>5, <2>1, <2>2, AttemptCredits DEF ConfirmSave, WebhookSave, CancelSave
<1>6. CASE CancelRead(h)
  BY <1>2, <1>6 DEF CancelRead
<1>7. CASE CancelCheck(h)
  <2>1. CASE End(h)
    BY <1>7, <2>1, EndCredits DEF CancelCheck
  <2>2. CASE proc' = [proc EXCEPT ![h].step = "cancel"] /\ UNCHANGED current
    <3> DEFINE p == [proc[h] EXCEPT !.step = "cancel"]
    <3>1. proc' = [proc EXCEPT ![h] = p] /\ p.step = "cancel" /\ proc[h].step = "check"
          /\ p.doc = proc[h].doc /\ {"appt", "amount"} \subseteq DOMAIN p
          /\ UNCHANGED <<card, credited>>
      BY <1>7, <2>2 DEF CancelCheck, At, IInv, Shape, Ledger
    <3>2. Fields(p.doc)
      BY <3>1 DEF Ledger
    <3> QED BY <2>2, <3>1, <3>2, MoveCredits DEF HoldSteps
  <2> QED BY <1>7, <2>1, <2>2 DEF CancelCheck
<1> QED BY <1>4, <1>5, <1>6, <1>7 DEF Buy

LEMMA SpendCredits == ASSUME IInv, Ledger, NEW h \in Handlers, Spend(h) PROVE Kept
<1>1. ASSUME NEW n \in 1..Amount, RedeemRead(h, n) PROVE Kept
  <2>1. /\ card.status = "sent" /\ n \in Nat /\ UNCHANGED <<card, credited>>
        /\ Fetch(h, "redeem", Redeemed(card, n), NoAppt, n)
    BY <1>1, ConstantsAssumption DEF RedeemRead, IsValid
  <2> QED BY <2>1, CopyRedeemed, FetchCredits
<1>2. CASE RedeemSave(h)
  <2>1. proc[h].step = "redeem" /\ Adds(proc[h].step, proc[h].amount) = proc[h].amount
    BY <1>2 DEF RedeemSave, At, Adds
  <2> QED BY <1>2, <2>1, AttemptCredits DEF RedeemSave
<1>3. ASSUME NEW a, NEW n, NEW step \in HoldSteps, NEW hold,
             Fetch(h, step, [card EXCEPT !.holds[a] = hold], a, n), UNCHANGED <<card, credited>>
      PROVE  Kept
  <2> DEFINE doc == [card EXCEPT !.holds[a] = hold]
  <2>1. Fields(doc) /\ Follows(step, doc, a, n)
    BY <1>3, CopyWithHold
  <2> QED BY <1>3, <2>1, FetchCredits
<1>4. ASSUME NEW a \in Appts, NEW price \in 1..Amount, ReserveRead(h, a, price) PROVE Kept
  BY <1>3, <1>4 DEF ReserveRead, Reserved, HoldSteps
<1>5. CASE ReserveSave(h)
  <2> DEFINE p == [proc[h] EXCEPT !.step = "stripe", !.doc = NoCard]
             q == [proc[h] EXCEPT !.step = "reread", !.doc = NoCard]
  <2>1. /\ {"appt", "amount"} \subseteq DOMAIN p /\ Fields(p.doc)
        /\ {"appt", "amount"} \subseteq DOMAIN q /\ Fields(q.doc)
    BY IdleFields DEF IInv, Shape, Ledger
  <2>2. UNCHANGED credited /\ proc[h].step # "redeem"
    BY <1>5 DEF ReserveSave, At
  <2>3. credited' = credited + Adds(proc[h].step, proc[h].amount)
    BY <2>2 DEF Ledger, UsedUp, Adds
  <2>4. CASE Save(h)
    <3>1. proc' = [proc EXCEPT ![h] = p]
      BY <1>5, <2>4 DEF ReserveSave, Save, VersionError
    <3> QED BY <2>1, <2>3, <2>4, <3>1, SaveCredits
  <2>5. CASE VersionError(h) /\ End(h)
    BY <2>2, <2>5, EndCredits DEF VersionError
  <2>6. CASE VersionError(h) /\ UNCHANGED current
             /\ proc' = [proc EXCEPT ![h].step = "reread", ![h].doc = NoCard]
    <3>1. proc' = [proc EXCEPT ![h] = q] /\ h \notin current' /\ card' = card
      BY <2>6 DEF VersionError
    <3> QED BY <2>1, <2>2, <2>6, <3>1, MoveCredits
  <2> QED BY <1>5, <2>4, <2>5, <2>6 DEF ReserveSave
<1>6. CASE ReserveReread(h)
  <2>1. ASSUME Fetch(h, "reserve again", Reserved(card, proc[h].appt, proc[h].amount),
                     proc[h].appt, proc[h].amount)
        PROVE  Kept
    BY <1>3, <1>6, <2>1 DEF ReserveReread, Reserved, HoldSteps
  <2> QED BY <1>6, <2>1, EndCredits DEF ReserveReread
<1>7. CASE CheckoutSession(h)
  <2> DEFINE p == [proc[h] EXCEPT !.step = "release"]
  <2>1. CASE proc' = [proc EXCEPT ![h].step = "release"] /\ UNCHANGED current
    <3>1. proc' = [proc EXCEPT ![h] = p] /\ p.step = "release" /\ proc[h].step = "stripe"
          /\ p.doc = proc[h].doc /\ {"appt", "amount"} \subseteq DOMAIN p
          /\ UNCHANGED <<card, credited>>
      BY <1>7, <2>1 DEF CheckoutSession, At, IInv, Shape, Ledger
    <3>2. Fields(p.doc)
      BY <3>1 DEF Ledger
    <3> QED BY <2>1, <3>1, <3>2, MoveCredits DEF HoldSteps
  <2> QED BY <1>7, <2>1, EndCredits DEF CheckoutSession
<1>8. CASE ReleaseRead(h)
  BY <1>3, <1>8 DEF ReleaseRead, Released, HoldSteps
<1>9. CASE ReleaseSave(h)
  <2>1. proc[h].step # "redeem" /\ UNCHANGED credited
    BY <1>9 DEF ReleaseSave, At
  <2>2. credited' = credited + Adds(proc[h].step, proc[h].amount)
    BY <2>1 DEF Ledger, UsedUp, Adds
  <2> QED BY <1>9, <2>1, <2>2, AttemptCredits DEF ReleaseSave
<1> QED BY <1>1, <1>2, <1>4, <1>5, <1>6, <1>7, <1>8, <1>9 DEF Spend

LEMMA AgedFields ==
  ASSUME NEW d, Fields(d), "status" \in DOMAIN d
  PROVE  /\ Fields(Aged(d)) /\ Aged(d).redeemed = d.redeemed /\ Aged(d).status = d.status
         /\ \A a \in Appts : Aged(d).holds[a] =
              IF d.holds[a].left > 1 THEN [d.holds[a] EXCEPT !.left = @ - 1] ELSE NoHold
BY DEF Fields, Aged

\* Time passes in the document and in the copies alike.
LEMMA TickCredits == ASSUME IInv, Ledger, Tick PROVE Kept
<1>1. /\ card' = Aged(card) /\ UNCHANGED <<current, credited>> /\ current \subseteq Handlers
      /\ proc' = [h \in Handlers |-> [proc[h] EXCEPT !.doc = Aged(proc[h].doc)]]
  BY DEF Tick, IInv, Shape
<1>2. /\ Fields(card') /\ card'.redeemed = card.redeemed /\ card'.status = card.status
      /\ \A a \in Appts : card'.holds[a] =
           IF card.holds[a].left > 1 THEN [card.holds[a] EXCEPT !.left = @ - 1] ELSE NoHold
  BY <1>1, AgedFields DEF IInv, Shape, Ledger
<1>3. ASSUME NEW h \in Handlers
      PROVE  /\ proc'[h].doc = Aged(proc[h].doc) /\ proc'[h].step = proc[h].step
             /\ proc'[h].appt = proc[h].appt /\ proc'[h].amount = proc[h].amount
             /\ {"appt", "amount"} \subseteq DOMAIN proc'[h]
  BY <1>1 DEF IInv, Shape, Ledger
<1>4. ASSUME NEW h \in Handlers
      PROVE  /\ Fields(proc'[h].doc) /\ proc'[h].doc.redeemed = proc[h].doc.redeemed
             /\ proc'[h].doc.status = proc[h].doc.status
             /\ \A a \in Appts : proc'[h].doc.holds[a] =
                  IF proc[h].doc.holds[a].left > 1
                    THEN [proc[h].doc.holds[a] EXCEPT !.left = @ - 1] ELSE NoHold
  <2>1. Fields(proc[h].doc) /\ "status" \in DOMAIN proc[h].doc
    BY DEF IInv, Shape, Ledger
  <2> QED BY <1>3, <2>1, AgedFields
<1>5. UsedUp(card') /\ card'.redeemed = credited'
  BY <1>1, <1>2 DEF Ledger, UsedUp
<1>6. ASSUME NEW h \in current
      PROVE  Follows(proc[h].step, proc[h].doc, proc[h].appt, proc[h].amount)'
  <2>1. h \in Handlers /\ Follows(proc[h].step, proc[h].doc, proc[h].appt, proc[h].amount)
    BY <1>1 DEF Ledger
  <2>2. UsedUp(proc[h].doc)'
    BY <1>4, <2>1 DEF Follows, UsedUp
  <2>3. (proc[h].doc.redeemed = card.redeemed + Adds(proc[h].step, proc[h].amount))'
    BY <1>2, <1>3, <1>4, <2>1 DEF Follows, Adds
  <2>4. ASSUME NEW b \in Appts, proc'[h].doc.holds[b] # card'.holds[b]
        PROVE  b = proc'[h].appt /\ proc'[h].step \in HoldSteps
    <3>1. proc[h].doc.holds[b] # card.holds[b]
      BY <1>2, <1>4, <2>1, <2>4
    <3> QED BY <1>3, <2>1, <3>1 DEF Follows
  <2> QED BY <2>2, <2>3, <2>4 DEF Follows
<1>7. Ledger'
  BY <1>1, <1>2, <1>3, <1>4, <1>5, <1>6 DEF Ledger
<1> QED BY <1>1, <1>7 DEF Kept, HoldStep

LEMMA StepCredits == ASSUME IInv, Ledger, [Next]_vars PROVE Kept
<1>1. ASSUME UNCHANGED <<card, proc, current, credited>> PROVE Kept
  BY <1>1 DEF Kept, HoldStep, Ledger, Follows, Fields, UsedUp
<1>2. CASE CreatePending \/ CreateSent \/ SessionRefused
  BY <1>2, StatusCredits DEF CreatePending, CreateSent, SessionRefused
<1>3. CASE SessionCreated \/ Pay \/ SessionExpires \/ Expire \/ UNCHANGED vars
  BY <1>1, <1>3 DEF SessionCreated, Pay, SessionExpires, Expire, vars
<1>4. ASSUME NEW h \in Handlers, HandlerCrash(h) PROVE Kept
  BY <1>4, EndCredits DEF HandlerCrash
<1> QED BY <1>2, <1>3, <1>4, TickCredits, BuyCredits, SpendCredits DEF Next

LEMMA InitCredits == Init => Ledger
<1> SUFFICES ASSUME Init PROVE Ledger
  OBVIOUS
<1>1. card = NoCard /\ current = {} /\ credited = 0 /\ proc = [h \in Handlers |-> Idle]
  BY DEF Init
<1>2. NoCard.redeemed = 0 /\ NoCard.status = "none"
  BY DEF NoCard
<1>3. UsedUp(card)
  BY <1>1, <1>2, ConstantsAssumption DEF UsedUp
<1> QED BY <1>1, <1>2, <1>3, IdleFields DEF Ledger

LEMMA LedgerHolds == Spec => []Ledger
<1>1. IInv /\ Ledger /\ [Next]_vars => Ledger'
  BY StepCredits DEF Kept
<1> QED BY <1>1, InitCredits, CopiesAreLegal, PTL DEF Spec

\* What redeemers were told is what is on the card, and the card says so when
\* it is used up, whatever copies are saved in between (models/GiftCard.js
\* redeem, routes/giftCards.js).
THEOREM RedemptionsAreCounted == Spec => []RedeemedIsCredited
<1>1. Ledger => RedeemedIsCredited
  BY DEF Ledger, UsedUp, RedeemedIsCredited
<1> QED BY <1>1, LedgerHolds, PTL

\* A hold changes only with time or by a checkout of its own appointment
\* (models/GiftCard.js reserveForAppointment, releaseReservation).
THEOREM HoldsAreTheirs == Spec => HoldStands
<1>1. IInv /\ Ledger /\ [Next]_vars => [HoldStep]_vars
  BY StepCredits DEF Kept
<1>2. Spec => [][HoldStep]_vars
  BY <1>1, CopiesAreLegal, LedgerHolds, PTL DEF Spec
<1> QED BY <1>2 DEF HoldStands, HoldStep

-----------------------------------------------------------------------------
(* Sums over finite sets: what the community modules define by a recursive *)
(* function.  The induction is over a set of naturals, T.                  *)

LEMMA SetInduction ==
  ASSUME NEW T, 0 \in T, \A n \in Nat : n \in T => n + 1 \in T
  PROVE  Nat \subseteq T
<1> DEFINE R == OpToRel(<, Nat)
           U == Nat \ T
<1>1. SUFFICES ASSUME U # {} PROVE FALSE
  OBVIOUS
<1>2. \E x \in U : \A y \in U : ~(<<y, x>> \in R)
  <2> HIDE DEF R
  <2>1. IsWellFoundedOn(R, Nat)
    BY NatLessThanWellFounded DEF R
  <2>2. U \subseteq Nat
    OBVIOUS
  <2> HIDE DEF U
  <2> QED BY ONLY <2>1, <2>2, <1>1, WFMin
<1>3. PICK x \in U : \A y \in U : ~(<<y, x>> \in R)
  BY <1>2
<1>4. \A y \in U : ~(y < x)
  BY <1>3 DEF OpToRel
<1>5. x \in Nat /\ x # 0
  OBVIOUS
<1>6. x - 1 \in Nat /\ x - 1 < x /\ (x - 1) + 1 = x
  BY <1>5
<1>7. x - 1 \in T
  BY <1>4, <1>6
<1>8. x \in T
  BY <1>6, <1>7
<1> QED BY <1>8

\* One element of a set, the one that a sum takes first.
First(s) == CHOOSE x \in s : TRUE

\* g is the sum of v over the sets of C, each of which has its smaller ones in C.
Sums(g, C, v) ==
  /\ g \in [C -> Nat]
  /\ \A s \in C : g[s] = IF s = {} THEN 0 ELSE v[First(s)] + g[s \ {First(s)}]

UpTo(S, n) == {s \in SUBSET S : Cardinality(s) <= n}

LEMMA FirstIsIn == ASSUME NEW s, s # {} PROVE First(s) \in s
BY DEF First

LEMMA OneLess ==
  ASSUME NEW S, IsFiniteSet(S), NEW s \in SUBSET S, NEW x \in s
  PROVE  /\ s \ {x} \in SUBSET S /\ Cardinality(s) \in Nat /\ Cardinality(s \ {x}) \in Nat
         /\ Cardinality(s \ {x}) = Cardinality(s) - 1
<1>1. IsFiniteSet(s)
  BY FS_Subset
<1>2. IsFiniteSet(s \ {x}) /\ Cardinality(s \ {x}) = Cardinality(s) - 1
  BY <1>1, FS_RemoveElement
<1>3. Cardinality(s) \in Nat /\ Cardinality(s \ {x}) \in Nat
  BY <1>1, <1>2, FS_CardinalityType
<1> QED BY <1>2, <1>3

LEMMA SumsExist ==
  ASSUME NEW S, IsFiniteSet(S), NEW v \in [S -> Nat]
  PROVE  \E g : Sums(g, SUBSET S, v)
<1> DEFINE T == {n \in Nat : \E g : Sums(g, UpTo(S, n), v)}
<1>1. 0 \in T
  <2> DEFINE g == [s \in UpTo(S, 0) |-> 0]
  <2>1. \A s \in UpTo(S, 0) : s = {}
    <3> SUFFICES ASSUME NEW s \in UpTo(S, 0) PROVE s = {}
      OBVIOUS
    <3>1. IsFiniteSet(s) /\ Cardinality(s) <= 0
      BY FS_Subset DEF UpTo
    <3>2. Cardinality(s) \in Nat
      BY <3>1, FS_CardinalityType
    <3>3. Cardinality(s) = 0
      BY <3>1, <3>2
    <3> QED BY <3>1, <3>3, FS_EmptySet
  <2>2. Sums(g, UpTo(S, 0), v)
    BY <2>1 DEF Sums
  <2> QED BY <2>2
<1>2. ASSUME NEW n \in Nat, n \in T PROVE n + 1 \in T
  <2>1. PICK g : Sums(g, UpTo(S, n), v)
    BY <1>2
  <2> DEFINE C == UpTo(S, n + 1)
             k == [s \in C |-> IF s = {} THEN 0 ELSE v[First(s)] + g[s \ {First(s)}]]
  <2>2. ASSUME NEW s \in C, s # {}
        PROVE  First(s) \in S /\ s \ {First(s)} \in UpTo(S, n) /\ s \ {First(s)} \in C
    <3>1. First(s) \in s /\ s \in SUBSET S /\ Cardinality(s) <= n + 1
      BY <2>2, FirstIsIn DEF UpTo
    <3> HIDE DEF C
    <3> DEFINE r == s \ {First(s)}
    <3>2. r \in SUBSET S /\ Cardinality(s) \in Nat /\ Cardinality(r) = Cardinality(s) - 1
      BY <3>1, OneLess
    <3>3. Cardinality(r) <= n /\ Cardinality(r) <= n + 1
      BY <3>1, <3>2
    <3> HIDE DEF r
    <3>4. r \in UpTo(S, n) /\ r \in UpTo(S, n + 1)
      BY <3>2, <3>3 DEF UpTo
    <3> QED BY <3>1, <3>4 DEF r, C
  <2>3. \A s \in UpTo(S, n) : s \in C
    BY OneLess, FS_Subset, FS_CardinalityType DEF UpTo
  <2>4. \A s \in C : k[s] \in Nat
    <3> SUFFICES ASSUME NEW s \in C PROVE k[s] \in Nat
      OBVIOUS
    <3>1. CASE s = {}
      BY <3>1
    <3>2. CASE s # {}
      <4>1. g[s \ {First(s)}] \in Nat /\ v[First(s)] \in Nat
        BY <2>1, <2>2, <3>2 DEF Sums
      <4> HIDE DEF C
      <4>2. k[s] = v[First(s)] + g[s \ {First(s)}]
        BY <3>2
      <4> HIDE DEF k
      <4> QED BY <4>1, <4>2
    <3> QED BY <3>1, <3>2
  <2>5. \A s \in UpTo(S, n) : k[s] = g[s]
    BY <2>1, <2>3 DEF Sums
  <2>6. \A s \in C : k[s] = IF s = {} THEN 0 ELSE v[First(s)] + k[s \ {First(s)}]
    <3> SUFFICES ASSUME NEW s \in C PROVE k[s] = IF s = {} THEN 0 ELSE v[First(s)] + k[s \ {First(s)}]
      OBVIOUS
    <3>1. CASE s = {}
      BY <3>1
    <3>2. CASE s # {}
      <4>1. k[s \ {First(s)}] = g[s \ {First(s)}]
        BY <2>2, <2>5, <3>2
      <4>2. k[s] = v[First(s)] + g[s \ {First(s)}]
        BY <3>2
      <4> HIDE DEF k, C
      <4> QED BY <3>2, <4>1, <4>2
    <3> QED BY <3>1, <3>2
  <2>7. k \in [C -> Nat]
    <3>1. \A s \in C : (IF s = {} THEN 0 ELSE v[First(s)] + g[s \ {First(s)}]) \in Nat
      BY <2>4
    <3> HIDE DEF C
    <3> QED BY <3>1
  <2>8. Sums(k, C, v)
    <3> HIDE DEF k, C
    <3> QED BY <2>6, <2>7 DEF Sums
  <2>9. \E f : Sums(f, C, v)
    <3> HIDE DEF k, C
    <3> QED BY <2>8
  <2> QED BY <2>9
<1>3. Cardinality(S) \in T
  <2>1. Cardinality(S) \in Nat
    BY FS_CardinalityType
  <2> HIDE DEF T
  <2>2. Nat \subseteq T
    BY <1>1, <1>2, SetInduction
  <2> QED BY <2>1, <2>2
<1>4. UpTo(S, Cardinality(S)) = SUBSET S
  BY FS_Subset DEF UpTo
<1> QED BY <1>3, <1>4

Recurs(g, C, v) == g = [s \in C |-> IF s = {} THEN 0 ELSE v[First(s)] + g[s \ {First(s)}]]

LEMMA SumsAreNatural ==
  ASSUME NEW S, IsFiniteSet(S), NEW v \in [S -> Nat], NEW g, Recurs(g, SUBSET S, v)
  PROVE  Sums(g, SUBSET S, v)
<1> DEFINE T == {n \in Nat : \A s \in SUBSET S : Cardinality(s) = n => g[s] \in Nat}
<1>1. \A s \in SUBSET S : g[s] = IF s = {} THEN 0 ELSE v[First(s)] + g[s \ {First(s)}]
  BY DEF Recurs
<1>2. g = [s \in SUBSET S |-> g[s]]
  BY DEF Recurs
<1>3. 0 \in T
  <2> SUFFICES ASSUME NEW s \in SUBSET S, Cardinality(s) = 0 PROVE g[s] \in Nat
    OBVIOUS
  <2>1. s = {}
    BY FS_Subset, FS_EmptySet
  <2>2. g[s] = 0
    BY ONLY <1>1, <2>1, s \in SUBSET S
  <2> QED BY <2>2
<1>4. ASSUME NEW n \in Nat, n \in T PROVE n + 1 \in T
  <2> SUFFICES ASSUME NEW s \in SUBSET S, Cardinality(s) = n + 1 PROVE g[s] \in Nat
    OBVIOUS
  <2> DEFINE c == First(s)
  <2>1. s # {}
    <3>1. Cardinality({}) = 0
      BY FS_EmptySet
    <3> QED BY ONLY <3>1, n \in Nat, Cardinality(s) = n + 1
  <2>2. c \in s
    BY <2>1, FirstIsIn
  <2>3. g[s] = v[c] + g[s \ {c}]
    BY ONLY <1>1, <2>1, s \in SUBSET S
  <2> HIDE DEF c
  <2>4. s \ {c} \in SUBSET S /\ Cardinality(s \ {c}) = n
    BY ONLY <2>2, OneLess, IsFiniteSet(S), s \in SUBSET S, Cardinality(s) = n + 1, n \in Nat
  <2>5. g[s \ {c}] \in Nat
    BY ONLY <1>4, <2>4
  <2>6. v[c] \in Nat
    BY ONLY <2>2, s \in SUBSET S, v \in [S -> Nat]
  <2> QED BY ONLY <2>3, <2>5, <2>6
<1>5. Nat \subseteq T
  <2> HIDE DEF T
  <2> QED BY ONLY <1>3, <1>4, SetInduction
<1>6. \A s \in SUBSET S : g[s] \in Nat
  <2> SUFFICES ASSUME NEW s \in SUBSET S PROVE g[s] \in Nat
    OBVIOUS
  <2>1. Cardinality(s) \in Nat
    BY ONLY FS_Subset, FS_CardinalityType, IsFiniteSet(S), s \in SUBSET S
  <2> QED BY ONLY <1>5, <2>1, s \in SUBSET S
<1>7. g \in [SUBSET S -> Nat]
  BY ONLY <1>2, <1>6
<1> QED BY ONLY <1>1, <1>7 DEF Sums

\* Whichever element is taken first, the sum is the same.
LEMMA TakeAny ==
  ASSUME NEW S, IsFiniteSet(S), NEW v \in [S -> Nat], NEW g, Sums(g, SUBSET S, v),
         NEW s \in SUBSET S, NEW x \in s
  PROVE  g[s] = v[x] + g[s \ {x}]
<1> DEFINE T == {n \in Nat : \A t \in SUBSET S : Cardinality(t) = n =>
                               \A y \in t : g[t] = v[y] + g[t \ {y}]}
<1>1. 0 \in T
  <2> SUFFICES ASSUME NEW t \in SUBSET S, Cardinality(t) = 0, NEW y \in t PROVE FALSE
    OBVIOUS
  <2> QED BY FS_Subset, FS_EmptySet
<1>2. ASSUME NEW n \in Nat, n \in T PROVE n + 1 \in T
  <2> SUFFICES ASSUME NEW t \in SUBSET S, Cardinality(t) = n + 1, NEW y \in t
               PROVE  g[t] = v[y] + g[t \ {y}]
    OBVIOUS
  <2> DEFINE c == First(t)
  <2>1. c \in t /\ t # {}
    BY FirstIsIn
  <2> HIDE DEF c
  <2>2. g[t] = v[c] + g[t \ {c}]
    BY <2>1 DEF Sums, c
  <2>3. CASE y = c
    BY <2>2, <2>3
  <2>4. CASE y # c
    <3>1. /\ t \ {c} \in SUBSET S /\ Cardinality(t \ {c}) = n
          /\ t \ {y} \in SUBSET S /\ Cardinality(t \ {y}) = n
      BY <2>1, OneLess
    <3>2. y \in t \ {c} /\ c \in t \ {y}
      BY <2>1, <2>4
    <3>3. \A u \in SUBSET S : Cardinality(u) = n => \A z \in u : g[u] = v[z] + g[u \ {z}]
      BY <1>2
    <3>4. g[t \ {c}] = v[y] + g[(t \ {c}) \ {y}]
      BY <3>1, <3>2, <3>3
    <3>5. g[t \ {y}] = v[c] + g[(t \ {y}) \ {c}]
      BY <3>1, <3>2, <3>3
    <3>6. (t \ {c}) \ {y} = (t \ {y}) \ {c}
      OBVIOUS
    <3>7. PICK r \in Nat : r = g[(t \ {y}) \ {c}]
      BY <3>1 DEF Sums
    <3>8. PICK p \in Nat, q \in Nat : p = v[y] /\ q = v[c]
      BY <2>1
    <3>9. g[t] = q + (p + r) /\ g[t \ {y}] = q + r
      BY <2>2, <3>4, <3>5, <3>6, <3>7, <3>8
    <3>10. q + (p + r) = p + (q + r)
      OBVIOUS
    <3> QED BY <3>8, <3>9, <3>10
  <2> QED BY <2>3, <2>4
<1>3. Nat \subseteq T
  <2> HIDE DEF T
  <2> QED BY <1>1, <1>2, SetInduction
<1>4. Cardinality(s) \in Nat
  BY OneLess
<1> QED BY <1>3, <1>4

LEMMA TakeOne ==
  ASSUME NEW S, IsFiniteSet(S), NEW v \in [S -> Nat], NEW g, Sums(g, SUBSET S, v),
         NEW x \in S, NEW r, r = S \ {x}
  PROVE  g[S] = v[x] + g[r]
<1>1. S \in SUBSET S
  OBVIOUS
<1> QED BY ONLY <1>1, TakeAny, IsFiniteSet(S), v \in [S -> Nat], Sums(g, SUBSET S, v), x \in S, r = S \ {x}

\* A sum of less is not more.
LEMMA LessSumsLess ==
  ASSUME NEW S, IsFiniteSet(S), NEW v \in [S -> Nat], NEW w \in [S -> Nat],
         NEW g, Sums(g, SUBSET S, v), NEW k, Sums(k, SUBSET S, w),
         NEW s \in SUBSET S, \A x \in s : v[x] <= w[x]
  PROVE  g[s] <= k[s]
<1> DEFINE T == {n \in Nat : \A t \in SUBSET S : Cardinality(t) = n /\ t \subseteq s => g[t] <= k[t]}
<1>1. 0 \in T
  <2> SUFFICES ASSUME NEW t \in SUBSET S, Cardinality(t) = 0 PROVE g[t] <= k[t]
    OBVIOUS
  <2>1. t = {}
    BY FS_Subset, FS_EmptySet
  <2>2. g[t] = 0 /\ k[t] = 0
    BY <2>1 DEF Sums
  <2> QED BY <2>2
<1>2. ASSUME NEW n \in Nat, n \in T PROVE n + 1 \in T
  <2> SUFFICES ASSUME NEW t \in SUBSET S, Cardinality(t) = n + 1, t \subseteq s PROVE g[t] <= k[t]
    OBVIOUS
  <2> DEFINE c == First(t)
  <2>1. t # {}
    <3>1. Cardinality({}) = 0
      BY FS_EmptySet
    <3> QED BY <3>1
  <2>2. c \in t
    BY <2>1, FirstIsIn
  <2>3. g[t] = v[c] + g[t \ {c}] /\ k[t] = w[c] + k[t \ {c}]
    BY <2>1 DEF Sums
  <2> HIDE DEF c
  <2>4. t \ {c} \in SUBSET S /\ Cardinality(t \ {c}) = n /\ t \ {c} \subseteq s
    BY <2>2, OneLess
  <2>5. g[t \ {c}] <= k[t \ {c}]
    BY <1>2, <2>4
  <2>6. v[c] <= w[c] /\ v[c] \in Nat /\ w[c] \in Nat
    BY <2>2
  <2>7. g[t \ {c}] \in Nat /\ k[t \ {c}] \in Nat
    BY <2>4 DEF Sums
  <2> QED BY <2>3, <2>5, <2>6, <2>7
<1>3. Nat \subseteq T
  <2> HIDE DEF T
  <2> QED BY <1>1, <1>2, SetInduction
<1>4. Cardinality(s) \in Nat
  BY FS_Subset, FS_CardinalityType
<1> QED BY <1>3, <1>4

-----------------------------------------------------------------------------
(* The holds of a card.                                                    *)

HoldOf(d) == [a \in Appts |-> d.holds[a].amount]

LEMMA HeldIsASum ==
  ASSUME NEW d \in Docs
  PROVE  /\ HoldOf(d) \in [Appts -> Nat]
         /\ \E g : Sums(g, SUBSET Appts, HoldOf(d)) /\ HeldAmount(d) = g[Appts]
<1>1. HoldOf(d) \in [Appts -> Nat]
  BY ConstantsAssumption DEF Docs, Holds, HoldOf
<1> DEFINE v == HoldOf(d)
           iter == CHOOSE f : f = [s \in SUBSET Appts |->
                                    IF s = {} THEN 0
                                    ELSE LET x == CHOOSE x \in s : TRUE
                                         IN  d.holds[x].amount + f[s \ {x}]]
<1>2. HeldAmount(d) = iter[Appts]
  BY DEF HeldAmount, MapThenSumSet, MapThenFoldSet
<1>3. PICK g : Sums(g, SUBSET Appts, v)
  BY <1>1, SumsExist, ConstantsAssumption
<1>4. \A s \in SUBSET Appts : s # {} => v[First(s)] = d.holds[CHOOSE x \in s : TRUE].amount
  <2>1. \A s \in SUBSET Appts : s # {} => First(s) \in Appts
    BY FirstIsIn
  <2> QED BY <2>1 DEF HoldOf, First
<1>5. g = [s \in SUBSET Appts |-> IF s = {} THEN 0
                                  ELSE LET x == CHOOSE x \in s : TRUE IN d.holds[x].amount + g[s \ {x}]]
  <2> HIDE DEF v
  <2>1. \A s \in SUBSET Appts :
          g[s] = IF s = {} THEN 0 ELSE LET x == CHOOSE x \in s : TRUE IN d.holds[x].amount + g[s \ {x}]
    BY <1>3, <1>4 DEF Sums, First
  <2>2. g = [s \in SUBSET Appts |-> g[s]]
    BY <1>3 DEF Sums
  <2> QED BY <2>1, <2>2
<1>6. iter = [s \in SUBSET Appts |-> IF s = {} THEN 0
                                     ELSE LET x == CHOOSE x \in s : TRUE IN d.holds[x].amount + iter[s \ {x}]]
  BY <1>5
<1>7. Recurs(iter, SUBSET Appts, v)
  <2> HIDE DEF iter, v
  <2> QED BY <1>4, <1>6 DEF First, Recurs
<1>8. Sums(iter, SUBSET Appts, v)
  <2> HIDE DEF iter, v
  <2> QED BY <1>1, <1>7, SumsAreNatural, ConstantsAssumption DEF v
<1> QED BY <1>1, <1>2, <1>8

LEMMA HeldTyped == ASSUME NEW d \in Docs PROVE HeldAmount(d) \in Nat
BY HeldIsASum DEF Sums

LEMMA HeldIsLess ==
  ASSUME NEW d \in Docs, NEW e \in Docs, \A a \in Appts : e.holds[a].amount <= d.holds[a].amount
  PROVE  HeldAmount(e) <= HeldAmount(d)
<1>1. PICK g : Sums(g, SUBSET Appts, HoldOf(e)) /\ HeldAmount(e) = g[Appts]
  BY HeldIsASum
<1>2. PICK k : Sums(k, SUBSET Appts, HoldOf(d)) /\ HeldAmount(d) = k[Appts]
  BY HeldIsASum
<1>3. \A a \in Appts : HoldOf(e)[a] <= HoldOf(d)[a]
  BY DEF HoldOf
<1>4. HoldOf(e) \in [Appts -> Nat] /\ HoldOf(d) \in [Appts -> Nat]
  BY HeldIsASum
<1>5. g[Appts] <= k[Appts]
  BY <1>1, <1>2, <1>3, <1>4, LessSumsLess, ConstantsAssumption
<1> QED BY <1>1, <1>2, <1>5

\* Only the hold of one appointment counts differently.
LEMMA HeldChanges ==
  ASSUME NEW d \in Docs, NEW e \in Docs, NEW a \in Appts,
         \A b \in Appts \ {a} : e.holds[b].amount = d.holds[b].amount
  PROVE  HeldAmount(e) = HeldAmount(d) - d.holds[a].amount + e.holds[a].amount
<1> DEFINE v == HoldOf(e)
           w == HoldOf(d)
           rest == Appts \ {a}
<1>1. PICK g : Sums(g, SUBSET Appts, v) /\ HeldAmount(e) = g[Appts]
  BY HeldIsASum
<1>2. PICK k : Sums(k, SUBSET Appts, w) /\ HeldAmount(d) = k[Appts]
  BY HeldIsASum
<1>3. v \in [Appts -> Nat] /\ w \in [Appts -> Nat]
  BY HeldIsASum
<1>4. \A b \in rest : v[b] <= w[b] /\ w[b] <= v[b]
  <2>1. \A b \in rest : v[b] = w[b]
    BY DEF HoldOf
  <2>2. \A b \in rest : v[b] \in Nat /\ w[b] \in Nat
    BY <1>3
  <2> HIDE DEF v, w, rest
  <2> QED BY <2>1, <2>2
<1>5. v[a] = e.holds[a].amount /\ w[a] = d.holds[a].amount
  BY DEF HoldOf
<1>6. rest \in SUBSET Appts
  OBVIOUS
<1> HIDE DEF v, w, rest
<1>7. g[rest] <= k[rest] /\ k[rest] <= g[rest]
  <2>1. IsFiniteSet(Appts) /\ Sums(g, SUBSET Appts, v) /\ Sums(k, SUBSET Appts, w)
    BY <1>1, <1>2, ConstantsAssumption
  <2>2. g[rest] <= k[rest]
    BY ONLY <2>1, <1>3, <1>4, <1>6, LessSumsLess
  <2>3. k[rest] <= g[rest]
    BY ONLY <2>1, <1>3, <1>4, <1>6, LessSumsLess
  <2> QED BY <2>2, <2>3
<1>8. g[rest] \in Nat /\ k[rest] \in Nat
  BY <1>1, <1>2, <1>6 DEF Sums
<1>9. g[Appts] = v[a] + g[rest] /\ k[Appts] = w[a] + k[rest]
  <2>0. IsFiniteSet(Appts) /\ Sums(g, SUBSET Appts, v) /\ Sums(k, SUBSET Appts, w)
    BY <1>1, <1>2, ConstantsAssumption
  <2>1. Appts \in SUBSET Appts /\ a \in Appts /\ rest = Appts \ {a}
    BY DEF rest
  <2>2. g[Appts] = v[a] + g[rest]
    BY ONLY <2>0, <2>1, <1>3, TakeOne
  <2>3. k[Appts] = w[a] + k[rest]
    BY ONLY <2>0, <2>1, <1>3, TakeOne
  <2> QED BY <2>2, <2>3
<1>10. v[a] \in Nat /\ w[a] \in Nat
  BY <1>3
<1> QED BY <1>1, <1>2, <1>5, <1>7, <1>8, <1>9, <1>10

LEMMA NothingHeld == NoCard \in Docs /\ HeldAmount(NoCard) = 0
<1>1. NoCard \in Docs
  BY ConstantsAssumption DEF NoCard, NoHold, Docs, Holds, Statuses
<1> DEFINE v == HoldOf(NoCard)
           k == [s \in SUBSET Appts |-> 0]
<1>2. PICK g : Sums(g, SUBSET Appts, v) /\ HeldAmount(NoCard) = g[Appts]
  BY <1>1, HeldIsASum
<1>3. v \in [Appts -> Nat] /\ \A a \in Appts : v[a] = 0
  BY DEF HoldOf, NoCard, NoHold
<1> HIDE DEF v
<1>4. Sums(k, SUBSET Appts, v)
  <2>1. \A s \in SUBSET Appts : s # {} => v[First(s)] + 0 = 0 /\ s \ {First(s)} \in SUBSET Appts
    BY <1>3, FirstIsIn
  <2>2. \A s \in SUBSET Appts : s # {} => v[First(s)] + k[s \ {First(s)}] = 0
    BY <2>1
  <2> QED BY <2>2 DEF Sums
<1>5. k[Appts] = 0
  OBVIOUS
<1> HIDE DEF k
<1>6. g[Appts] <= k[Appts]
  BY <1>2, <1>3, <1>4, LessSumsLess, ConstantsAssumption
<1>7. g[Appts] \in Nat
  BY <1>2 DEF Sums
<1> QED BY <1>1, <1>2, <1>5, <1>6, <1>7

-----------------------------------------------------------------------------
(* A card is not overdrawn.  Every copy that a handler has is covered, not *)
(* only what is stored, whether its version is still the stored one.       *)

Covered(d) == d \in Docs /\ d.redeemed + HeldAmount(d) <= Amount

Handles == [step : Steps, doc : Docs, appt : Appts, amount : 0..Amount]

CardInv ==
  /\ Covered(card)
  /\ stripe \in {"none", "open", "paid", "expired"} /\ event \in BOOLEAN /\ expired \in BOOLEAN
  /\ proc \in [Handlers -> Handles]
  /\ \A h \in Handlers : Covered(proc[h].doc)
  /\ current \in SUBSET Handlers

LEMMA StatusIsCovered ==
  ASSUME NEW d, Covered(d), NEW s \in Statuses
  PROVE  Covered([d EXCEPT !.status = s])
<1> DEFINE e == [d EXCEPT !.status = s]
<1>1. d \in Docs /\ d.redeemed + HeldAmount(d) <= Amount
  BY DEF Covered
<1>2. e \in Docs /\ e.redeemed = d.redeemed /\ e.holds = d.holds
  BY <1>1 DEF Docs
<1> HIDE DEF e
<1>3. \A a \in Appts : e.holds[a].amount <= d.holds[a].amount
  BY <1>1, <1>2, ConstantsAssumption DEF Docs, Holds
<1>4. HeldAmount(e) <= HeldAmount(d)
  BY <1>1, <1>2, <1>3, HeldIsLess
<1>5. d.redeemed \in Nat /\ HeldAmount(d) \in Nat /\ HeldAmount(e) \in Nat
  BY <1>1, <1>2, HeldTyped DEF Docs
<1>6. e.redeemed + HeldAmount(e) <= Amount
  BY <1>1, <1>2, <1>4, <1>5, ConstantsAssumption
<1> QED BY <1>2, <1>6 DEF Covered, e

LEMMA RemainingIsLeft ==
  ASSUME NEW d, Covered(d)
  PROVE  /\ RemainingBalance(d) \in 0..Amount
         /\ \A n \in Nat : n <= RemainingBalance(d) => n + d.redeemed + HeldAmount(d) <= Amount
<1>1. d.redeemed \in Nat /\ HeldAmount(d) \in Nat /\ Amount \in Nat
  BY HeldTyped, ConstantsAssumption DEF Covered, Docs
<1>2. PICK q \in Nat, r \in Nat : q = d.redeemed /\ r = HeldAmount(d)
  BY <1>1
<1>3. RemainingBalance(d) = IF Amount - q - r > 0 THEN Amount - q - r ELSE 0
  BY <1>2 DEF RemainingBalance
<1>4. q + r <= Amount
  BY <1>2 DEF Covered
<1>5. RemainingBalance(d) = Amount - q - r
  BY <1>1, <1>3, <1>4
<1>6. \A n \in Nat : n <= Amount - q - r => n + q + r <= Amount
  BY <1>1
<1>7. Amount - q - r \in 0..Amount
  BY <1>1, <1>4
<1> QED BY <1>2, <1>5, <1>6, <1>7

LEMMA RedeemedIsCovered ==
  ASSUME NEW d, Covered(d), NEW n \in 0..Amount, n <= RemainingBalance(d)
  PROVE  Covered(Redeemed(d, n))
<1> DEFINE e == Redeemed(d, n)
<1>1. d \in Docs /\ n + d.redeemed + HeldAmount(d) <= Amount
  BY RemainingIsLeft DEF Covered
<1>2. d.redeemed \in Nat /\ HeldAmount(d) \in Nat /\ Amount \in Nat /\ n \in Nat
  BY <1>1, HeldTyped, ConstantsAssumption DEF Docs
<1>3. d.redeemed + n \in 0..Amount
  BY <1>1, <1>2
<1>4. e \in Docs /\ e.redeemed = d.redeemed + n /\ e.holds = d.holds
  BY <1>1, <1>3 DEF Redeemed, Docs, Statuses
<1> HIDE DEF e
<1>5. \A a \in Appts : e.holds[a].amount <= d.holds[a].amount
  BY <1>1, <1>4, ConstantsAssumption DEF Docs, Holds
<1>6. HeldAmount(e) <= HeldAmount(d) /\ HeldAmount(e) \in Nat
  BY <1>1, <1>4, <1>5, HeldIsLess, HeldTyped
<1>7. e.redeemed + HeldAmount(e) <= Amount
  BY <1>1, <1>2, <1>4, <1>6
<1> QED BY <1>4, <1>7 DEF Covered, e

\* A hold of no more than what is left takes the place of the appointment's own.
LEMMA ReservedIsCovered ==
  ASSUME NEW d, Covered(d), NEW a \in Appts, NEW n \in 0..Amount, n <= RemainingBalance(d)
  PROVE  Covered(Reserved(d, a, n))
<1> DEFINE e == Reserved(d, a, n)
<1>1. d \in Docs /\ n + d.redeemed + HeldAmount(d) <= Amount
  BY RemainingIsLeft DEF Covered
<1>2. d.redeemed \in Nat /\ HeldAmount(d) \in Nat /\ Amount \in Nat /\ n \in Nat
      /\ d.holds[a].amount \in Nat
  BY <1>1, HeldTyped, ConstantsAssumption DEF Docs, Holds
<1>3. [amount |-> n, left |-> HoldTicks] \in Holds
  BY <1>2, ConstantsAssumption DEF Holds
<1>4. /\ e \in Docs /\ e.redeemed = d.redeemed /\ e.holds[a].amount = n
      /\ \A b \in Appts \ {a} : e.holds[b].amount = d.holds[b].amount
  BY <1>1, <1>3 DEF Reserved, Docs
<1> HIDE DEF e
<1>5. HeldAmount(e) = HeldAmount(d) - d.holds[a].amount + n
  BY <1>1, <1>4, HeldChanges
<1>6. e.redeemed + HeldAmount(e) <= Amount
  BY <1>1, <1>2, <1>4, <1>5
<1> QED BY <1>4, <1>6 DEF Covered, e

LEMMA ReleasedIsCovered ==
  ASSUME NEW d, Covered(d), NEW a \in Appts
  PROVE  Covered(Released(d, a))
<1> DEFINE e == Released(d, a)
<1>1. d \in Docs /\ d.redeemed + HeldAmount(d) <= Amount /\ Amount \in Nat
  BY ConstantsAssumption DEF Covered
<1>2. NoHold \in Holds /\ NoHold.amount = 0
  BY <1>1, ConstantsAssumption DEF NoHold, Holds
<1>3. /\ e \in Docs /\ e.redeemed = d.redeemed
      /\ \A b \in Appts : e.holds[b] = IF b = a THEN NoHold ELSE d.holds[b]
  BY <1>1, <1>2 DEF Released, Docs
<1> HIDE DEF e
<1>4. \A b \in Appts : d.holds[b].amount \in Nat
  BY <1>1 DEF Docs, Holds
<1>5. \A b \in Appts : e.holds[b].amount <= d.holds[b].amount
  BY <1>2, <1>3, <1>4
<1>6. HeldAmount(e) <= HeldAmount(d) /\ HeldAmount(e) \in Nat /\ HeldAmount(d) \in Nat /\ d.redeemed \in Nat
  BY <1>1, <1>3, <1>5, HeldIsLess, HeldTyped DEF Docs
<1>7. e.redeemed + HeldAmount(e) <= Amount
  BY <1>1, <1>3, <1>6
<1> QED BY <1>3, <1>7 DEF Covered, e

LEMMA AgedIsCovered ==
  ASSUME NEW d, Covered(d)
  PROVE  Covered(Aged(d))
<1> DEFINE e == Aged(d)
<1>1. d \in Docs /\ d.redeemed + HeldAmount(d) <= Amount /\ Amount \in Nat /\ HoldTicks \in Nat
  BY ConstantsAssumption DEF Covered
<1>2. NoHold \in Holds /\ NoHold.amount = 0
  BY <1>1 DEF NoHold, Holds
<1>3. ASSUME NEW b \in Appts
      PROVE  LET x == IF d.holds[b].left > 1 THEN [d.holds[b] EXCEPT !.left = @ - 1] ELSE NoHold
             IN  x \in Holds /\ x.amount <= d.holds[b].amount
  <2>1. d.holds[b] \in Holds
    BY <1>1 DEF Docs
  <2>2. PICK m \in 0..Amount, t \in 0..HoldTicks : d.holds[b] = [amount |-> m, left |-> t]
    BY <2>1 DEF Holds
  <2>3. CASE t > 1
    <3>1. t - 1 \in 0..HoldTicks
      BY <1>1, <2>3
    <3>2. [d.holds[b] EXCEPT !.left = @ - 1] = [amount |-> m, left |-> t - 1]
      BY <2>2
    <3>3. [amount |-> m, left |-> t - 1] \in Holds
      BY <3>1 DEF Holds
    <3> QED BY <2>2, <2>3, <3>2, <3>3
  <2>4. CASE ~(t > 1)
    BY <1>2, <2>2, <2>4
  <2> QED BY <2>3, <2>4
<1>4. /\ e.holds = [b \in Appts |-> IF d.holds[b].left > 1 THEN [d.holds[b] EXCEPT !.left = @ - 1]
                                    ELSE NoHold]
      /\ e.redeemed = d.redeemed /\ e.status = d.status /\ e = [d EXCEPT !.holds = e.holds]
  BY <1>1 DEF Aged, Docs
<1> HIDE DEF e
<1>5. e.holds \in [Appts -> Holds] /\ \A b \in Appts : e.holds[b].amount <= d.holds[b].amount
  BY <1>3, <1>4
<1>6. e \in Docs
  BY <1>1, <1>4, <1>5 DEF Docs
<1>7. HeldAmount(e) <= HeldAmount(d) /\ HeldAmount(e) \in Nat /\ HeldAmount(d) \in Nat /\ d.redeemed \in Nat
  BY <1>1, <1>5, <1>6, HeldIsLess, HeldTyped DEF Docs
<1>8. e.redeemed + HeldAmount(e) <= Amount
  BY <1>1, <1>4, <1>7
<1> QED BY <1>6, <1>8 DEF Covered, e

-----------------------------------------------------------------------------
(* Every step keeps the card and the copies covered.                       *)

LEMMA IdleIsCovered ==
  /\ Covered(NoCard) /\ NoAppt \in Appts
  /\ Idle \in Handles /\ Idle.doc = NoCard
<1>1. NoCard \in Docs /\ NoCard.redeemed = 0 /\ HeldAmount(NoCard) = 0
  BY NothingHeld DEF NoCard
<1>2. NoAppt \in Appts /\ Amount \in Nat
  BY ConstantsAssumption DEF NoAppt, Idle
<1> QED BY <1>1, <1>2 DEF Covered, Idle, NoAppt, Steps, Handles

\* (What a document is worth reads no variable.)
LEMMA HeldSame == ASSUME NEW STATE d, d' = d PROVE Covered(d)' <=> Covered(d)
BY DEF Covered, HeldAmount, MapThenSumSet, MapThenFoldSet

LEMMA CoveredLater ==
  ASSUME NEW STATE d
  PROVE  Covered(d)' <=> Covered(d')
BY DEF Covered, HeldAmount, MapThenSumSet, MapThenFoldSet

\* One handler moves; the card is as it was, or its copy.
LEMMA HandlerKeeps ==
  ASSUME CardInv, NEW h \in Handlers, NEW p \in Handles, Covered(p.doc), proc' = [proc EXCEPT ![h] = p],
         card' \in {card, proc[h].doc}, current' \subseteq current \cup {h},
         UNCHANGED <<stripe, expired>>, event' \in BOOLEAN
  PROVE  CardInv'
<1>1. proc' \in [Handlers -> Handles] /\ \A k \in Handlers : proc'[k].doc \in {p.doc, proc[k].doc}
  BY DEF CardInv
<1>2. Covered(card)' /\ \A k \in Handlers : Covered(proc[k].doc)'
  BY <1>1, HeldSame DEF CardInv
<1> QED BY <1>1, <1>2 DEF CardInv, Handles

\* No more than one handler's request ends.
LEMMA EndsCovered ==
  ASSUME CardInv, NEW h \in Handlers, proc' = [proc EXCEPT ![h] = Idle],
         card' \in {card, proc[h].doc}, current' \subseteq current \cup {h},
         UNCHANGED <<stripe, expired>>, event' \in BOOLEAN
  PROVE  CardInv'
BY IdleIsCovered, HandlerKeeps

\* A handler goes to another step, with the copy it has or with none.
LEMMA GoesOnCovered ==
  ASSUME CardInv, NEW h \in Handlers, NEW s \in Steps, NEW d, d \in {proc[h].doc, NoCard},
         proc' = [proc EXCEPT ![h] = [proc[h] EXCEPT !.step = s, !.doc = d]],
         card' \in {card, proc[h].doc}, current' \subseteq current \cup {h},
         UNCHANGED <<stripe, expired, event>>
  PROVE  CardInv'
<1> DEFINE p == [proc[h] EXCEPT !.step = s, !.doc = d]
<1>1. proc[h] \in Handles /\ Covered(d) /\ d \in Docs /\ event' \in BOOLEAN
  BY IdleIsCovered DEF CardInv, Covered
<1>2. p \in Handles /\ p.doc = d
  BY <1>1 DEF Handles
<1> HIDE DEF p
<1>3. proc' = [proc EXCEPT ![h] = p]
  BY DEF p
<1> QED BY <1>1, <1>2, <1>3, HandlerKeeps

LEMMA FetchCovered ==
  ASSUME CardInv, NEW h \in Handlers, NEW s \in Steps, NEW d, Covered(d), NEW a \in Appts,
         NEW n \in 0..Amount, Fetch(h, s, d, a, n), UNCHANGED <<card, stripe, expired>>, event' = event
  PROVE  CardInv'
<1> DEFINE p == [step |-> s, doc |-> d, appt |-> a, amount |-> n]
<1>1. p \in Handles /\ p.doc = d /\ event' \in BOOLEAN
  BY DEF CardInv, Covered, Handles
<1> HIDE DEF p
<1>2. proc' = [proc EXCEPT ![h] = p] /\ current' = current \cup {h}
  BY DEF Fetch, p
<1> QED BY <1>1, <1>2, HandlerKeeps

\* A copy is saved, or refused, and the request ends.
LEMMA AttemptCovered ==
  ASSUME CardInv, NEW h \in Handlers, UNCHANGED <<stripe, expired>>, event' \in BOOLEAN,
         \/ Save(h) /\ proc' = [proc EXCEPT ![h] = Idle]
         \/ VersionError(h) /\ End(h)
  PROVE  CardInv'
BY EndsCovered DEF Save, VersionError, End

LEMMA EndCovered ==
  ASSUME CardInv, NEW h \in Handlers, End(h), UNCHANGED <<card, stripe, expired, event>>
  PROVE  CardInv'
<1>1. event' \in BOOLEAN
  BY DEF CardInv
<1> QED BY <1>1, EndsCovered DEF End

LEMMA BuyCovered == ASSUME CardInv, NEW h \in Handlers, Buy(h) PROVE CardInv'
<1>0. /\ {"confirm", "webhook", "check", "cancel"} \subseteq Steps /\ NoAppt \in Appts /\ 0 \in 0..Amount
      /\ Covered(card) /\ {"sent", "cancelled"} \subseteq Statuses /\ event \in BOOLEAN
  <2>1. 0 \in 0..Amount
    BY ConstantsAssumption
  <2>2. Covered(card) /\ event \in BOOLEAN
    BY DEF CardInv
  <2> QED BY <2>1, <2>2, IdleIsCovered DEF Steps, Statuses
<1>1. ASSUME NEW s \in Steps, NEW t \in {"sent", "cancelled"}, UNCHANGED <<card, stripe, expired, event>>,
             Fetch(h, s, [card EXCEPT !.status = t], NoAppt, 0)
      PROVE  CardInv'
  <2>1. Covered([card EXCEPT !.status = t])
    BY <1>0, StatusIsCovered
  <2> QED BY <1>0, <1>1, <2>1, FetchCovered
<1>2. ASSUME UNCHANGED <<card, stripe, expired, proc, current>>, event' = FALSE
      PROVE  CardInv'
  BY <1>2, HeldSame DEF CardInv
<1>3. CASE Confirm(h) \/ Webhook(h) \/ WebhookExpired(h)
  BY <1>0, <1>1, <1>2, <1>3 DEF Confirm, Webhook, WebhookExpired, Finalise
<1>4. CASE ConfirmSave(h) \/ CancelSave(h)
  BY <1>0, <1>4, AttemptCovered DEF ConfirmSave, CancelSave
<1>5. CASE WebhookSave(h)
  <2>1. event' \in BOOLEAN
    BY <1>0, <1>5 DEF WebhookSave
  <2> QED BY <1>5, <2>1, AttemptCovered DEF WebhookSave
<1>6. CASE CancelRead(h)
  BY <1>0, <1>1, <1>6 DEF CancelRead
<1>7. CASE CancelCheck(h)
  <2>1. CASE End(h)
    BY <1>7, <2>1, EndCovered DEF CancelCheck
  <2>2. CASE proc' = [proc EXCEPT ![h].step = "cancel"] /\ UNCHANGED current
    <3>1. proc' = [proc EXCEPT ![h] = [proc[h] EXCEPT !.step = "cancel", !.doc = proc[h].doc]]
      BY <2>2 DEF CardInv, Handles
    <3> QED BY <1>0, <1>7, <2>2, <3>1, GoesOnCovered DEF CancelCheck
  <2> QED BY <1>7, <2>1, <2>2 DEF CancelCheck
<1> QED BY <1>3, <1>4, <1>5, <1>6, <1>7 DEF Buy

LEMMA SpendCovered == ASSUME CardInv, NEW h \in Handlers, Spend(h) PROVE CardInv'
<1>0. /\ {"redeem", "reserve", "reread", "reserve again", "stripe", "release", "unhold"} \subseteq Steps
      /\ NoAppt \in Appts /\ Covered(card) /\ event \in BOOLEAN /\ Amount \in Nat
      /\ proc[h].appt \in Appts /\ proc[h].amount \in 0..Amount /\ 0 \in 0..Amount
      /\ \A n \in 1..Amount : n \in 0..Amount
  <2>1. Amount \in Nat /\ 0 \in 0..Amount /\ \A n \in 1..Amount : n \in 0..Amount
    BY ConstantsAssumption
  <2>2. Covered(card) /\ event \in BOOLEAN /\ proc[h].appt \in Appts /\ proc[h].amount \in 0..Amount
    BY DEF CardInv, Handles
  <2> QED BY <2>1, <2>2, IdleIsCovered DEF Steps
<1>1. ASSUME NEW n \in 1..Amount, RedeemRead(h, n)
      PROVE  CardInv'
  <2>0. n \in 0..Amount
    BY <1>0
  <2>1. Covered(Redeemed(card, n))
    BY <1>0, <1>1, <2>0, RedeemedIsCovered DEF RedeemRead
  <2> QED BY <1>0, <1>1, <2>0, <2>1, FetchCovered DEF RedeemRead
<1>2. CASE RedeemSave(h)
  BY <1>0, <1>2, AttemptCovered DEF RedeemSave
<1>3. ASSUME NEW a \in Appts, NEW n \in 0..Amount, NEW s \in Steps, n <= RemainingBalance(card),
             Fetch(h, s, Reserved(card, a, n), a, n), UNCHANGED <<card, stripe, expired, event>>
      PROVE  CardInv'
  <2>1. Covered(Reserved(card, a, n))
    BY <1>0, <1>3, ReservedIsCovered
  <2> QED BY <1>3, <2>1, FetchCovered
<1>4. ASSUME NEW a \in Appts, NEW price \in 1..Amount, ReserveRead(h, a, price)
      PROVE  CardInv'
  <2> DEFINE n == IF price < RemainingBalance(card) THEN price ELSE RemainingBalance(card)
  <2>1. RemainingBalance(card) \in 0..Amount
    BY <1>0, RemainingIsLeft
  <2>2. Fetch(h, "reserve", Reserved(card, a, n), a, n) /\ UNCHANGED <<card, stripe, expired, event>>
    BY <1>4 DEF ReserveRead
  <2>3. n \in 0..Amount /\ n <= RemainingBalance(card)
    <3>1. PICK r \in 0..Amount : r = RemainingBalance(card)
      BY <2>1
    <3>2. Amount \in Nat /\ price \in 0..Amount
      BY <1>0
    <3>3. \A m \in 0..Amount : LET q == IF m < r THEN m ELSE r IN q \in 0..Amount /\ q <= r
      BY ONLY <3>2, r \in 0..Amount
    <3> QED BY <3>1, <3>2, <3>3
  <2> HIDE DEF n
  <2> QED BY <1>0, <1>3, <2>2, <2>3
<1>5. CASE ReserveSave(h)
  <2>1. CASE Save(h) /\ proc' = [proc EXCEPT ![h].step = "stripe", ![h].doc = NoCard]
    <3>1. proc' = [proc EXCEPT ![h] = [proc[h] EXCEPT !.step = "stripe", !.doc = NoCard]]
      BY <2>1 DEF CardInv, Handles
    <3> QED BY <1>0, <1>5, <2>1, <3>1, GoesOnCovered DEF ReserveSave, Save
  <2>2. CASE VersionError(h) /\ End(h)
    BY <1>5, <2>2, EndCovered DEF ReserveSave, VersionError
  <2>3. CASE VersionError(h) /\ UNCHANGED current
             /\ proc' = [proc EXCEPT ![h].step = "reread", ![h].doc = NoCard]
    <3>1. proc' = [proc EXCEPT ![h] = [proc[h] EXCEPT !.step = "reread", !.doc = NoCard]]
      BY <2>3 DEF CardInv, Handles
    <3> QED BY <1>0, <1>5, <2>3, <3>1, GoesOnCovered DEF ReserveSave, VersionError
  <2> QED BY <1>5, <2>1, <2>2, <2>3 DEF ReserveSave
<1>6. CASE ReserveReread(h)
  <2>1. CASE End(h)
    BY <1>6, <2>1, EndCovered DEF ReserveReread
  <2>2. CASE /\ proc[h].amount <= RemainingBalance(card)
             /\ Fetch(h, "reserve again", Reserved(card, proc[h].appt, proc[h].amount),
                      proc[h].appt, proc[h].amount)
    BY <1>0, <1>3, <1>6, <2>2 DEF ReserveReread
  <2> QED BY <1>6, <2>1, <2>2 DEF ReserveReread
<1>7. CASE CheckoutSession(h)
  <2>1. CASE proc' = [proc EXCEPT ![h].step = "release"] /\ UNCHANGED current
    <3>1. proc' = [proc EXCEPT ![h] = [proc[h] EXCEPT !.step = "release", !.doc = proc[h].doc]]
      BY <2>1 DEF CardInv, Handles
    <3> QED BY <1>0, <1>7, <2>1, <3>1, GoesOnCovered DEF CheckoutSession
  <2> QED BY <1>7, <2>1, EndCovered DEF CheckoutSession
<1>8. CASE ReleaseRead(h)
  <2>1. Covered(Released(card, proc[h].appt))
    BY <1>0, ReleasedIsCovered
  <2> QED BY <1>0, <1>8, <2>1, FetchCovered DEF ReleaseRead
<1>9. CASE ReleaseSave(h)
  BY <1>0, <1>9, AttemptCovered DEF ReleaseSave
<1> QED
  BY <1>1, <1>2, <1>4, <1>5, <1>6, <1>7, <1>8, <1>9 DEF Spend

LEMMA StepCovered == ASSUME CardInv, [Next]_vars PROVE CardInv'
<1>0. {"none", "pending", "sent", "redeemed", "cancelled"} \subseteq Statuses
  BY DEF Statuses
<1>1. ASSUME NEW s \in Statuses, card' = [card EXCEPT !.status = s],
             UNCHANGED <<stripe, event, proc, current, expired>>
      PROVE  CardInv'
  <2>1. Covered([card EXCEPT !.status = s])
    BY StatusIsCovered DEF CardInv
  <2>2. Covered(card')
    BY <1>1, <2>1
  <2>3. \A h \in Handlers : Covered(proc'[h].doc)
    BY <1>1 DEF CardInv
  <2> QED BY <1>1, <2>2, <2>3, CoveredLater DEF CardInv, Handles
<1>2. CASE CreatePending \/ CreateSent \/ SessionRefused
  BY <1>0, <1>1, <1>2 DEF CreatePending, CreateSent, SessionRefused
<1>3. ASSUME UNCHANGED <<card, proc, current>>, stripe' \in {"none", "open", "paid", "expired"},
             event' \in BOOLEAN, expired' \in BOOLEAN
      PROVE  CardInv'
  BY <1>3, HeldSame DEF CardInv
<1>4. CASE SessionCreated \/ Pay \/ SessionExpires \/ Expire \/ UNCHANGED vars
  BY <1>3, <1>4 DEF SessionCreated, Pay, SessionExpires, Expire, vars, CardInv
<1>5. CASE Tick
  <2>1. Covered(card') /\ UNCHANGED <<stripe, event, current, expired>>
    BY <1>5, AgedIsCovered DEF Tick, CardInv
  <2>2. ASSUME NEW h \in Handlers
        PROVE  /\ proc'[h] \in Handles
               /\ Covered(proc'[h].doc)
    <3> DEFINE d == Aged(proc[h].doc)
    <3>1. proc'[h] = [proc[h] EXCEPT !.doc = d]
      BY <1>5 DEF Tick
    <3>2. Covered(d) /\ d \in Docs
      BY AgedIsCovered DEF CardInv, Covered
    <3>3. proc[h] \in Handles
      BY DEF CardInv
    <3> HIDE DEF d
    <3> QED BY <3>1, <3>2, <3>3 DEF Handles
  <2>3. proc' = [h \in Handlers |-> proc'[h]]
    BY <1>5 DEF Tick
  <2>4. proc' \in [Handlers -> Handles]
    BY <2>2, <2>3
  <2> QED BY <2>1, <2>2, <2>4, CoveredLater DEF CardInv, Handles
<1>6. ASSUME NEW h \in Handlers, HandlerCrash(h)
      PROVE  CardInv'
  BY <1>6, EndCovered DEF HandlerCrash
<1> QED
  BY <1>2, <1>4, <1>5, <1>6, BuyCovered, SpendCovered DEF Next

LEMMA StartsCovered == Init => CardInv
BY IdleIsCovered DEF Init, CardInv

\* The amount of a card is never spent twice: what is redeemed and what live holds
\* promise to checkouts stays within it (models/GiftCard.js redeem,
\* reserveForAppointment, routes/checkout.js), for any amount, any number of
\* appointments and of handlers at once.
THEOREM CardsAreCovered == Spec => []NeverOverdrawn
<1>1. CardInv => NeverOverdrawn
  BY DEF CardInv, Covered, NeverOverdrawn
<1>2. CardInv /\ [Next]_vars => CardInv'
  BY StepCovered
<1> QED BY <1>1, <1>2, StartsCovered, PTL DEF Spec

-----------------------------------------------------------------------------
(* Letters and records.  A letter that will be recorded ends its function  *)
(* when it is refused, and is in the sender's list once: what is left to   *)
(* send are the letters of `records` that are not `sent` (Lists).          *)

Letters == [to : Addressees, thrown : BOOLEAN]

\* A list of letters that sends those of R, each once, and records no others.
Lists(s, R) ==
  /\ s \in Seq(Letters)
  /\ \A i \in 1..Len(s) : s[i].to \in Recorded => s[i].thrown /\ s[i].to \in R
  /\ \A i, j \in 1..Len(s) : s[i].to \in Recorded /\ s[i].to = s[j].to => i = j
  /\ \A r \in R : \E i \in 1..Len(s) : s[i].to = r

Sending ==
  \A h \in Senders :
    /\ sender[h].step \in {"idle", "read", "found"} =>
         sender[h].records = {} /\ sender[h].sent = {} /\ sender[h].todo = <<>>
    /\ sender[h].step = "confirming" =>
         sender[h].records = {"customer"} /\ sender[h].sent = {} /\ sender[h].todo = <<>>
    /\ sender[h].step = "send" =>
         /\ sender[h].sent \subseteq sender[h].records
         /\ Lists(sender[h].todo, sender[h].records \ sender[h].sent)

\* What has left is on the way into the records, or named as lost.
Sent ==
  /\ configured => \A h \in Senders : \A r \in sender[h].sent : mailed[r] > 0
  /\ \A r \in Recorded : mailed[r] > 0 /\ r \notin raced \cup lost =>
       r \in recorded \/ \E h \in Senders : r \in sender[h].sent

\* A letter that is not raced for is one sender's own, and not recorded yet.
Own ==
  \A r \in Recorded \ raced :
    /\ \A g, h \in Senders : r \in sender[g].records /\ r \in sender[h].records => g = h
    /\ \A h \in Senders : r \in sender[h].records => r \notin recorded

MailShape ==
  /\ configured \in BOOLEAN
  /\ recorded \in SUBSET Recorded /\ raced \in SUBSET Recorded /\ lost \in SUBSET Recorded
  /\ mailed \in [Addressees -> 0..2]
  /\ sender \in [Senders -> SenderStates]

MailInv == MailShape /\ Sending /\ Sent /\ Own /\ RecordsAreTrue

-----------------------------------------------------------------------------

LEMMA NoLetters == <<>> \in Seq(Letters) /\ Lists(<<>>, {})
BY DEF Lists

LEMMA OneLetter ==
  ASSUME NEW l \in Letters, NEW R, R = {l.to} \cap Recorded, l.to \in Recorded => l.thrown
  PROVE  Lists(<<l>>, R)
<1>1. <<l>> \in Seq(Letters) /\ Len(<<l>>) = 1 /\ <<l>>[1] = l
  OBVIOUS
<1> QED BY <1>1 DEF Lists

LEMMA MoreLetters ==
  ASSUME NEW s, NEW t, NEW R, NEW Q, Lists(s, R), Lists(t, Q), R \cap Q = {}
  PROVE  Lists(s \o t, R \cup Q)
<1>1. /\ s \in Seq(Letters) /\ t \in Seq(Letters)
      /\ s \o t \in Seq(Letters) /\ Len(s \o t) = Len(s) + Len(t)
      /\ Len(s) \in Nat /\ Len(t) \in Nat
  BY DEF Lists
<1>2. \A i \in 1..Len(s) : (s \o t)[i] = s[i]
  BY <1>1
<1>3. \A i \in 1..Len(t) : (s \o t)[Len(s) + i] = t[i]
  BY <1>1
<1>4. \A i \in 1..Len(s \o t) : \/ i \in 1..Len(s)
                                \/ i - Len(s) \in 1..Len(t) /\ i = Len(s) + (i - Len(s))
  BY <1>1
<1>5. \A i \in 1..Len(s \o t) : \/ i \in 1..Len(s) /\ (s \o t)[i] = s[i]
                                \/ i - Len(s) \in 1..Len(t) /\ (s \o t)[i] = t[i - Len(s)]
  BY <1>2, <1>3, <1>4
<1>6. ASSUME NEW i \in 1..Len(s \o t), (s \o t)[i].to \in Recorded
      PROVE  (s \o t)[i].thrown /\ (s \o t)[i].to \in R \cup Q
  BY <1>5, <1>6 DEF Lists
<1>7. ASSUME NEW i \in 1..Len(s \o t), NEW j \in 1..Len(s \o t),
             (s \o t)[i].to \in Recorded, (s \o t)[i].to = (s \o t)[j].to
      PROVE  i = j
  <2>1. CASE i \in 1..Len(s) /\ j \in 1..Len(s)
    BY <1>2, <1>7, <2>1 DEF Lists
  <2>2. CASE i - Len(s) \in 1..Len(t) /\ j - Len(s) \in 1..Len(t)
    <3>1. /\ (s \o t)[i] = t[i - Len(s)] /\ (s \o t)[j] = t[j - Len(s)]
      BY <1>3, <1>1, <2>2
    <3>2. i - Len(s) = j - Len(s)
      BY <1>7, <2>2, <3>1 DEF Lists
    <3> QED BY <1>1, <3>2
  <2>3. ASSUME NEW k \in 1..Len(s), NEW m \in 1..Len(t), s[k].to = t[m].to, s[k].to \in Recorded
        PROVE  FALSE
    BY <2>3 DEF Lists
  <2> QED BY <1>5, <1>7, <2>1, <2>2, <2>3
<1>8. ASSUME NEW r \in R \cup Q PROVE \E i \in 1..Len(s \o t) : (s \o t)[i].to = r
  <2>1. CASE r \in R
    <3>1. PICK i \in 1..Len(s) : s[i].to = r
      BY <2>1 DEF Lists
    <3> QED BY <1>1, <1>2, <3>1
  <2>2. CASE r \in Q
    <3>1. PICK i \in 1..Len(t) : t[i].to = r
      BY <2>2 DEF Lists
    <3>2. Len(s) + i \in 1..Len(s \o t)
      BY <1>1
    <3> QED BY <1>3, <3>1, <3>2
  <2> QED BY <2>1, <2>2
<1> QED BY <1>1, <1>6, <1>7, <1>8 DEF Lists

LEMMA FewerLetters ==
  ASSUME NEW s, NEW R, R \subseteq Recorded, Lists(s, R), s # <<>>
  PROVE  /\ Head(s) \in Letters /\ Lists(Tail(s), R \ {Head(s).to})
         /\ Head(s).to \in Recorded => Head(s).thrown /\ Head(s).to \in R
<1>1. /\ s \in Seq(Letters) /\ Len(s) \in Nat /\ Len(s) > 0 /\ Head(s) = s[1]
      /\ Head(s) \in Letters /\ Tail(s) \in Seq(Letters) /\ Len(Tail(s)) = Len(s) - 1
      /\ 1 \in 1..Len(s)
  BY DEF Lists
<1>2. \A i \in 1..Len(Tail(s)) : i + 1 \in 1..Len(s) /\ Tail(s)[i] = s[i + 1] /\ i + 1 # 1
  BY <1>1
<1>3. Head(s).to \in Recorded => Head(s).thrown /\ Head(s).to \in R
  BY <1>1 DEF Lists
<1>4. ASSUME NEW i \in 1..Len(Tail(s)), Tail(s)[i].to \in Recorded
      PROVE  Tail(s)[i].thrown /\ Tail(s)[i].to \in R \ {Head(s).to}
  BY <1>1, <1>2, <1>4 DEF Lists
<1>5. ASSUME NEW i \in 1..Len(Tail(s)), NEW j \in 1..Len(Tail(s)),
             Tail(s)[i].to \in Recorded, Tail(s)[i].to = Tail(s)[j].to
      PROVE  i = j
  <2>1. i + 1 = j + 1
    BY <1>2, <1>5 DEF Lists
  <2> QED BY <2>1
<1>6. ASSUME NEW r \in R \ {Head(s).to} PROVE \E i \in 1..Len(Tail(s)) : Tail(s)[i].to = r
  <2>1. PICK i \in 1..Len(s) : s[i].to = r
    BY DEF Lists
  <2>2. i - 1 \in 1..Len(Tail(s)) /\ i = (i - 1) + 1
    BY <1>1, <2>1
  <2> QED BY <1>2, <2>1, <2>2
<1> QED BY <1>1, <1>3, <1>4, <1>5, <1>6 DEF Lists

LEMMA MailStarts == MailInit => MailInv
<1> SUFFICES ASSUME MailInit PROVE MailInv
  OBVIOUS
<1>1. IdleSender \in SenderStates
  BY NoLetters DEF IdleSender, SenderStates, SenderSteps, Letters
<1>2. \A h \in Senders : sender[h] = IdleSender
  BY DEF MailInit
<1>3. MailShape
  BY <1>1 DEF MailInit, MailShape
<1>4. Sending
  <2>0. /\ IdleSender.step = "idle" /\ IdleSender.todo = <<>>
        /\ IdleSender.records = {} /\ IdleSender.sent = {}
    BY DEF IdleSender
  <2>1. \A h \in Senders : /\ sender[h].step = "idle" /\ sender[h].todo = <<>>
                           /\ sender[h].records = {} /\ sender[h].sent = {}
    BY <1>2, <2>0
  <2> QED BY <2>1 DEF Sending
<1>5. \A r \in Recorded : mailed[r] = 0
  BY DEF MailInit, Recorded, Addressees
<1>6. Sent
  BY <1>2, <1>5 DEF Sent, IdleSender
<1>7. Own
  BY <1>2 DEF Own, IdleSender
<1>8. RecordsAreTrue
  BY <1>5 DEF RecordsAreTrue, RecordedWasMailed, TwiceIsExplained, MailInit
<1> QED BY <1>3, <1>4, <1>6, <1>7, <1>8 DEF MailInv

LEMMA SenderGoes ==
  ASSUME MailInv, NEW h \in Senders, NEW s \in SenderStates, sender' = [sender EXCEPT ![h] = s]
  PROVE  /\ sender' \in [Senders -> SenderStates]
         /\ \A k \in Senders : sender'[k] = IF k = h THEN s ELSE sender[k]
BY DEF MailInv, MailShape

\* What is invariant of the counts and the records alone, when they stay.
LEMMA RecordsStay ==
  ASSUME MailInv, UNCHANGED <<configured, recorded, mailed>>,
         raced \subseteq raced', lost \subseteq lost'
  PROVE  RecordsAreTrue'
BY DEF MailInv, RecordsAreTrue, RecordedWasMailed, TwiceIsExplained

\* A sender that has sent nothing fixes what it sends, or reads.
LEMMA SetsOutKeeps ==
  ASSUME MailInv, NEW h \in Senders, NEW s \in SenderStates, sender[h].sent = {}, s.sent = {},
         sender' = [sender EXCEPT ![h] = s],
         Races(h, s.records), UNCHANGED <<configured, recorded, mailed, lost>>,
         \A r \in s.records \ raced : r \notin recorded,
         \/ s.step = "send" /\ Lists(s.todo, s.records)
         \/ s.step = "confirming" /\ s.records = {"customer"} /\ s.todo = <<>>
         \/ s.step \in {"idle", "read", "found"} /\ s.records = {} /\ s.todo = <<>>
  PROVE  MailInv'
<1>4. /\ sender' \in [Senders -> SenderStates]
      /\ \A k \in Senders : sender'[k] = IF k = h THEN s ELSE sender[k]
  BY SenderGoes
<1>5. /\ raced' \in SUBSET Recorded /\ raced \subseteq raced'
      /\ \A r \in s.records \ raced' : \A g \in Senders : r \in sender[g].records => g = h
  BY DEF Races, MailInv, MailShape, SenderStates
<1>6. MailShape'
  BY <1>4, <1>5 DEF MailInv, MailShape
<1>7. Sending'
  <2> SUFFICES ASSUME NEW k \in Senders
               PROVE  /\ sender'[k].step \in {"idle", "read", "found"} =>
                           sender'[k].records = {} /\ sender'[k].sent = {} /\ sender'[k].todo = <<>>
                      /\ sender'[k].step = "confirming" =>
                           sender'[k].records = {"customer"} /\ sender'[k].sent = {}
                           /\ sender'[k].todo = <<>>
                      /\ sender'[k].step = "send" =>
                           /\ sender'[k].sent \subseteq sender'[k].records
                           /\ Lists(sender'[k].todo, sender'[k].records \ sender'[k].sent)
    BY DEF Sending, Lists
  <2>1. CASE k = h
    <3>1. s.records \ {} = s.records
      OBVIOUS
    <3> QED BY <1>4, <2>1, <3>1
  <2>2. CASE k # h
    BY <1>4, <2>2 DEF MailInv, Sending
  <2> QED BY <2>1, <2>2
<1>8. Sent'
  <2>1. \A k \in Senders : sender'[k].sent = sender[k].sent
    BY <1>4
  <2> QED BY <1>5, <2>1 DEF MailInv, Sent
<1>9. Own'
  <2>1. ASSUME NEW r \in Recorded, r \notin raced', NEW g \in Senders, NEW k \in Senders,
               r \in sender'[g].records, r \in sender'[k].records
        PROVE  g = k
    BY <1>4, <1>5, <2>1 DEF MailInv, Own
  <2>2. ASSUME NEW r \in Recorded, r \notin raced', NEW k \in Senders, r \in sender'[k].records
        PROVE  r \notin recorded
    BY <1>4, <1>5, <2>2 DEF MailInv, Own
  <2> QED BY <2>1, <2>2 DEF Own
<1> QED BY <1>5, <1>6, <1>7, <1>8, <1>9, RecordsStay DEF MailInv

\* A sender that has sent nothing begins or ends without letters.
LEMMA ReadingKeeps ==
  ASSUME MailInv, NEW h \in Senders, NEW step \in {"read", "found", "confirming"}, Ready(h),
         NEW records \in SUBSET Recorded,
         records = IF step = "confirming" THEN {"customer"} ELSE {},
         \A r \in records \ raced : r \notin recorded,
         sender' = [sender EXCEPT ![h] = [sender[h] EXCEPT !.step = step, !.records = records]],
         Races(h, records), UNCHANGED <<configured, recorded, mailed, lost>>
  PROVE  MailInv'
<1>1. /\ sender[h] \in SenderStates /\ sender[h].todo = <<>> /\ sender[h].sent = {}
  BY DEF MailInv, MailShape, Sending, Ready
<1> DEFINE s == [sender[h] EXCEPT !.step = step, !.records = records]
<1>2. /\ s \in SenderStates /\ s.step = step /\ s.records = records
      /\ s.todo = <<>> /\ s.sent = {}
  BY <1>1 DEF SenderStates, SenderSteps
<1> HIDE DEF s
<1>3. sender' = [sender EXCEPT ![h] = s]
  BY DEF s
<1> QED BY <1>1, <1>2, <1>3, SetsOutKeeps

LEMMA LettersKeep ==
  ASSUME MailInv, NEW h \in Senders, NEW letters, NEW records \in SUBSET Recorded,
         sender[h].step # "send", SetsOut(h, letters, records), Lists(letters, records),
         UNCHANGED <<configured, recorded, mailed, lost>>,
         \A r \in records \ raced : r \notin recorded
  PROVE  MailInv'
<1> DEFINE s == [step |-> "send", todo |-> letters, records |-> records, sent |-> {}]
<1>1. s \in SenderStates /\ s.step = "send" /\ s.todo = letters /\ s.records = records /\ s.sent = {}
  BY DEF Lists, SenderStates, SenderSteps, Letters
<1>2. sender' = [sender EXCEPT ![h] = s] /\ Races(h, records)
  BY DEF SetsOut
<1>3. sender[h].sent = {}
  BY DEF MailInv, MailShape, Sending, SenderStates, SenderSteps
<1> HIDE DEF s
<1> QED BY <1>1, <1>2, <1>3, SetsOutKeeps

\* The lists of the mail functions.
LEMMA ConfirmationLists == Lists(sendConfirmationEmail, {"customer"})
<1>1. /\ CustomerConfirmation \in Letters /\ CustomerConfirmation.to = "customer"
      /\ CustomerConfirmation.thrown
      /\ SpecialistConfirmation \in Letters /\ SpecialistConfirmation.to = "specialist"
  BY DEF CustomerConfirmation, SpecialistConfirmation, Letter, Letters, Addressees
<1>2. Lists(<<CustomerConfirmation>>, {"customer"}) /\ Lists(<<SpecialistConfirmation>>, {})
  BY <1>1, OneLetter DEF Recorded
<1>3. Lists(<<CustomerConfirmation>> \o <<SpecialistConfirmation>>, {"customer"} \cup {})
  BY <1>2, MoreLetters
<1>4. \A a, b : \A c, d : <<Letter(a, c), Letter(b, d)>> = <<Letter(a, c)>> \o <<Letter(b, d)>>
  OBVIOUS
<1>5. <<CustomerConfirmation>> \o <<SpecialistConfirmation>> = sendConfirmationEmail
  BY <1>4 DEF sendConfirmationEmail, CustomerConfirmation, SpecialistConfirmation
<1> QED BY <1>3, <1>5

LEMMA CardLists ==
  /\ Lists(sendGiftCardPurchaseConfirmation, {"purchaser"})
  /\ Lists(sendGiftCardSaleNotification, {"salon"})
  /\ Lists(sendGiftCardToRecipient, {"recipient"})
<1>1. \A a \in {"purchaser", "salon", "recipient"} :
        Letter(a, TRUE) \in Letters /\ Letter(a, TRUE).to = a /\ Letter(a, TRUE).thrown
  BY DEF Letter, Letters, Addressees
<1>2. ASSUME NEW a \in {"purchaser", "salon", "recipient"} PROVE Lists(<<Letter(a, TRUE)>>, {a})
  <2>1. {a} = {Letter(a, TRUE).to} \cap Recorded
    BY <1>1 DEF Recorded
  <2> QED BY <1>1, <2>1, OneLetter
<1> QED
  BY <1>2 DEF sendGiftCardPurchaseConfirmation, sendGiftCardSaleNotification, sendGiftCardToRecipient

LEMMA UnrecordedLists ==
  ASSUME NEW a, NEW s, Lists(s, {a}) PROVE Lists(Unrecorded(a, s), {a} \ recorded)
<1>1. CASE a \in recorded
  <2>1. {a} \ recorded = {}
    BY <1>1
  <2> QED BY <1>1, <2>1, NoLetters DEF Unrecorded
<1>2. CASE a \notin recorded
  <2>1. {a} \ recorded = {a}
    BY <1>2
  <2> QED BY <1>2, <2>1 DEF Unrecorded
<1> QED BY <1>1, <1>2

LEMMA SaleLists == Lists(SaleLetters, {"purchaser", "salon"} \ recorded)
<1>1. /\ Lists(Unrecorded("purchaser", sendGiftCardPurchaseConfirmation), {"purchaser"} \ recorded)
      /\ Lists(Unrecorded("salon", sendGiftCardSaleNotification), {"salon"} \ recorded)
  BY CardLists, UnrecordedLists
<1>2. /\ ({"purchaser"} \ recorded) \cap ({"salon"} \ recorded) = {}
      /\ ({"purchaser"} \ recorded) \cup ({"salon"} \ recorded) = {"purchaser", "salon"} \ recorded
  OBVIOUS
<1> QED BY <1>1, <1>2, MoreLetters DEF SaleLetters

\* A list of letters to people whose letters nobody records.
LEMMA OtherLists ==
  ASSUME NEW s \in Seq(Letters), \A i \in 1..Len(s) : s[i].to \notin Recorded
  PROVE  Lists(s, {})
BY DEF Lists

LEMMA OtherMore ==
  ASSUME NEW s, NEW t, Lists(s, {}), Lists(t, {}) PROVE Lists(s \o t, {})
<1>1. {} \cap {} = {} /\ {} \cup {} = {}
  OBVIOUS
<1> QED BY <1>1, MoreLetters

LEMMA OtherLetter ==
  ASSUME NEW a \in Addressees \ Recorded, NEW b \in BOOLEAN
  PROVE  Lists(<<Letter(a, b)>>, {})
<1>1. Letter(a, b) \in Letters /\ Letter(a, b).to = a
  BY DEF Letter, Letters
<1>2. {} = {Letter(a, b).to} \cap Recorded
  BY <1>1
<1> QED BY <1>1, <1>2, OneLetter

LEMMA AnnouncedLists ==
  /\ Lists(sendCancellationEmails, {})
  /\ Lists(Caught(sendOrderConfirmationEmail) \o sendAdminOrderNotification, {})
  /\ Lists(sendOrderConfirmationEmail \o sendBeauticianProductOrderNotification, {})
  /\ Lists(sendOrderReadyForCollectionEmail, {})
  /\ Lists(sendSpecialistCredentialsEmail, {})
  /\ Lists(sendSeminarConfirmationEmail, {})
<1>1. \A a \in Addressees \ Recorded : \A b \in BOOLEAN : Lists(<<Letter(a, b)>>, {})
  BY OtherLetter
<1>2. {"leaver", "staff", "buyer", "seller", "admin", "collector", "new specialist", "attendee"}
        \subseteq Addressees \ Recorded
  BY DEF Addressees, Recorded
<1>3. \A a, b : \A c, d : <<Letter(a, c), Letter(b, d)>> = <<Letter(a, c)>> \o <<Letter(b, d)>>
  OBVIOUS
<1>4. Lists(sendCancellationEmails, {})
  <2>1. Lists(<<Letter("leaver", TRUE)>> \o <<Letter("staff", FALSE)>>, {})
    BY <1>1, <1>2, OtherMore
  <2> QED BY <1>3, <2>1 DEF sendCancellationEmails
<1>5. Lists(sendAdminOrderNotification, {})
  <2>1. Lists(<<Letter("admin", TRUE)>> \o <<Letter("admin", TRUE)>>, {})
    BY <1>1, <1>2, OtherMore
  <2> QED BY <1>3, <2>1 DEF sendAdminOrderNotification
<1>6. /\ Lists(sendOrderConfirmationEmail, {}) /\ Lists(sendBeauticianProductOrderNotification, {})
      /\ Lists(sendOrderReadyForCollectionEmail, {}) /\ Lists(sendSpecialistCredentialsEmail, {})
      /\ Lists(sendSeminarConfirmationEmail, {})
  BY <1>1, <1>2 DEF sendOrderConfirmationEmail, sendBeauticianProductOrderNotification,
     sendOrderReadyForCollectionEmail, sendSpecialistCredentialsEmail, sendSeminarConfirmationEmail
<1>7. Lists(Caught(sendOrderConfirmationEmail), {})
  <2> DEFINE s == Caught(sendOrderConfirmationEmail)
             l == Letter("buyer", TRUE)
  <2>1. l \in Letters /\ l.to = "buyer" /\ sendOrderConfirmationEmail = <<l>>
    BY DEF sendOrderConfirmationEmail, Letter, Letters, Addressees
  <2>2. [l EXCEPT !.thrown = FALSE] \in Letters /\ [l EXCEPT !.thrown = FALSE].to = "buyer"
    BY <2>1 DEF Letters
  <2> HIDE DEF l
  <2>3. s = [i \in 1..1 |-> [l EXCEPT !.thrown = FALSE]]
    <3>1. DOMAIN <<l>> = 1..1 /\ \A i \in 1..1 : <<l>>[i] = l
      OBVIOUS
    <3> QED BY <2>1, <3>1 DEF Caught
  <2>4. s \in [1..1 -> Letters] /\ \A i \in 1..1 : s[i].to = "buyer"
    BY <2>2, <2>3
  <2> HIDE DEF s
  <2>5. s \in Seq(Letters)
    <3>1. 1 \in Nat
      OBVIOUS
    <3> QED BY <2>4, <3>1, SeqDef, Zenon
  <2>6. Len(s) = 1
    <3>1. DOMAIN s = 1..1 /\ DOMAIN s = 1..Len(s) /\ Len(s) \in Nat
      BY <2>4, <2>5, LenProperties
    <3> QED BY <3>1
  <2>7. \A i \in 1..Len(s) : s[i].to \notin Recorded
    <3>1. "buyer" \notin Recorded
      BY DEF Recorded
    <3> QED BY <2>4, <2>6, <3>1
  <2> QED BY <2>5, <2>7, OtherLists DEF s
<1> QED BY <1>4, <1>5, <1>6, <1>7, OtherMore

\* Nobody sends, or what a sender does leaves letters and records alone.
LEMMA RestsTyped ==
  ASSUME MailInv, NEW h \in Senders, sender[h].step # "send"
  PROVE  sender[h].sent = {} /\ sender[h] \in SenderStates
BY DEF MailInv, MailShape, Sending, SenderStates, SenderSteps

LEMMA ConfirmationKeeps ==
  ASSUME MailInv, NEW h \in Senders,
         ReadAudit(h) \/ ReadAuditFirst(h) \/ SendConfirmation(h)
  PROVE  MailInv'
<1>1. {"customer"} \in SUBSET Recorded
  BY DEF Recorded
<1>2. CASE ReadAudit(h)
  BY <1>1, <1>2, ConfirmationLists, LettersKeep DEF ReadAudit, Ready
<1>3. CASE ReadAuditFirst(h)
  <2>1. sender' = [sender EXCEPT ![h] = [sender[h] EXCEPT !.step = "confirming",
                                                          !.records = {"customer"}]]
    BY <1>3 DEF ReadAuditFirst, MailInv, MailShape
  <2> QED BY <1>1, <1>3, <2>1, ReadingKeeps DEF ReadAuditFirst
<1>4. CASE SendConfirmation(h)
  <2>1. sender[h].step = "confirming" /\ sender[h].records = {"customer"}
    BY <1>4 DEF SendConfirmation, MailInv, Sending
  <2>2. \A r \in {"customer"} \ raced : r \notin recorded
    BY <1>1, <2>1 DEF MailInv, Own
  <2> QED BY <1>1, <1>4, <2>1, <2>2, ConfirmationLists, LettersKeep DEF SendConfirmation
<1> QED BY <1>2, <1>3, <1>4

LEMMA FinalizeKeeps ==
  ASSUME MailInv, NEW h \in Senders, Finalize(h) \/ FindDue(h)
  PROVE  MailInv'
<1>1. /\ Ready(h) /\ UNCHANGED <<configured, recorded, mailed, raced, lost>>
      /\ \E step \in {"read", "found"} : sender' = [sender EXCEPT ![h].step = step]
  BY DEF Finalize, FindDue
<1>2. PICK step \in {"read", "found"} : sender' = [sender EXCEPT ![h].step = step]
  BY <1>1
<1>3. sender[h] \in SenderStates /\ sender[h].records = {}
  BY <1>1 DEF MailInv, MailShape, Sending, Ready
<1> DEFINE s == [sender[h] EXCEPT !.step = step]
<1>4. /\ s \in SenderStates /\ s.step = step /\ s.records = {} /\ s.todo = sender[h].todo
      /\ s.sent = sender[h].sent
  BY <1>3 DEF SenderStates, SenderSteps
<1>5. sender' = [sender EXCEPT ![h] = s]
  BY <1>2 DEF MailInv, MailShape
<1>6. sender[h].sent = {} /\ sender[h].todo = <<>>
  BY <1>1 DEF MailInv, Sending, Ready
<1>7. Races(h, {})
  BY <1>1 DEF Races
<1> HIDE DEF s
<1> QED BY <1>1, <1>4, <1>5, <1>6, <1>7, SetsOutKeeps

LEMMA CardLettersKeep ==
  ASSUME MailInv, NEW h \in Senders, sendGiftCardEmails(h) \/ Deliver(h)
  PROVE  MailInv'
<1>1. sender[h].step # "send" /\ UNCHANGED <<configured, recorded, mailed, lost>>
  BY DEF sendGiftCardEmails, Deliver
<1>2. ASSUME NEW R \in SUBSET {"purchaser", "salon", "recipient"}, NEW letters,
             SetsOut(h, letters, R \ recorded), Lists(letters, R \ recorded)
      PROVE  MailInv'
  <2>1. R \ recorded \in SUBSET Recorded /\ \A r \in (R \ recorded) \ raced : r \notin recorded
    BY DEF Recorded
  <2> QED BY <1>1, <1>2, <2>1, LettersKeep
<1>3. \A R \in SUBSET {"recipient"} :
        /\ (({"purchaser", "salon"} \ recorded) \cap (R \ recorded)) = {}
        /\ (({"purchaser", "salon"} \ recorded) \cup (R \ recorded))
             = ({"purchaser", "salon"} \cup R) \ recorded
  OBVIOUS
<1>4. CASE sendGiftCardEmails(h)
  <2> DEFINE now == ~scheduled \/ due
             R == {r \in {"recipient"} : now}
             late == IF now THEN Unrecorded("recipient", sendGiftCardToRecipient) ELSE <<>>
  <2>1. SetsOut(h, SaleLetters \o late, ({"purchaser", "salon"} \cup R) \ recorded)
    BY <1>4 DEF sendGiftCardEmails
  <2>2. Lists(late, R \ recorded)
    <3>1. CASE now
      <4>1. R = {"recipient"} /\ late = Unrecorded("recipient", sendGiftCardToRecipient)
        BY <3>1
      <4> QED BY <4>1, CardLists, UnrecordedLists
    <3>2. CASE ~now
      <4>1. R \ recorded = {} /\ late = <<>>
        BY <3>2
      <4> QED BY <4>1, NoLetters
    <3> QED BY <3>1, <3>2
  <2>3. R \in SUBSET {"recipient"}
    OBVIOUS
  <2> HIDE DEF R, late
  <2>4. Lists(SaleLetters \o late, ({"purchaser", "salon"} \cup R) \ recorded)
    BY <1>3, <2>2, <2>3, SaleLists, MoreLetters
  <2>5. {"purchaser", "salon"} \cup R \in SUBSET {"purchaser", "salon", "recipient"}
    BY <2>3
  <2> QED BY <1>2, <2>1, <2>4, <2>5
<1>5. CASE Deliver(h)
  <2>1. CASE "recipient" \in recorded
    <3>1. /\ IdleSender \in SenderStates /\ IdleSender.step = "idle" /\ IdleSender.todo = <<>>
          /\ IdleSender.records = {} /\ IdleSender.sent = {}
      BY NoLetters DEF IdleSender, SenderStates, SenderSteps, Letters
    <3>2. sender' = [sender EXCEPT ![h] = IdleSender] /\ raced' = raced
      BY <1>5, <2>1 DEF Deliver
    <3>3. Races(h, {})
      BY <3>2 DEF Races
    <3> QED BY <1>1, <3>1, <3>2, <3>3, RestsTyped, SetsOutKeeps
  <2>2. CASE "recipient" \notin recorded
    <3>1. SetsOut(h, SaleLetters \o sendGiftCardToRecipient,
                  {"purchaser", "salon", "recipient"} \ recorded)
      BY <1>5, <2>2 DEF Deliver
    <3>2. {"recipient"} \ recorded = {"recipient"}
      BY <2>2
    <3>3. Lists(sendGiftCardToRecipient, {"recipient"} \ recorded)
      BY <3>2, CardLists
    <3>4. {"purchaser", "salon"} \cup {"recipient"} = {"purchaser", "salon", "recipient"}
      OBVIOUS
    <3>5. Lists(SaleLetters \o sendGiftCardToRecipient,
                ({"purchaser", "salon"} \cup {"recipient"}) \ recorded)
      BY <1>3, <3>3, SaleLists, MoreLetters
    <3> QED BY <1>2, <3>1, <3>4, <3>5
  <2> QED BY <2>1, <2>2
<1> QED BY <1>4, <1>5

LEMMA AnnounceKeeps ==
  ASSUME MailInv, NEW h \in Senders,
         \/ TellCancelled(h) \/ TellOrderPaid(h) \/ TellOrderConfirmed(h)
         \/ TellReady(h) \/ TellCredentials(h) \/ TellSeat(h)
  PROVE  MailInv'
<1>1. PICK t, letters : Announce(h, t, letters) /\ Lists(letters, {})
  BY AnnouncedLists DEF TellCancelled, TellOrderPaid, TellOrderConfirmed, TellReady, TellCredentials,
     TellSeat
<1> QED BY <1>1, LettersKeep DEF Announce, Ready

LEMMA IdleSenderTyped ==
  /\ IdleSender \in SenderStates /\ IdleSender.step = "idle" /\ IdleSender.todo = <<>>
  /\ IdleSender.records = {} /\ IdleSender.sent = {}
BY NoLetters DEF IdleSender, SenderStates, SenderSteps, Letters

\* What is said of a sender when only its list gets shorter or it ends.
LEMMA SendingKeeps ==
  ASSUME MailInv, NEW h \in Senders, NEW s \in SenderStates, sender' = [sender EXCEPT ![h] = s],
         \/ s = IdleSender
         \/ /\ s.step = "send" /\ s.sent \subseteq s.records /\ Lists(s.todo, s.records \ s.sent)
  PROVE  Sending'
<1>1. \A k \in Senders : sender'[k] = IF k = h THEN s ELSE sender[k]
  BY SenderGoes
<1>2. \A k \in Senders : k # h => sender'[k] = sender[k]
  BY <1>1
<1>3. sender'[h] = s
  BY <1>1
<1>4. s.step \in {"idle", "read", "found"} => s.records = {} /\ s.sent = {} /\ s.todo = <<>>
  BY IdleSenderTyped
<1>5. s.step # "confirming"
  BY IdleSenderTyped
<1>6. s.step = "send" => s.sent \subseteq s.records /\ Lists(s.todo, s.records \ s.sent)
  BY IdleSenderTyped
<1> QED BY <1>2, <1>3, <1>4, <1>5, <1>6 DEF MailInv, Sending, Lists

LEMMA MailNextKeeps ==
  ASSUME MailInv, NEW h \in Senders, MailNext(h) PROVE MailInv'
<1> DEFINE r == sender[h]
           to == Head(r.todo).to
           s == [r EXCEPT !.todo = Tail(r.todo), !.sent = r.sent \cup ({to} \cap r.records)]
<1>1. /\ r.step = "send" /\ r.todo # <<>> /\ r \in SenderStates
      /\ r.sent \subseteq r.records /\ Lists(r.todo, r.records \ r.sent)
      /\ UNCHANGED <<configured, recorded, raced, lost>>
  BY DEF MailNext, Underway, MailInv, MailShape, Sending
<1>2. r.records \in SUBSET Recorded /\ r.sent \in SUBSET Recorded
  BY <1>1 DEF SenderStates
<1>3. /\ Head(r.todo) \in Letters /\ Lists(Tail(r.todo), (r.records \ r.sent) \ {to})
      /\ to \in Recorded => to \in r.records \ r.sent
  <2>1. r.records \ r.sent \subseteq Recorded
    BY <1>2
  <2> HIDE DEF r
  <2> QED BY <1>1, <2>1, FewerLetters
<1>4. to \in Addressees
  BY <1>3 DEF Letters
<1>5. mailed' = IF configured /\ mailed[to] < 2 THEN [mailed EXCEPT ![to] = @ + 1] ELSE mailed
  BY DEF MailNext
<1>6. sender' = [sender EXCEPT ![h] = s]
  BY DEF MailNext, MailInv, MailShape
<1>7. /\ s \in SenderStates /\ s.step = "send" /\ s.records = r.records /\ s.todo = Tail(r.todo)
      /\ s.sent = r.sent \cup ({to} \cap r.records)
  <2>1. Tail(r.todo) \in Seq(Letters)
    BY <1>3 DEF Lists
  <2>2. r.sent \cup ({to} \cap r.records) \in SUBSET Recorded
    BY <1>2
  <2> DEFINE todo == Tail(r.todo)
             sent == r.sent \cup ({to} \cap r.records)
  <2> HIDE DEF todo, sent, r, to
  <2>3. todo \in Seq(Letters) /\ sent \in SUBSET Recorded
    BY <2>1, <2>2 DEF todo, sent
  <2> DEFINE e == [r EXCEPT !.todo = todo, !.sent = sent]
  <2>4. /\ e \in SenderStates /\ e.step = r.step /\ e.records = r.records /\ e.todo = todo
        /\ e.sent = sent
    BY <1>1, <2>3 DEF SenderStates, Letters
  <2>5. e = s
    BY DEF todo, sent
  <2> QED BY <1>1, <2>4, <2>5 DEF todo, sent
<1>8. s.sent \subseteq s.records /\ Lists(s.todo, s.records \ s.sent)
  <2>1. s.sent \subseteq s.records
    BY <1>1, <1>7
  <2>2. s.records \ s.sent = (r.records \ r.sent) \ {to}
    BY <1>7
  <2> QED BY <1>3, <1>7, <2>1, <2>2
<1> HIDE DEF r, s, to
<1>9. /\ sender' \in [Senders -> SenderStates]
      /\ \A k \in Senders : sender'[k] = IF k = h THEN s ELSE sender[k]
  BY <1>6, <1>7, SenderGoes
<1>10. \A a \in Addressees : mailed[a] \in 0..2
  BY DEF MailInv, MailShape
<1>11. /\ mailed' \in [Addressees -> 0..2]
       /\ \A a \in Addressees \ {to} : mailed'[a] = mailed[a]
       /\ mailed'[to] \in {mailed[to], mailed[to] + 1}
       /\ configured => mailed'[to] > 0
       /\ ~configured => mailed'[to] = mailed[to]
  BY <1>4, <1>5, <1>10 DEF MailInv, MailShape
<1>12. r = sender[h]
  BY DEF r
<1>13. MailShape'
  BY <1>1, <1>9, <1>11 DEF MailInv, MailShape
<1>14. Sending'
  BY <1>6, <1>7, <1>8, SendingKeeps
<1>15. Recorded \subseteq Addressees
  BY DEF Recorded, Addressees
<1>16. \A k \in Senders : sender[k].sent \subseteq sender'[k].sent
  BY <1>7, <1>9, <1>12
<1>17. Sent'
  <2>1. ASSUME configured', NEW k \in Senders, NEW q \in sender'[k].sent PROVE mailed'[q] > 0
    <3>1. q \in Addressees
      BY <1>9, <1>15 DEF SenderStates
    <3>2. CASE q = to
      BY <1>1, <1>11, <2>1, <3>2
    <3>3. CASE q # to
      <4>1. q \in sender[k].sent
        BY <1>7, <1>9, <1>12, <3>3, <2>1
      <4> QED BY <1>1, <1>11, <2>1, <3>1, <3>3, <4>1 DEF MailInv, Sent
    <3> QED BY <3>2, <3>3
  <2>2. ASSUME NEW q \in Recorded, mailed'[q] > 0, q \notin raced' \cup lost'
        PROVE  q \in recorded' \/ \E k \in Senders : q \in sender'[k].sent
    <3>1. CASE q = to
      <4>1. q \in sender'[h].sent
        BY <1>3, <1>7, <1>9, <3>1
      <4> QED BY <4>1
    <3>2. CASE q # to
      <4>1. mailed[q] > 0
        BY <1>11, <1>15, <2>2, <3>2
      <4>2. q \in recorded \/ \E k \in Senders : q \in sender[k].sent
        BY <1>1, <2>2, <4>1 DEF MailInv, Sent
      <4> QED BY <1>1, <1>16, <4>2
    <3> QED BY <3>1, <3>2
  <2> QED BY <2>1, <2>2 DEF Sent
<1>18. Own'
  <2>1. \A k \in Senders : sender'[k].records = sender[k].records
    BY <1>7, <1>9, <1>12
  <2> QED BY <1>1, <2>1 DEF MailInv, Own
<1>19. RecordsAreTrue'
  <2>1. ASSUME configured', NEW q \in recorded' PROVE mailed'[q] > 0
    <3>1. mailed[q] > 0 /\ q \in Addressees
      BY <1>1, <1>15, <2>1 DEF MailInv, RecordsAreTrue, RecordedWasMailed, MailShape
    <3> QED BY <1>10, <1>11, <3>1, <1>1, <2>1
  <2>2. ASSUME NEW q \in Recorded, mailed'[q] = 2 PROVE q \in raced' \cup lost'
    <3>1. CASE mailed[q] = 2
      BY <1>1, <2>2, <3>1 DEF MailInv, RecordsAreTrue, TwiceIsExplained
    <3>2. CASE mailed[q] # 2
      <4>1. q = to /\ mailed[q] > 0
        BY <1>10, <1>11, <1>15, <2>2, <3>2
      <4> SUFFICES ASSUME q \notin raced \cup lost PROVE FALSE
        BY <1>1
      <4>2. q \in r.records \ r.sent
        BY <1>3, <4>1
      <4>3. q \in recorded \/ \E k \in Senders : q \in sender[k].sent
        BY <4>1 DEF MailInv, Sent
      <4>4. q \notin recorded
        BY <1>12, <4>2 DEF MailInv, Own
      <4>5. PICK k \in Senders : q \in sender[k].sent
        BY <4>3, <4>4
      <4>6. sender[k].sent \subseteq sender[k].records
        BY DEF MailInv, MailShape, Sending, SenderStates, SenderSteps
      <4>7. k = h
        BY <1>12, <4>2, <4>5, <4>6 DEF MailInv, Own
      <4> QED BY <1>12, <4>2, <4>5, <4>7
    <3> QED BY <3>1, <3>2
  <2> QED BY <2>1, <2>2 DEF RecordsAreTrue, RecordedWasMailed, TwiceIsExplained
<1> QED BY <1>13, <1>14, <1>17, <1>18, <1>19 DEF MailInv

\* A sender ends, and what it has sent is named as lost or recorded.
LEMMA GivesUpKeeps ==
  ASSUME MailInv, NEW h \in Senders, GivesUp(h), UNCHANGED <<configured, recorded, mailed, raced>>
  PROVE  MailInv'
<1>1. /\ sender' = [sender EXCEPT ![h] = IdleSender] /\ lost' = lost \cup sender[h].sent
  BY DEF GivesUp
<1>2. /\ sender' \in [Senders -> SenderStates]
      /\ \A k \in Senders : sender'[k] = IF k = h THEN IdleSender ELSE sender[k]
  BY <1>1, IdleSenderTyped, SenderGoes
<1>3. MailShape'
  BY <1>1, <1>2 DEF MailInv, MailShape, SenderStates
<1>4. Sending'
  BY <1>1, IdleSenderTyped, SendingKeeps
<1>5. Sent'
  BY <1>1, <1>2, IdleSenderTyped DEF MailInv, Sent
<1>6. Own'
  BY <1>2, IdleSenderTyped DEF MailInv, Own
<1> QED BY <1>1, <1>3, <1>4, <1>5, <1>6, RecordsStay DEF MailInv

LEMMA MailRefusedKeeps ==
  ASSUME MailInv, NEW h \in Senders, MailRefused(h) PROVE MailInv'
<1> DEFINE r == sender[h]
           s == [r EXCEPT !.todo = Tail(r.todo)]
<1>1. CASE Head(r.todo).thrown
  BY <1>1, GivesUpKeeps DEF MailRefused
<1>2. CASE ~Head(r.todo).thrown
  <2>1. /\ r.step = "send" /\ r.todo # <<>> /\ r \in SenderStates
        /\ r.sent \subseteq r.records /\ Lists(r.todo, r.records \ r.sent)
        /\ UNCHANGED <<configured, recorded, raced, lost, mailed>>
    BY <1>2 DEF MailRefused, Underway, MailInv, MailShape, Sending
  <2>2. /\ Lists(Tail(r.todo), (r.records \ r.sent) \ {Head(r.todo).to})
        /\ Head(r.todo).to \notin Recorded
    <3>1. r.records \ r.sent \subseteq Recorded
      BY <2>1 DEF SenderStates
    <3> HIDE DEF r
    <3> QED BY <1>2, <2>1, <3>1, FewerLetters
  <2>3. sender' = [sender EXCEPT ![h] = s]
    BY <1>2 DEF MailRefused, MailInv, MailShape
  <2>4. /\ s \in SenderStates /\ s.step = "send" /\ s.records = r.records /\ s.sent = r.sent
        /\ s.todo = Tail(r.todo)
    <3>1. Tail(r.todo) \in Seq(Letters)
      BY <2>2 DEF Lists
    <3> DEFINE todo == Tail(r.todo)
    <3> HIDE DEF todo, r
    <3> DEFINE e == [r EXCEPT !.todo = todo]
    <3>2. /\ e \in SenderStates /\ e.step = r.step /\ e.records = r.records /\ e.sent = r.sent
          /\ e.todo = todo
      BY <2>1, <3>1 DEF SenderStates, Letters, todo
    <3>3. e = s
      BY DEF todo
    <3> QED BY <2>1, <3>2, <3>3 DEF todo
  <2>5. (r.records \ r.sent) \ {Head(r.todo).to} = s.records \ s.sent
    BY <2>1, <2>2, <2>4 DEF SenderStates
  <2>6. r = sender[h]
    OBVIOUS
  <2> HIDE DEF r, s
  <2>7. /\ sender' \in [Senders -> SenderStates]
        /\ \A k \in Senders : sender'[k] = IF k = h THEN s ELSE sender[k]
    BY <2>3, <2>4, SenderGoes
  <2>8. MailShape'
    BY <2>1, <2>7 DEF MailInv, MailShape
  <2>9. Sending'
    BY <2>1, <2>2, <2>3, <2>4, <2>5, SendingKeeps
  <2>10. \A k \in Senders : sender'[k].sent = sender[k].sent /\ sender'[k].records = sender[k].records
    BY <2>4, <2>6, <2>7
  <2>11. Sent' /\ Own'
    BY <2>1, <2>10 DEF MailInv, Sent, Own
  <2> QED BY <2>1, <2>8, <2>9, <2>11, RecordsStay DEF MailInv
<1> QED BY <1>1, <1>2

LEMMA RecordSentKeeps ==
  ASSUME MailInv, NEW h \in Senders, RecordSent(h) PROVE MailInv'
<1>1. /\ sender[h].step = "send" /\ sender[h].todo = <<>>
      /\ sender' = [sender EXCEPT ![h] = IdleSender]
      /\ recorded' = recorded \cup sender[h].records
      /\ UNCHANGED <<configured, mailed, raced, lost>>
  BY DEF RecordSent, Underway
<1>2. sender[h].sent = sender[h].records
  <2>1. /\ sender[h].sent \subseteq sender[h].records
        /\ Lists(<<>>, sender[h].records \ sender[h].sent)
    BY <1>1 DEF MailInv, Sending
  <2>2. sender[h].records \ sender[h].sent = {}
    BY <2>1 DEF Lists
  <2> QED BY <2>1, <2>2
<1>3. /\ sender' \in [Senders -> SenderStates]
      /\ \A k \in Senders : sender'[k] = IF k = h THEN IdleSender ELSE sender[k]
  BY <1>1, IdleSenderTyped, SenderGoes
<1>4. sender[h].records \in SUBSET Recorded
  BY DEF MailInv, MailShape, SenderStates
<1>5. MailShape'
  BY <1>1, <1>3, <1>4 DEF MailInv, MailShape
<1>6. Sending'
  BY <1>1, IdleSenderTyped, SendingKeeps
<1>7. Sent'
  BY <1>1, <1>2, <1>3, IdleSenderTyped DEF MailInv, Sent
<1>8. Own'
  BY <1>1, <1>3, IdleSenderTyped DEF MailInv, Own
<1>9. RecordsAreTrue'
  BY <1>1, <1>2 DEF MailInv, Sent, RecordsAreTrue, RecordedWasMailed, TwiceIsExplained
<1> QED BY <1>5, <1>6, <1>7, <1>8, <1>9 DEF MailInv

LEMMA MailSteps == MailInv /\ [MailStep]_mailVars => MailInv'
<1> SUFFICES ASSUME MailInv, [MailStep]_mailVars PROVE MailInv'
  OBVIOUS
<1>1. CASE FallsDue \/ UNCHANGED mailVars
  <2>1. UNCHANGED <<configured, recorded, mailed, sender, raced, lost>>
    BY <1>1 DEF FallsDue, mailVars
  <2>2. MailShape'
    BY <2>1 DEF MailInv, MailShape
  <2>3. Sending'
    BY <2>1 DEF MailInv, Sending, Lists
  <2>4. Sent' /\ Own'
    BY <2>1 DEF MailInv, Sent, Own
  <2> QED BY <2>1, <2>2, <2>3, <2>4, RecordsStay DEF MailInv
<1>2. ASSUME NEW h \in Senders, MailNext(h) \/ MailRefused(h) \/ RecordSent(h) \/ SenderStops(h)
      PROVE  MailInv'
  BY <1>2, MailNextKeeps, MailRefusedKeeps, RecordSentKeeps, GivesUpKeeps DEF SenderStops
<1>3. ASSUME NEW h \in Senders, \/ ReadAudit(h) \/ ReadAuditFirst(h) \/ SendConfirmation(h)
                                \/ Finalize(h) \/ sendGiftCardEmails(h) \/ FindDue(h) \/ Deliver(h)
      PROVE  MailInv'
  BY <1>3, ConfirmationKeeps, FinalizeKeeps, CardLettersKeep
<1>4. ASSUME NEW h \in Senders, \/ TellCancelled(h) \/ TellOrderPaid(h) \/ TellOrderConfirmed(h)
                                \/ TellReady(h) \/ TellCredentials(h) \/ TellSeat(h)
      PROVE  MailInv'
  BY <1>4, AnnounceKeeps
<1> QED BY <1>1, <1>2, <1>3, <1>4 DEF MailStep

\* A record stands for one letter: what is written down as sent has left, and
\* it left twice only if two senders had it at once or its sender ended before
\* it wrote it down, whatever letters the mail server refuses and however often
\* handlers, webhooks and the cron job come again.
THEOREM LettersAreRecorded == MailSpec => []RecordsAreTrue
<1>1. MailInv => RecordsAreTrue
  BY DEF MailInv
<1> QED BY <1>1, MailStarts, MailSteps, PTL DEF MailSpec

-----------------------------------------------------------------------------
(* The types, of cards and letters together.                               *)

Flags == topic \in Topics /\ scheduled \in BOOLEAN /\ due \in BOOLEAN /\ sold \in BOOLEAN

LEMMA FlagsKeep == Flags /\ [MailStep]_mailVars => Flags'
<1> SUFFICES ASSUME Flags, [MailStep]_mailVars PROVE Flags'
  OBVIOUS
<1>1. CASE UNCHANGED mailVars
  BY <1>1 DEF Flags, mailVars
<1>2. CASE FallsDue
  BY <1>2 DEF Flags, FallsDue
<1>3. ASSUME NEW h \in Senders,
             MailNext(h) \/ MailRefused(h) \/ RecordSent(h) \/ SenderStops(h) \/ SendConfirmation(h)
               \/ sendGiftCardEmails(h) \/ FindDue(h) \/ Deliver(h)
      PROVE  Flags'
  BY <1>3 DEF Flags, MailNext, MailRefused, RecordSent, SenderStops, SendConfirmation,
              sendGiftCardEmails, FindDue, Deliver
<1>4. ASSUME NEW h \in Senders, ReadAudit(h) \/ ReadAuditFirst(h) \/ Finalize(h)
      PROVE  Flags'
  BY <1>4 DEF Flags, ReadAudit, ReadAuditFirst, Finalize
<1>5. ASSUME NEW h \in Senders, NEW t, NEW letters, Announce(h, t, letters)
      PROVE  Flags'
  BY <1>5 DEF Flags, Announce
<1>6. ASSUME NEW h \in Senders,
             TellCancelled(h) \/ TellOrderPaid(h) \/ TellOrderConfirmed(h) \/ TellReady(h)
               \/ TellCredentials(h) \/ TellSeat(h)
      PROVE  Flags'
  BY <1>5, <1>6 DEF TellCancelled, TellOrderPaid, TellOrderConfirmed, TellReady, TellCredentials, TellSeat
<1> QED BY <1>1, <1>2, <1>3, <1>4, <1>6 DEF MailStep

LEMMA MailTyped == ASSUME MailInv, Flags PROVE MailTypeOK
<1>1. ASSUME NEW h \in Senders
      PROVE  /\ sender[h].step \in SenderSteps /\ sender[h].records \in SUBSET Recorded
             /\ \A i \in DOMAIN sender[h].todo : sender[h].todo[i].to \in Addressees
             /\ sender[h].sent \subseteq sender[h].records
  <2>1. /\ sender[h] \in SenderStates
        /\ sender[h].step \in {"idle", "read", "found", "confirming"} =>
             sender[h].todo = <<>> /\ sender[h].sent = {}
        /\ sender[h].step = "send" => /\ sender[h].sent \subseteq sender[h].records
                                      /\ sender[h].todo \in Seq(Letters)
    BY DEF MailInv, MailShape, Sending, Lists
  <2>2. sender[h].step \in SenderSteps /\ sender[h].records \in SUBSET Recorded
    BY <2>1 DEF SenderStates
  <2>3. CASE sender[h].step = "send"
    <3>1. \A i \in DOMAIN sender[h].todo : sender[h].todo[i] \in Letters
      BY <2>1, <2>3
    <3> QED BY <2>1, <2>2, <2>3, <3>1 DEF Letters
  <2>4. CASE sender[h].step # "send"
    <3>1. sender[h].todo = <<>> /\ sender[h].sent = {}
      BY <2>1, <2>2, <2>4 DEF SenderSteps
    <3>2. DOMAIN <<>> = {}
      OBVIOUS
    <3> QED BY <2>2, <3>1, <3>2
  <2> QED BY <2>3, <2>4
<1> QED BY <1>1 DEF MailInv, MailShape, Flags, MailTypeOK

LEMMA CardTyped == ASSUME CardInv, Ledger PROVE TypeOK
<1>1. credited \in 0..Amount
  BY DEF CardInv, Covered, Docs, Ledger
<1> QED BY <1>1 DEF CardInv, Covered, Handles, TypeOK

\* The cards, their holds and copies, the senders and their letters stay what the
\* schemas and the handlers make them, whichever of the two a behaviour is about.
THEOREM CardsTypes == CardsSpec => []CardsTypeOK
<1> DEFINE Inv == IInv /\ Ledger /\ CardInv /\ MailInv /\ Flags
<1>1. CardsInit => Inv
  BY InitHolds, InitCredits, StartsCovered, MailStarts DEF CardsInit, MailInit, Flags
<1>2. Inv /\ [CardsNext]_<<focus, vars, mailVars>> => Inv'
  <2>1. [CardsNext]_<<focus, vars, mailVars>> => [Next]_vars /\ [MailStep]_mailVars
    BY DEF CardsNext
  <2> QED BY <2>1, StepKeeps, StepCredits, StepCovered, MailSteps, FlagsKeep DEF Kept
<1>3. Inv => CardsTypeOK
  BY CardTyped, MailTyped DEF CardsTypeOK
<1> HIDE DEF Inv
<1> QED BY <1>1, <1>2, <1>3, PTL DEF CardsSpec
=============================================================================
