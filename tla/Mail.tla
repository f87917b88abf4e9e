-------------------------------- MODULE Mail --------------------------------
(***************************************************************************)
(* The letters the backend sends: emails/mailer.js, emails/giftCardMailer  *)
(* .js and the handlers that call them and write down that they did.       *)
(*                                                                         *)
(* A mail function is a sequence of letters.  A letter the mail server     *)
(* refuses either ends the function (the error is rethrown) or is only     *)
(* logged.  A caller that keeps a record reads it first, sends, and writes *)
(* it after the last letter: three timestamps of a gift card, written by   *)
(* one update, and the audit entry of a confirmed appointment.  The other  *)
(* callers keep none.  Without a mail server configured (no transport)     *)
(* every function returns as if the letter had been sent.                  *)
(*                                                                         *)
(* A behaviour is about one document, the `topic`.  sendReminderEmail is   *)
(* not among the functions: it calls ensureMailer, which is not defined,   *)
(* and always throws (see Reminders).                                      *)
(***************************************************************************)
EXTENDS Integers, Sequences

CONSTANTS Senders   \* requests, webhook events and cron runs that send letters

VARIABLES
  topic,       \* the document the behaviour is about
  configured,  \* SMTP settings are present
  scheduled,   \* the gift card's deliveryType is "scheduled"
  due,         \* its deliveryDate has passed
  sold,        \* the document is in the state its letters announce
  recorded,    \* the letters written down as sent
  mailed,      \* letter -> how often it left, 2 for twice or more
  sender,      \* sender -> what it still has to send, and will record
  raced,       \* history: letters due at two senders at once
  lost         \* history: letters sent by a sender that never recorded them

mailVars == <<topic, configured, scheduled, due, sold, recorded, mailed, sender, raced, lost>>

Letter(to, thrown) == [to |-> to, thrown |-> thrown]

-----------------------------------------------------------------------------
(* The mail functions                                                      *)

CustomerConfirmation == Letter("customer", TRUE)
SpecialistConfirmation == Letter("specialist", FALSE)
sendConfirmationEmail == <<CustomerConfirmation, SpecialistConfirmation>>
sendCancellationEmails == <<Letter("leaver", TRUE), Letter("staff", FALSE)>>
sendOrderConfirmationEmail == <<Letter("buyer", TRUE)>>
sendBeauticianProductOrderNotification == <<Letter("seller", FALSE)>>
\* Sent twice: the shorter text first, then the full one.
sendAdminOrderNotification == <<Letter("admin", TRUE), Letter("admin", TRUE)>>
sendOrderReadyForCollectionEmail == <<Letter("collector", TRUE)>>
sendSpecialistCredentialsEmail == <<Letter("new specialist", FALSE)>>
sendSeminarConfirmationEmail == <<Letter("attendee", FALSE)>>
sendGiftCardPurchaseConfirmation == <<Letter("purchaser", TRUE)>>
sendGiftCardSaleNotification == <<Letter("salon", TRUE)>>
sendGiftCardToRecipient == <<Letter("recipient", TRUE)>>

Addressees == {"customer", "specialist", "leaver", "staff", "buyer", "seller", "admin",
               "collector", "new specialist", "attendee", "purchaser", "salon", "recipient"}

\* The letters a handler writes down.
Recorded == {"customer", "purchaser", "salon", "recipient"}

\* A caller's try/catch around one mail function.
Caught(letters) == [i \in DOMAIN letters |-> [letters[i] EXCEPT !.thrown = FALSE]]

SenderSteps == {"idle", "confirming", "read", "found", "send"}
SenderStates == [step : SenderSteps, todo : Seq([to : Addressees, thrown : BOOLEAN]),
                 records : SUBSET Recorded, sent : SUBSET Recorded]

Topics == {"visit", "card", "cancellation", "order", "collection", "login", "seat"}

\* Type invariant.
MailTypeOK ==
  /\ topic \in Topics /\ recorded \in SUBSET Recorded
  /\ {configured, scheduled, due, sold} \subseteq BOOLEAN
  /\ mailed \in [Addressees -> 0..2]
  /\ \A h \in Senders :
       /\ sender[h].step \in SenderSteps /\ sender[h].records \in SUBSET Recorded
       /\ \A i \in DOMAIN sender[h].todo : sender[h].todo[i].to \in Addressees
       /\ sender[h].sent \subseteq sender[h].records
  /\ raced \in SUBSET Recorded /\ lost \in SUBSET Recorded

IdleSender == [step |-> "idle", todo |-> <<>>, records |-> {}, sent |-> {}]

MailInit ==
  /\ topic \in Topics /\ configured \in BOOLEAN
  /\ scheduled \in IF topic = "card" THEN BOOLEAN ELSE {FALSE}
  /\ due = FALSE /\ sold = FALSE
  /\ recorded = {} /\ raced = {} /\ lost = {}
  /\ mailed = [a \in Addressees |-> 0]
  /\ sender = [h \in Senders |-> IdleSender]

-----------------------------------------------------------------------------
(* How a sender works                                                      *)

Ready(h) == sender[h].step = "idle"

Underway(h) == sender[h].step = "send"

\* Another sender, not through yet, will record the same letters.
Races(h, records) == raced' = raced \cup (records \cap UNION {sender[g].records : g \in Senders \ {h}})

\* The letters, and those of them it will record, are fixed.
SetsOut(h, letters, records) ==
  /\ sender' = [sender EXCEPT ![h] =
                  [step |-> "send", todo |-> letters, records |-> records, sent |-> {}]]
  /\ Races(h, records)

\* An error or a crash: nothing is recorded.
GivesUp(h) ==
  /\ lost' = lost \cup sender[h].sent
  /\ sender' = [sender EXCEPT ![h] = IdleSender]

\* The mail server accepts the next letter, or none is configured.
MailNext(h) ==
  /\ Underway(h) /\ sender[h].todo # <<>>
  /\ LET to == Head(sender[h].todo).to IN
     /\ mailed' = IF configured /\ mailed[to] < 2 THEN [mailed EXCEPT ![to] = @ + 1] ELSE mailed
     /\ sender' = [sender EXCEPT ![h].todo = Tail(@),
                                 ![h].sent = @ \cup ({to} \cap sender[h].records)]
  /\ UNCHANGED <<topic, configured, scheduled, due, sold, recorded, raced, lost>>

\* The mail server refuses it.
MailRefused(h) ==
  /\ Underway(h) /\ sender[h].todo # <<>> /\ configured
  /\ IF Head(sender[h].todo).thrown THEN GivesUp(h)
     ELSE sender' = [sender EXCEPT ![h].todo = Tail(@)] /\ UNCHANGED lost
  /\ UNCHANGED <<topic, configured, scheduled, due, sold, recorded, mailed, raced>>

\* Mutant: the update writes only what the last function sent.
RecordLast(h) ==
  /\ Underway(h) /\ sender[h].todo = <<>>
  /\ recorded' = recorded \cup (sender[h].records \cap {"recipient", "customer"})
  /\ sender' = [sender EXCEPT ![h] = IdleSender]
  /\ UNCHANGED <<topic, configured, scheduled, due, sold, mailed, raced, lost>>

\* All letters have left: one update records them, if the caller records any.
RecordSent(h) ==
  /\ Underway(h) /\ sender[h].todo = <<>>
  /\ recorded' = recorded \cup sender[h].records
  /\ sender' = [sender EXCEPT ![h] = IdleSender]
  /\ UNCHANGED <<topic, configured, scheduled, due, sold, mailed, raced, lost>>

\* The process stops, or the database fails to answer.
SenderStops(h) ==
  /\ ~Ready(h) /\ GivesUp(h)
  /\ UNCHANGED <<topic, configured, scheduled, due, sold, recorded, mailed, raced>>

-----------------------------------------------------------------------------
(* The confirmation of an appointment                                      *)

\* checkout.session.completed: the audit as the confirming update returns it.
ReadAudit(h) ==
  /\ topic = "visit" /\ Ready(h) /\ "customer" \notin recorded
  /\ sold' = TRUE
  /\ SetsOut(h, sendConfirmationEmail, {"customer"})
  /\ UNCHANGED <<topic, configured, scheduled, due, recorded, mailed, lost>>

\* GET /checkout/confirm reads it before it asks Stripe and confirms...
ReadAuditFirst(h) ==
  /\ topic = "visit" /\ Ready(h) /\ "customer" \notin recorded
  /\ sender' = [sender EXCEPT ![h].step = "confirming", ![h].records = {"customer"}]
  /\ Races(h, {"customer"})
  /\ sold' = TRUE
  /\ UNCHANGED <<topic, configured, scheduled, due, recorded, mailed, lost>>

\* ...and sends without another look.
SendConfirmation(h) ==
  /\ sender[h].step = "confirming"
  /\ SetsOut(h, sendConfirmationEmail, {"customer"})
  /\ UNCHANGED <<topic, configured, scheduled, due, sold, recorded, mailed, lost>>

-----------------------------------------------------------------------------
(* The letters of a gift card                                              *)

\* The webhook, GET /confirm or POST / makes the card "sent": once, since
\* save() checks the version.
Finalize(h) ==
  /\ topic = "card" /\ Ready(h) /\ ~sold
  /\ sold' = TRUE
  /\ sender' = [sender EXCEPT ![h].step = "read"]
  /\ UNCHANGED <<topic, configured, scheduled, due, recorded, mailed, raced, lost>>

Unrecorded(to, letters) == IF to \in recorded THEN <<>> ELSE letters

SaleLetters == Unrecorded("purchaser", sendGiftCardPurchaseConfirmation)
                 \o Unrecorded("salon", sendGiftCardSaleNotification)

\* sendGiftCardEmails, in both routes.
sendGiftCardEmails(h) ==
  /\ sender[h].step = "read"
  /\ LET now == ~scheduled \/ due IN
     SetsOut(h,
             SaleLetters \o IF now THEN Unrecorded("recipient", sendGiftCardToRecipient) ELSE <<>>,
             ({"purchaser", "salon"} \cup {r \in {"recipient"} : now}) \ recorded)
  /\ UNCHANGED <<topic, configured, scheduled, due, sold, recorded, mailed, lost>>

\* deliveryDate passes.
FallsDue ==
  /\ topic = "card" /\ scheduled /\ ~due
  /\ due' = TRUE
  /\ UNCHANGED <<topic, configured, scheduled, sold, recorded, mailed, sender, raced, lost>>

\* Mutant: the query asks for a card whose sale letters are unrecorded too.
FindUntouched(h) ==
  /\ topic = "card" /\ Ready(h)
  /\ sold /\ scheduled /\ due /\ recorded = {}
  /\ sender' = [sender EXCEPT ![h].step = "found"]
  /\ UNCHANGED <<topic, configured, scheduled, due, sold, recorded, mailed, raced, lost>>

\* The cron job's query, every five minutes.
FindDue(h) ==
  /\ topic = "card" /\ Ready(h)
  /\ sold /\ scheduled /\ due /\ "recipient" \notin recorded
  /\ sender' = [sender EXCEPT ![h].step = "found"]
  /\ UNCHANGED <<topic, configured, scheduled, due, sold, recorded, mailed, raced, lost>>

\* The card is read again: delivered meanwhile, or the letters it lacks.
Deliver(h) ==
  /\ sender[h].step = "found"
  /\ IF "recipient" \in recorded THEN sender' = [sender EXCEPT ![h] = IdleSender] /\ UNCHANGED raced
     ELSE SetsOut(h, SaleLetters \o sendGiftCardToRecipient,
                  {"purchaser", "salon", "recipient"} \ recorded)
  /\ UNCHANGED <<topic, configured, scheduled, due, sold, recorded, mailed, lost>>

-----------------------------------------------------------------------------
(* The letters nobody records                                              *)

\* A handler that sends after the change it announces.
Announce(h, t, letters) ==
  /\ topic = t /\ Ready(h)
  /\ sold' = TRUE
  /\ SetsOut(h, letters, {})
  /\ UNCHANGED <<topic, configured, scheduled, due, recorded, mailed, lost>>

\* POST /:id/cancel, behind the commit; the refusal is only logged.
TellCancelled(h) == ~sold /\ Announce(h, "cancellation", sendCancellationEmails)

\* checkout.session.completed for an order, delivered at least once.
TellOrderPaid(h) ==
  Announce(h, "order", Caught(sendOrderConfirmationEmail) \o sendAdminOrderNotification)

\* GET /confirm-checkout: the specialists only after the buyer.
TellOrderConfirmed(h) ==
  Announce(h, "order", sendOrderConfirmationEmail \o sendBeauticianProductOrderNotification)

\* PATCH /:id/ready-for-collection.
TellReady(h) == ~sold /\ Announce(h, "collection", sendOrderReadyForCollectionEmail)

\* POST /specialists with a new login; the password is in this letter only.
TellCredentials(h) == ~sold /\ Announce(h, "login", sendSpecialistCredentialsEmail)

\* checkout.session.completed for a seminar seat, when the booking is new.
TellSeat(h) == ~sold /\ Announce(h, "seat", sendSeminarConfirmationEmail)

-----------------------------------------------------------------------------

MailStep ==
  \/ FallsDue
  \/ \E h \in Senders :
       \/ MailNext(h) \/ MailRefused(h) \/ RecordSent(h) \/ SenderStops(h)
       \/ ReadAudit(h) \/ ReadAuditFirst(h) \/ SendConfirmation(h) \/ Finalize(h)
       \/ sendGiftCardEmails(h) \/ FindDue(h) \/ Deliver(h)
       \/ TellCancelled(h) \/ TellOrderPaid(h) \/ TellOrderConfirmed(h)
       \/ TellReady(h) \/ TellCredentials(h) \/ TellSeat(h)

SentTo(to) == \E h \in Senders : MailNext(h) /\ Head(sender[h].todo).to = to

\* Time passes, the cron job runs again and again and is not always stopped
\* behind its query, and the mail server does not refuse every letter to the
\* same addressee.
MailFairness ==
  /\ WF_mailVars(FallsDue)
  /\ WF_mailVars(\E h \in Senders : FindDue(h))
  /\ SF_mailVars(\E h \in Senders : Deliver(h))
  /\ \A to \in {"purchaser", "salon", "recipient"} : SF_mailVars(SentTo(to))

MailSpec == MailInit /\ [][MailStep]_mailVars /\ MailFairness

-----------------------------------------------------------------------------
(* Properties                                                              *)

\* What is recorded as sent was sent, when mail is configured at all
\* (updates.*SentAt, the audit entry confirmation_email_sent).
RecordedWasMailed == configured => \A r \in recorded : mailed[r] > 0

\* A recorded letter goes out twice only when two senders had it to send at
\* the same time, or when its sender ended behind it without the record: a
\* later letter was refused, or the process stopped.
TwiceIsExplained == \A r \in Recorded : mailed[r] = 2 => r \in raced \cup lost

\* Both: a record stands for one letter.
RecordsAreTrue == RecordedWasMailed /\ TwiceIsExplained

\* A scheduled gift card that was sold reaches its recipient, whatever fails
\* on the way, since the cron job tries again until the record is written.
ScheduledIsDelivered == (configured /\ scheduled /\ sold) ~> mailed["recipient"] > 0
=============================================================================
