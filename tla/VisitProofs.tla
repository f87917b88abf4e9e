---------------------------- MODULE VisitProofs ------------------------------
(***************************************************************************)
(* Around an appointment, for any number of requests, clients and seats:   *)
(* the refund of a cancelled one, the reminder, the seats of a seminar,    *)
(* the record of the client, and the types of these parts, the waitlist    *)
(* and the diary of the free times; and that the free times are right, for *)
(* any day, step, length of the service and bound on the appointments.     *)
(***************************************************************************)
EXTENDS MCVisits, WaitlistProofs, FiniteSetTheorems, WellFoundedInduction, TLAPS

-----------------------------------------------------------------------------
(* The refund of a cancelled appointment, for any amount and any bound on  *)
(* the writes.                                                             *)
(*                                                                         *)
(* A refund's key is a version of the document at which it was not         *)
(* cancelled.  The last write of POST /cancel is the only one that leaves  *)
(* no trace in `touched` or `looked`, and it leaves the document cancelled *)
(* (Untouched); so a version that a request could read before it refunds   *)
(* is the first one, or was written by somebody else or by a look-up       *)
(* (KeysAreTouched): of two keys the later one is the trace that is asked *)
(* for.  A request that is about to write "cancelled" has its refund at    *)
(* Stripe already (RefundedFirst).                                         *)

Readable(v) == v = 0 \/ v \in touched \cup looked

\* A version without a trace is one that the last write of POST /cancel made.
Untouched == Readable(doc.version) \/ doc.status \in Cancelled

KeysAreTouched ==
  /\ \A r \in refunds : Readable(r.key)
  /\ \A h \in Cancellers :
       req[h].step \in {"lookup", "refund", "write"} => Readable(req[h].seen.version)

RefundedFirst ==
  \A h \in Cancellers :
    /\ req[h].step = "write" /\ req[h].amount # 0 =>
         [key |-> IdempotencyKey(h), amount |-> req[h].amount] \in refunds
    /\ req[h].step = "refund" => req[h].amount # 0
    /\ req[h].step = "lookup" => req[h].amount # 0

CancellationInv ==
  /\ CancellationTypeOK
  /\ Untouched
  /\ KeysAreTouched
  /\ RefundedFirst
  /\ RefundStatusIsBacked

-----------------------------------------------------------------------------
(* Types                                                                   *)

LEMMA WrittenTyped ==
  ASSUME CancellationTypeOK, NEW d \in ApptDocs, Written(d), d.version = doc.version
  PROVE  doc' \in ApptDocs /\ doc'.version = doc.version + 1 /\ doc'.version \in 1..MaxVersion
         /\ doc'.status = d.status /\ doc'.refundIds = d.refundIds
  BY CancellationAssumption DEF CancellationTypeOK, Written, ApptDocs

LEMMA NoRequestTyped == NoRequest \in Requests /\ NoRequest.step = "idle"
<1>1. NewAppt("confirmed", TRUE) \in ApptDocs
  BY CancellationAssumption DEF NewAppt, ApptDocs, ApptStatuses
<1>2. 0 \in 0..Charge
  BY CancellationAssumption
<1>3. [step |-> "idle", seen |-> NewAppt("confirmed", TRUE), amount |-> 0] \in Requests
  BY <1>1, <1>2 DEF Requests, CancelSteps
<1> QED BY <1>3 DEF NoRequest

LEMMA CancellationStarts == CancellationInit => CancellationInv
<1> SUFFICES ASSUME CancellationInit PROVE CancellationInv
  OBVIOUS
<1>1. \A s \in ApptStatuses, b \in BOOLEAN : NewAppt(s, b) \in ApptDocs
  BY CancellationAssumption DEF NewAppt, ApptDocs
<1>2. doc \in ApptDocs /\ doc.version = 0 /\ doc.status \in {"reserved_unpaid", "confirmed"}
  BY <1>1 DEF CancellationInit, NewAppt, ApptStatuses
<1>4. CancellationTypeOK
  BY <1>2, NoRequestTyped DEF CancellationTypeOK, CancellationInit
<1> QED
  BY <1>2, <1>4 DEF CancellationInv, CancellationInit, Untouched, Readable, KeysAreTouched, RefundedFirst,
     RefundStatusIsBacked, NoRequest, Cancelled

-----------------------------------------------------------------------------
(* Steps                                                                   *)

\* A handler ends, or goes on to a step that carries no refund.
LEMMA AnswerKeeps ==
  ASSUME CancellationInv, NEW h \in Cancellers, Answer(h), UNCHANGED <<doc, refunds, touched, looked, claimed>>
  PROVE  CancellationInv'
  BY NoRequestTyped DEF CancellationInv, Answer, CancellationTypeOK, Untouched, Readable, KeysAreTouched,
     RefundedFirst, RefundStatusIsBacked, IdempotencyKey

LEMMA RequestKeeps ==
  ASSUME CancellationInv, NEW h \in Cancellers, NEW n \in 0..Charge, CancelRequest(h, n)
  PROVE  CancellationInv'
<1> DEFINE step == IF n = 0 THEN "write" ELSE IF doc.referenced THEN "refund" ELSE "lookup"
<1>1. req' = [req EXCEPT ![h] = [step |-> step, seen |-> doc, amount |-> n]]
      /\ UNCHANGED <<doc, refunds, touched, looked, claimed>> /\ doc.status \notin Cancelled
  BY DEF CancelRequest
<1>2. [step |-> step, seen |-> doc, amount |-> n] \in Requests
  BY DEF CancellationInv, CancellationTypeOK, Requests, CancelSteps
<1>3. CancellationTypeOK'
  BY <1>1, <1>2 DEF CancellationInv, CancellationTypeOK
<1>4. Readable(doc.version)
  BY <1>1 DEF CancellationInv, Untouched
<1>5. Untouched' /\ KeysAreTouched'
  BY <1>1, <1>4 DEF CancellationInv, Untouched, Readable, KeysAreTouched, CancellationTypeOK
<1>6. RefundedFirst'
  BY <1>1 DEF CancellationInv, RefundedFirst, IdempotencyKey, CancellationTypeOK
<1>7. RefundStatusIsBacked'
  BY <1>1 DEF CancellationInv, RefundStatusIsBacked
<1> QED BY <1>3, <1>5, <1>6, <1>7 DEF CancellationInv

LEMMA RefundKeeps ==
  ASSUME CancellationInv, NEW h \in Cancellers, AskRefund(h)
  PROVE  CancellationInv'
<1> DEFINE refund == [key |-> IdempotencyKey(h), amount |-> req[h].amount]
<1>1. req[h].step = "refund" /\ UNCHANGED <<doc, touched, looked, claimed>>
  BY DEF AskRefund
<1>2. req[h] \in Requests /\ refund \in [key : 0..MaxVersion, amount : 1..Charge]
  <2>1. req[h] \in Requests /\ req[h].amount # 0
    BY <1>1 DEF CancellationInv, CancellationTypeOK, RefundedFirst
  <2>2. IdempotencyKey(h) \in 0..MaxVersion /\ req[h].amount \in 1..Charge
    BY <2>1, CancellationAssumption DEF IdempotencyKey, Requests, ApptDocs
  <2> QED BY <2>1, <2>2
<1>3. CASE Answer(h) /\ UNCHANGED refunds
  BY <1>1, <1>3, AnswerKeeps
<1>4. CASE Await(h, "write") /\ refunds' = refunds \cup {refund}
  <2>1. CancellationTypeOK'
    BY <1>1, <1>2, <1>4 DEF CancellationInv, CancellationTypeOK, Await, Requests, CancelSteps
  <2>2. Untouched' /\ KeysAreTouched'
    BY <1>1, <1>4 DEF CancellationInv, Untouched, Readable, KeysAreTouched, CancellationTypeOK, Await,
       IdempotencyKey
  <2>3. RefundedFirst'
    BY <1>4 DEF CancellationInv, RefundedFirst, CancellationTypeOK, Await, IdempotencyKey
  <2>4. RefundStatusIsBacked'
    BY <1>1, <1>4 DEF CancellationInv, RefundStatusIsBacked
  <2> QED BY <2>1, <2>2, <2>3, <2>4 DEF CancellationInv
<1>5. CASE Await(h, "write") /\ refund \in refunds /\ UNCHANGED refunds
  <2>1. refunds' = refunds \cup {refund}
    BY <1>5
  <2> QED BY <2>1, <1>5, <1>4
<1> QED BY <1>3, <1>4, <1>5 DEF AskRefund

LEMMA WriteKeeps ==
  ASSUME CancellationInv, NEW h \in Cancellers, WriteCancelled(h)
  PROVE  CancellationInv'
<1> DEFINE r == req[h]
<1>1. r.step = "write" /\ Answer(h) /\ UNCHANGED <<refunds, touched, looked>> /\ r \in Requests
  BY DEF WriteCancelled, CancellationInv, CancellationTypeOK
<1>2. CASE UNCHANGED <<doc, claimed>>
  BY <1>1, <1>2, AnswerKeeps
<1>3. CASE ~UNCHANGED <<doc, claimed>>
  <2> DEFINE d == [doc EXCEPT !.status = OutcomeStatus(r.amount),
                              !.refundIds = IF r.amount = 0 THEN @
                                ELSE r.seen.refundIds \cup {IdempotencyKey(h)}]
  <2>1. Written(d) /\ claimed' = FALSE
    BY <1>3 DEF WriteCancelled
  <2>2. d \in ApptDocs /\ d.version = doc.version
    BY <1>1 DEF CancellationInv, CancellationTypeOK, ApptDocs, ApptStatuses, Cancelled, OutcomeStatus,
       Requests, IdempotencyKey
  <2>3. doc' \in ApptDocs /\ doc'.status = OutcomeStatus(r.amount) /\ doc'.refundIds = d.refundIds
    BY <2>1, <2>2, WrittenTyped DEF CancellationInv, CancellationTypeOK, ApptDocs
  <2>5. CancellationTypeOK'
    BY <1>1, <2>1, <2>3, NoRequestTyped DEF CancellationInv, CancellationTypeOK, Answer
  <2>6. Untouched'
    BY <2>3 DEF Untouched, OutcomeStatus, Cancelled
  <2>7. KeysAreTouched' /\ RefundedFirst'
    BY <1>1 DEF CancellationInv, KeysAreTouched, RefundedFirst, Readable, CancellationTypeOK, Answer,
       IdempotencyKey, NoRequest
  <2>8. RefundStatusIsBacked'
    <3>1. CASE r.amount = 0
      BY <3>1, <2>3, CancellationAssumption DEF RefundStatusIsBacked, OutcomeStatus, Cancelled
    <3>2. CASE r.amount # 0
      <4> DEFINE refund == [key |-> IdempotencyKey(h), amount |-> r.amount]
      <4>1. refund \in refunds' /\ refund.key \in doc'.refundIds
        BY <1>1, <2>2, <2>3, <3>2 DEF CancellationInv, RefundedFirst, CancellationTypeOK, ApptDocs
      <4>2. doc'.status = "cancelled_full_refund" <=> refund.amount = Charge
        BY <2>3, <3>2 DEF OutcomeStatus
      <4> QED BY <4>1, <4>2 DEF RefundStatusIsBacked
    <3> QED BY <3>1, <3>2
  <2> QED BY <2>5, <2>6, <2>7, <2>8 DEF CancellationInv
<1> QED BY <1>2, <1>3

\* A document as another writer leaves it: its version is counted by Written.
Same(d) == d \in ApptDocs /\ d.version = doc.version /\ d.refundIds = doc.refundIds

\* A request ends, stays where it is, or has found the payment's reference.
KeepsWaiting(h) ==
  \/ req'[h].step = "idle"
  \/ /\ req'[h].seen = req[h].seen /\ req'[h].amount = req[h].amount
     /\ \/ req'[h].step = req[h].step
        \/ req[h].step = "lookup" /\ req'[h].step = "refund"

\* A write that leaves a trace.
Traced(d) ==
  /\ Written(d)
  /\ \/ touched' = touched \cup {doc.version + 1} /\ UNCHANGED looked
     \/ looked' = looked \cup {doc.version + 1} /\ UNCHANGED touched

LEMMA TouchedIsTraced == \A d : Touched(d) => Traced(d)
  BY DEF Touched, Traced

\* Any other write: it leaves its trace, and the refunds as they are.
LEMMA TouchKeeps ==
  ASSUME CancellationInv, NEW d, Same(d), Traced(d), UNCHANGED refunds,
         req' \in [Cancellers -> Requests], \A h \in Cancellers : KeepsWaiting(h),
         claimed' \in BOOLEAN,
         \/ claimed'
         \/ d.status = doc.status /\ ~claimed
         \/ d.status \notin Cancelled \ {"cancelled_no_refund"}
  PROVE  CancellationInv'
<1> USE DEF Same
<1>1. /\ Written(d)
      /\ (touched \cup looked)' = touched \cup looked \cup {doc.version + 1}
      /\ touched' \in {touched, touched \cup {doc.version + 1}}
      /\ looked' \in {looked, looked \cup {doc.version + 1}}
  BY DEF Traced
<1>2. doc' \in ApptDocs /\ doc'.version = doc.version + 1 /\ doc'.version \in 1..MaxVersion
      /\ doc'.status = d.status /\ doc'.refundIds = doc.refundIds
  BY <1>1, WrittenTyped DEF CancellationInv
<1>3. CancellationTypeOK'
  BY <1>1, <1>2 DEF CancellationInv, CancellationTypeOK
<1>4. Untouched' /\ KeysAreTouched'
  <2>1. Readable(doc.version)' /\ \A v : Readable(v) => Readable(v)'
    BY <1>1, <1>2 DEF Readable
  <2>2. \A v : Readable(v) => (v = 0 \/ v \in touched' \cup looked')
    BY <1>1 DEF Readable
  <2> QED BY <2>1, <2>2 DEF CancellationInv, Untouched, KeysAreTouched, Readable, KeepsWaiting
<1>5. RefundedFirst'
  BY DEF CancellationInv, RefundedFirst, IdempotencyKey, KeepsWaiting
<1>6. RefundStatusIsBacked'
  BY <1>2 DEF CancellationInv, RefundStatusIsBacked
<1> QED BY <1>3, <1>4, <1>5, <1>6 DEF CancellationInv

LEMMA CancellationSteps == CancellationInv /\ [CancellationNext]_cancellationVars => CancellationInv'
<1> SUFFICES ASSUME CancellationInv, [CancellationNext]_cancellationVars PROVE CancellationInv'
  OBVIOUS
<1> USE DEF CancellationInv
<1>1. ASSUME NEW h \in Cancellers, NEW n \in 0..Charge, CancelRequest(h, n) PROVE CancellationInv'
  BY <1>1, RequestKeeps
<1>2. ASSUME NEW h \in Cancellers, LookupReference(h) PROVE CancellationInv'
  <2> DEFINE d == [doc EXCEPT !.referenced = TRUE]
  <2>1. Same(d) /\ d.status = doc.status
    BY DEF Same, CancellationTypeOK, ApptDocs
  <2>2. Traced(d) /\ req' = [req EXCEPT ![h].step = "refund"] /\ req[h].step = "lookup"
        /\ UNCHANGED <<refunds, claimed>>
    BY <1>2 DEF LookupReference, Await, Traced
  <2>3. req' \in [Cancellers -> Requests] /\ \A g \in Cancellers : KeepsWaiting(g)
    BY <2>2 DEF CancellationTypeOK, Requests, CancelSteps, KeepsWaiting
  <2> HIDE DEF d
  <2> QED BY <2>1, <2>2, <2>3, TouchKeeps DEF CancellationTypeOK
<1>3. ASSUME NEW h \in Cancellers, AskRefund(h) PROVE CancellationInv'
  BY <1>3, RefundKeeps
<1>4. ASSUME NEW h \in Cancellers, WriteCancelled(h) PROVE CancellationInv'
  BY <1>4, WriteKeeps
<1>5. ASSUME NEW h \in Cancellers, CancelFails(h) PROVE CancellationInv'
  BY <1>5, AnswerKeeps DEF CancelFails
<1>6. ASSUME NEW h \in Cancellers, UserRequest(h) PROVE CancellationInv'
  <2>1. req' = [req EXCEPT ![h].step = "user", ![h].seen = doc]
        /\ UNCHANGED <<doc, refunds, touched, looked, claimed>>
    BY <1>6 DEF UserRequest
  <2>2. CancellationTypeOK'
    BY <2>1 DEF CancellationTypeOK, Requests, CancelSteps
  <2>3. Untouched' /\ KeysAreTouched' /\ RefundedFirst' /\ RefundStatusIsBacked'
    BY <2>1 DEF CancellationTypeOK, Requests, Untouched, KeysAreTouched, RefundedFirst,
       RefundStatusIsBacked, Readable, IdempotencyKey
  <2> QED BY <2>2, <2>3
<1>7. ASSUME NEW h \in Cancellers, UserWrite(h) PROVE CancellationInv'
  <2> PICK status \in {"cancelled_no_refund", "cancelled_full_refund"} :
           Touched([doc EXCEPT !.status = status]) /\ claimed' = (status # "cancelled_no_refund")
    BY <1>7 DEF UserWrite
  <2> DEFINE d == [doc EXCEPT !.status = status]
  <2>1. Same(d) /\ d.status = status
    BY DEF Same, CancellationTypeOK, ApptDocs, ApptStatuses, Cancelled
  <2>2. Touched(d) /\ Answer(h) /\ UNCHANGED refunds
    BY <1>7 DEF UserWrite
  <2>3. req' \in [Cancellers -> Requests] /\ \A g \in Cancellers : KeepsWaiting(g)
    BY <2>2, NoRequestTyped DEF Answer, CancellationTypeOK, KeepsWaiting
  <2> HIDE DEF d
  <2> QED BY <2>1, <2>2, <2>3, TouchKeeps, TouchedIsTraced
<1>8. CASE PaidAgain
  <2> DEFINE d == [doc EXCEPT !.status = "confirmed", !.referenced = TRUE]
  <2>1. Same(d) /\ d.status \notin Cancelled
    BY DEF Same, CancellationTypeOK, ApptDocs, ApptStatuses, Cancelled
  <2>2. Touched(d) /\ claimed' = FALSE /\ UNCHANGED <<refunds, req>>
    BY <1>8 DEF PaidAgain
  <2> HIDE DEF d
  <2> QED BY <2>1, <2>2, TouchKeeps, TouchedIsTraced DEF CancellationTypeOK, KeepsWaiting
<1>9. CASE OtherWrite
  <2>1. Same(doc)
    BY DEF Same, CancellationTypeOK
  <2> QED BY <1>9, <2>1, TouchKeeps, TouchedIsTraced DEF OtherWrite, CancellationTypeOK, KeepsWaiting
<1>10. ASSUME NEW status \in ApptStatuses, StaffStatus(status) PROVE CancellationInv'
  <2> DEFINE d == [doc EXCEPT !.status = status]
  <2>1. Same(d) /\ d.status = status
    BY DEF Same, CancellationTypeOK, ApptDocs
  <2>2. Touched(d) /\ UNCHANGED <<refunds, req>>
        /\ claimed' = (status \in Cancelled \ {"cancelled_no_refund"})
    BY <1>10 DEF StaffStatus
  <2> HIDE DEF d
  <2>3. claimed' \in BOOLEAN /\ (claimed' \/ d.status \notin Cancelled \ {"cancelled_no_refund"})
    <3>1. CASE status \in Cancelled \ {"cancelled_no_refund"}
      BY <3>1, <2>2
    <3>2. CASE status \notin Cancelled \ {"cancelled_no_refund"}
      BY <3>2, <2>1, <2>2
    <3> QED BY <3>1, <3>2
  <2> QED BY <2>1, <2>2, <2>3, TouchKeeps, TouchedIsTraced DEF CancellationTypeOK, KeepsWaiting
<1>11. CASE UNCHANGED cancellationVars
  BY <1>11 DEF cancellationVars, CancellationTypeOK, Untouched, KeysAreTouched, RefundedFirst,
     RefundStatusIsBacked, Readable, IdempotencyKey
<1> QED
  BY <1>1, <1>2, <1>3, <1>4, <1>5, <1>6, <1>7, <1>8, <1>9, <1>10, <1>11 DEF CancellationNext

\* Documents, refunds and requests have their types in every reachable state.
THEOREM CancellationTypes == CancellationSpec => []CancellationTypeOK
<1>1. CancellationInv => CancellationTypeOK
  BY DEF CancellationInv
<1> QED BY <1>1, CancellationStarts, CancellationSteps, PTL DEF CancellationSpec

\* Stripe refunds a cancelled appointment again only when, between the readings,
\* something else than POST /cancel has written it or POST /cancel has stored the
\* reference of its payment, and an appointment that POST /cancel marked as
\* refunded was refunded by as much as it says.
THEOREM RefundsStandUp == CancellationSpec => []RefundsAreJustified
<1>1. CancellationInv => RefundsAreJustified
  <2> SUFFICES ASSUME CancellationInv, NEW r \in refunds, NEW s \in refunds, r.key < s.key
               PROVE  \E v \in touched \cup looked : r.key < v /\ v <= s.key
    BY DEF RefundsAreJustified, SecondRefundNeedsAWrite, CancellationInv
  <2>1. r.key \in 0..MaxVersion /\ s.key \in 0..MaxVersion
    BY DEF CancellationInv, CancellationTypeOK
  <2>2. s.key \in touched \cup looked
    BY <2>1, CancellationAssumption DEF CancellationInv, KeysAreTouched, Readable
  <2> QED BY <2>1, <2>2, CancellationAssumption
<1> QED BY <1>1, CancellationStarts, CancellationSteps, PTL DEF CancellationSpec

-----------------------------------------------------------------------------
(* Reminders.  Until two runs have met, the one that has the appointment   *)
(* found it unmarked and nobody told; until a move came across, the start  *)
(* that a run or a request has read is the appointment's.                  *)

OneRun ==
  ~overlap =>
    /\ \A r, q \in InHand : r = q
    /\ told # {} => appt.sent \/ \E r \in Runs : run[r].step = "mailed"
    /\ \A r \in Runs : run[r].step = "found" => ~appt.sent

OneStart ==
  ~movedAcross =>
    /\ \A r \in Runs : run[r].step # "idle" => run[r].start = appt.start
    /\ \A r \in Runs : run[r].step = "mailed" => appt.start \in told
    /\ \A m \in Movers : /\ mover[m].step = "read" => mover[m].old = appt.start
                         /\ mover[m].step = "saved" => mover[m].new = appt.start

\* A mark is right, or about to be reset.
MarkIsRight ==
  appt.sent /\ ~byAdmin /\ ~movedAcross =>
    \/ \E t \in told : DayOf(t) = DayOf(appt.start)
    \/ \E m \in Movers : mover[m].step = "saved" /\ DayOf(mover[m].old) # DayOf(mover[m].new)

ReminderInv ==
  /\ ReminderTypeOK
  /\ OneRun
  /\ OneStart
  /\ MarkIsRight
  /\ ToldOnce

RunShape == [step : {"idle", "found", "mailed"}, start : Hours]

MoverShape == [step : {"idle", "read", "saved"}, old : Hours, new : Hours]

LEMMA IdleRunTyped == /\ IdleRun \in RunShape /\ IdleRun.step = "idle"
                      /\ IdleMover \in MoverShape /\ IdleMover.step = "idle"
BY ReminderAssumption DEF IdleRun, IdleMover, RunShape, MoverShape, Hours

LEMMA RemindersStart == ReminderInit => ReminderInv
<1> SUFFICES ASSUME ReminderInit PROVE ReminderInv
  OBVIOUS
<1>1. /\ appt \in [status : {"confirmed"}, start : Hours, sent : {FALSE}]
      /\ ~appt.sent /\ told = {}
      /\ \A r \in Runs : run[r].step = "idle"
      /\ \A m \in Movers : mover[m].step = "idle"
  BY IdleRunTyped DEF ReminderInit
<1>2. ReminderTypeOK
  <2>1. appt \in [status : {"confirmed", "cancelled"}, start : Hours, sent : BOOLEAN]
    BY <1>1
  <2>2. run \in [Runs -> RunShape] /\ mover \in [Movers -> MoverShape]
    BY IdleRunTyped DEF ReminderInit
  <2>3. clock \in Hours /\ told \subseteq Hours
    BY <1>1, ReminderAssumption DEF ReminderInit, Hours
  <2>4. {toldTwice, overlap, movedAcross, byAdmin} \subseteq BOOLEAN
    BY DEF ReminderInit
  <2> QED BY <2>1, <2>2, <2>3, <2>4 DEF ReminderTypeOK, RunShape, MoverShape
<1> QED BY <1>1, <1>2 DEF ReminderInit, ReminderInv, OneRun, OneStart, MarkIsRight, ToldOnce, InHand

LEMMA RunGoes ==
  ASSUME ReminderInv, NEW r \in Runs, NEW d \in RunShape, run' = [run EXCEPT ![r] = d]
  PROVE  /\ run' \in [Runs -> RunShape]
         /\ \A q \in Runs : run'[q] = IF q = r THEN d ELSE run[q]
BY DEF ReminderInv, ReminderTypeOK, RunShape

LEMMA MoverGoes ==
  ASSUME ReminderInv, NEW m \in Movers, NEW d \in MoverShape, mover' = [mover EXCEPT ![m] = d]
  PROVE  /\ mover' \in [Movers -> MoverShape]
         /\ \A g \in Movers : mover'[g] = IF g = m THEN d ELSE mover[g]
BY DEF ReminderInv, ReminderTypeOK, MoverShape

LEMMA FlagsTyped ==
  ASSUME ReminderInv PROVE /\ toldTwice \in BOOLEAN /\ overlap \in BOOLEAN
                           /\ movedAcross \in BOOLEAN /\ byAdmin \in BOOLEAN
BY DEF ReminderInv, ReminderTypeOK

LEMMA FindDueKeeps == ASSUME ReminderInv, NEW r \in Runs, FindDue(r) PROVE ReminderInv'
<1> DEFINE d == [step |-> "found", start |-> appt.start]
<1>1. /\ run' = [run EXCEPT ![r] = d] /\ run[r].step = "idle" /\ ~appt.sent
      /\ overlap' = (overlap \/ InHand # {})
      /\ UNCHANGED <<clock, appt, mover, told, toldTwice, movedAcross, byAdmin>>
  BY DEF FindDue, IsDue
<1>2. d \in RunShape /\ d.step = "found" /\ d.start = appt.start
  BY DEF RunShape, ReminderInv, ReminderTypeOK
<1> HIDE DEF d
<1>3. /\ run' \in [Runs -> RunShape]
      /\ \A q \in Runs : run'[q] = IF q = r THEN d ELSE run[q]
  BY <1>1, <1>2, RunGoes
<1>4. overlap' \in BOOLEAN /\ (~overlap' => ~overlap /\ InHand = {})
  BY <1>1, FlagsTyped
<1>5. ReminderTypeOK'
  BY <1>1, <1>3, <1>4 DEF ReminderInv, ReminderTypeOK, RunShape
<1>6. OneRun'
  <2> SUFFICES ASSUME ~overlap' PROVE
         /\ \A p, q \in InHand' : p = q
         /\ told # {} => appt.sent \/ \E q \in Runs : run'[q].step = "mailed"
         /\ \A q \in Runs : run'[q].step = "found" => ~appt.sent
    BY <1>1 DEF OneRun
  <2>1. ~overlap /\ \A q \in Runs : run[q].step = "idle"
    BY <1>4 DEF InHand, ReminderInv, ReminderTypeOK
  <2> QED BY <1>1, <1>2, <1>3, <2>1 DEF InHand, ReminderInv, OneRun
<1>7. OneStart'
  BY <1>1, <1>2, <1>3 DEF ReminderInv, OneStart
<1>8. MarkIsRight'
  BY <1>1 DEF ReminderInv, MarkIsRight
<1>9. ToldOnce'
  BY <1>1, <1>4 DEF ReminderInv, ToldOnce
<1> QED BY <1>5, <1>6, <1>7, <1>8, <1>9 DEF ReminderInv

LEMMA SendSmsKeeps ==
  ASSUME ReminderInv, NEW r \in Runs, SendReminder(r), SendSms(r) PROVE ReminderInv'
<1> DEFINE d == [run[r] EXCEPT !.step = "mailed"]
<1>1. /\ run[r] \in RunShape /\ run[r].step = "found"
      /\ told' = told \cup {run[r].start} /\ toldTwice' = (toldTwice \/ run[r].start \in told)
      /\ UNCHANGED <<clock, appt, mover, overlap, movedAcross, byAdmin>>
  BY DEF SendReminder, SendSms, ReminderInv, ReminderTypeOK, RunShape
<1>2. run' = [run EXCEPT ![r] = d]
  BY DEF SendSms, ReminderInv, ReminderTypeOK
<1>3. d \in RunShape /\ d.step = "mailed" /\ d.start = run[r].start /\ run[r].start \in Hours
  BY <1>1 DEF RunShape
<1> HIDE DEF d
<1>4. /\ run' \in [Runs -> RunShape]
      /\ \A q \in Runs : run'[q] = IF q = r THEN d ELSE run[q]
  BY <1>2, <1>3, RunGoes
<1>5. toldTwice' \in BOOLEAN /\ (toldTwice' => toldTwice \/ run[r].start \in told)
  BY <1>1, FlagsTyped
<1>6. ReminderTypeOK'
  BY <1>1, <1>3, <1>4, <1>5 DEF ReminderInv, ReminderTypeOK, RunShape
<1>7. r \in InHand /\ (\A q \in Runs : run'[q].step # "idle" <=> run[q].step # "idle")
  BY <1>1, <1>3, <1>4 DEF InHand
<1>8. OneRun'
  BY <1>1, <1>3, <1>4, <1>7 DEF ReminderInv, OneRun, InHand
<1>9. OneStart'
  BY <1>1, <1>3, <1>4 DEF ReminderInv, OneStart
<1>10. MarkIsRight'
  BY <1>1 DEF ReminderInv, MarkIsRight
<1>11. ToldOnce'
  <2>1. ASSUME ~overlap PROVE told = {}
    BY <1>1, <1>7, <2>1 DEF ReminderInv, OneRun, InHand
  <2>2. toldTwice => overlap
    BY DEF ReminderInv, ToldOnce
  <2> QED BY <1>1, <1>5, <2>1, <2>2 DEF ToldOnce
<1> QED BY <1>6, <1>8, <1>9, <1>10, <1>11 DEF ReminderInv

LEMMA RunEndsKeeps ==
  ASSUME ReminderInv, NEW r \in Runs, MarkSent(r) \/ RunFails(r) \/ (SendReminder(r) /\ SendEmail(r))
  PROVE  ReminderInv'
<1>1. /\ run' = [run EXCEPT ![r] = IdleRun] /\ run[r].step # "idle"
      /\ UNCHANGED <<clock, mover, told, toldTwice, movedAcross, byAdmin>>
  BY DEF MarkSent, RunFails, SendReminder, SendEmail
<1>2. \/ run[r].step = "mailed" /\ appt' = [appt EXCEPT !.sent = TRUE] /\ overlap' = overlap
      \/ run[r].step = "found" /\ appt' = appt /\ overlap' = overlap
      \/ appt' = appt /\ overlap' = TRUE
  BY DEF MarkSent, RunFails, SendReminder, SendEmail
<1>3. /\ run' \in [Runs -> RunShape]
      /\ \A q \in Runs : run'[q] = IF q = r THEN IdleRun ELSE run[q]
  BY <1>1, IdleRunTyped, RunGoes
<1>4. /\ appt' \in [status : {"confirmed", "cancelled"}, start : Hours, sent : BOOLEAN]
      /\ appt'.start = appt.start
      /\ appt'.sent = appt.sent \/ (run[r].step = "mailed" /\ appt'.sent)
  BY <1>2 DEF ReminderInv, ReminderTypeOK
<1>5. overlap' \in BOOLEAN /\ (~overlap' => ~overlap)
  <2>1. overlap' = overlap \/ overlap' = TRUE
    BY <1>2, FlagsTyped
  <2>2. CASE overlap' = overlap
    BY <2>2, FlagsTyped
  <2>3. CASE overlap' = TRUE
    BY <2>3
  <2> QED BY <2>1, <2>2, <2>3
<1>6. ReminderTypeOK'
  BY <1>1, <1>3, <1>4, <1>5 DEF ReminderInv, ReminderTypeOK, RunShape
<1>7. OneRun'
  <2> SUFFICES ASSUME ~overlap' PROVE
         /\ \A p, q \in InHand' : p = q
         /\ told # {} => appt'.sent \/ \E q \in Runs : run'[q].step = "mailed"
         /\ \A q \in Runs : run'[q].step = "found" => ~appt'.sent
    BY <1>1 DEF OneRun
  <2>1. ~overlap /\ \A q \in Runs : q # r => run[q].step = "idle"
    BY <1>1, <1>5 DEF InHand, ReminderInv, OneRun
  <2>2. \A q \in Runs : run'[q].step = "idle"
    BY <1>3, <2>1, IdleRunTyped
  <2>3. told # {} => appt'.sent
    <3>1. CASE run[r].step = "mailed"
      BY <1>2, <3>1, <1>5, <2>1 DEF ReminderInv, ReminderTypeOK
    <3>2. CASE run[r].step # "mailed"
      BY <1>4, <2>1, <3>2 DEF ReminderInv, OneRun
    <3> QED BY <3>1, <3>2
  <2> QED BY <2>2, <2>3 DEF InHand
<1>8. OneStart'
  BY <1>1, <1>3, <1>4, IdleRunTyped DEF ReminderInv, OneStart
<1>9. MarkIsRight'
  BY <1>1, <1>4 DEF ReminderInv, MarkIsRight, OneStart
<1>10. ToldOnce'
  <2>1. toldTwice => overlap
    BY DEF ReminderInv, ToldOnce
  <2> QED BY <1>1, <1>5, <2>1 DEF ToldOnce
<1> QED BY <1>6, <1>7, <1>8, <1>9, <1>10 DEF ReminderInv

\* A request goes on and leaves the appointment alone.
LEMMA MoverKeeps ==
  ASSUME ReminderInv, NEW m \in Movers, NEW d \in MoverShape, mover' = [mover EXCEPT ![m] = d],
         d.step = "read" => d.old = appt.start, d.step # "saved",
         mover[m].step = "saved" => movedAcross',
         movedAcross' \in BOOLEAN, ~movedAcross' => ~movedAcross,
         UNCHANGED <<clock, appt, run, told, toldTwice, overlap, byAdmin>>
  PROVE  ReminderInv'
<1>1. /\ mover' \in [Movers -> MoverShape]
      /\ \A g \in Movers : mover'[g] = IF g = m THEN d ELSE mover[g]
  BY MoverGoes
<1>2. ReminderTypeOK'
  BY <1>1 DEF ReminderInv, ReminderTypeOK, MoverShape
<1>3. OneRun' /\ ToldOnce'
  BY DEF ReminderInv, OneRun, ToldOnce, InHand
<1>4. OneStart'
  BY <1>1 DEF ReminderInv, OneStart
<1>5. MarkIsRight'
  BY <1>1 DEF ReminderInv, MarkIsRight
<1> QED BY <1>2, <1>3, <1>4, <1>5 DEF ReminderInv

LEMMA SaveMoveKeeps == ASSUME ReminderInv, NEW m \in Movers, SaveMove(m) PROVE ReminderInv'
<1> DEFINE d == [mover[m] EXCEPT !.step = "saved"]
<1>1. /\ mover[m] \in MoverShape /\ mover[m].step = "read"
      /\ UNCHANGED <<clock, run, told, toldTwice, overlap, byAdmin>>
  BY DEF SaveMove, ReminderInv, ReminderTypeOK, MoverShape
<1>2. /\ appt' \in [status : {"confirmed", "cancelled"}, start : Hours, sent : BOOLEAN]
      /\ appt'.start = mover[m].new /\ appt'.sent = appt.sent
  BY <1>1 DEF SaveMove, ReminderInv, ReminderTypeOK, MoverShape
<1>3. mover' = [mover EXCEPT ![m] = d]
  BY DEF SaveMove, ReminderInv, ReminderTypeOK
<1>4. /\ d \in MoverShape /\ d.step = "saved" /\ d.old = mover[m].old /\ d.new = mover[m].new
  BY <1>1 DEF MoverShape
<1> HIDE DEF d
<1>5. /\ mover' \in [Movers -> MoverShape]
      /\ \A g \in Movers : mover'[g] = IF g = m THEN d ELSE mover[g]
  BY <1>3, <1>4, MoverGoes
<1>6. /\ movedAcross' \in BOOLEAN
      /\ ~movedAcross' => /\ ~movedAcross /\ InHand = {}
                          /\ \A g \in Movers : g # m => mover[g].step = "idle"
  BY FlagsTyped DEF SaveMove
<1>7. ReminderTypeOK'
  BY <1>1, <1>2, <1>5, <1>6 DEF ReminderInv, ReminderTypeOK, MoverShape
<1>8. OneRun' /\ ToldOnce'
  BY <1>1, <1>2 DEF ReminderInv, OneRun, ToldOnce, InHand
<1>9. OneStart'
  BY <1>1, <1>2, <1>4, <1>5, <1>6 DEF ReminderInv, OneStart, InHand
<1>10. MarkIsRight'
  <2> SUFFICES ASSUME appt'.sent, ~byAdmin, ~movedAcross' PROVE
         \/ \E t \in told : DayOf(t) = DayOf(appt'.start)
         \/ \E g \in Movers : mover'[g].step = "saved" /\ DayOf(mover'[g].old) # DayOf(mover'[g].new)
    BY <1>1 DEF MarkIsRight
  <2>1. ~movedAcross /\ appt.sent /\ mover[m].old = appt.start
    BY <1>1, <1>2, <1>6 DEF ReminderInv, OneStart
  <2>2. PICK t \in told : DayOf(t) = DayOf(appt.start)
    BY <1>1, <1>6, <2>1 DEF ReminderInv, MarkIsRight
  <2>3. CASE DayOf(mover[m].new) = DayOf(mover[m].old)
    BY <1>2, <2>1, <2>2, <2>3
  <2>4. CASE DayOf(mover[m].new) # DayOf(mover[m].old)
    BY <1>4, <1>5, <2>4
  <2> QED BY <2>3, <2>4
<1> QED BY <1>7, <1>8, <1>9, <1>10 DEF ReminderInv

LEMMA ResetReminderKeeps ==
  ASSUME ReminderInv, NEW m \in Movers, ResetReminder(m) PROVE ReminderInv'
<1>1. /\ mover[m].step = "saved" /\ mover' = [mover EXCEPT ![m] = IdleMover]
      /\ UNCHANGED <<clock, run, toldTwice, overlap, byAdmin>>
  BY DEF ResetReminder
<1>2. /\ movedAcross' \in BOOLEAN
      /\ ~movedAcross' => ~movedAcross /\ InHand = {}
  BY FlagsTyped DEF ResetReminder
<1>3. /\ mover' \in [Movers -> MoverShape]
      /\ \A g \in Movers : mover'[g] = IF g = m THEN IdleMover ELSE mover[g]
  BY <1>1, IdleRunTyped, MoverGoes
<1>4. CASE DayOf(mover[m].old) # DayOf(mover[m].new)
  <2>1. /\ appt' \in [status : {"confirmed", "cancelled"}, start : Hours, sent : BOOLEAN]
        /\ appt'.start = appt.start /\ ~appt'.sent /\ told' = {}
    BY <1>4 DEF ResetReminder, ReminderInv, ReminderTypeOK
  <2>2. ReminderTypeOK'
    BY <1>1, <1>2, <1>3, <2>1 DEF ReminderInv, ReminderTypeOK, MoverShape
  <2>3. OneRun' /\ ToldOnce'
    BY <1>1, <2>1 DEF ReminderInv, OneRun, ToldOnce, InHand
  <2>4. OneStart'
    BY <1>1, <1>2, <1>3, <2>1, IdleRunTyped DEF ReminderInv, OneStart, InHand
  <2>5. MarkIsRight'
    BY <2>1 DEF MarkIsRight
  <2> QED BY <2>2, <2>3, <2>4, <2>5 DEF ReminderInv
<1>5. CASE DayOf(mover[m].old) = DayOf(mover[m].new)
  <2>1. UNCHANGED <<appt, told>>
    BY <1>5 DEF ResetReminder
  <2>2. ReminderTypeOK'
    BY <1>1, <1>2, <1>3, <2>1 DEF ReminderInv, ReminderTypeOK, MoverShape
  <2>3. OneRun' /\ ToldOnce'
    BY <1>1, <2>1 DEF ReminderInv, OneRun, ToldOnce, InHand
  <2>4. OneStart'
    BY <1>1, <1>2, <1>3, <2>1, IdleRunTyped DEF ReminderInv, OneStart
  <2>5. MarkIsRight'
    BY <1>1, <1>2, <1>3, <1>5, <2>1 DEF ReminderInv, MarkIsRight
  <2> QED BY <2>2, <2>3, <2>4, <2>5 DEF ReminderInv
<1> QED BY <1>4, <1>5

LEMMA AdminMovesKeeps == ASSUME ReminderInv, NEW t \in Hours, AdminMoves(t) PROVE ReminderInv'
<1>1. /\ appt' \in [status : {"confirmed", "cancelled"}, start : Hours, sent : BOOLEAN]
      /\ appt'.start = t /\ appt'.sent = appt.sent
      /\ UNCHANGED <<clock, run, mover, told, toldTwice, overlap>>
  BY DEF AdminMoves, ReminderInv, ReminderTypeOK
<1>2. /\ movedAcross' \in BOOLEAN /\ byAdmin' \in BOOLEAN
      /\ ~movedAcross' => /\ ~movedAcross /\ InHand = {}
                          /\ \A m \in Movers : mover[m].step = "idle"
      /\ ~byAdmin' => ~byAdmin /\ DayOf(t) = DayOf(appt.start)
  BY FlagsTyped DEF AdminMoves
<1>3. ReminderTypeOK'
  BY <1>1, <1>2 DEF ReminderInv, ReminderTypeOK
<1>4. OneRun' /\ ToldOnce'
  BY <1>1 DEF ReminderInv, OneRun, ToldOnce, InHand
<1>5. OneStart'
  BY <1>1, <1>2 DEF ReminderInv, OneStart, InHand
<1>6. MarkIsRight'
  BY <1>1, <1>2 DEF ReminderInv, MarkIsRight
<1> QED BY <1>3, <1>4, <1>5, <1>6 DEF ReminderInv

LEMMA ClockKeeps ==
  ASSUME ReminderInv, TimePasses \/ CancelVisit \/ UNCHANGED reminderVars PROVE ReminderInv'
<1>1. /\ UNCHANGED <<run, mover, told, toldTwice, overlap, movedAcross, byAdmin>>
      /\ clock' \in Hours
      /\ appt' \in [status : {"confirmed", "cancelled"}, start : Hours, sent : BOOLEAN]
      /\ appt'.start = appt.start /\ appt'.sent = appt.sent
  BY ReminderAssumption DEF TimePasses, CancelVisit, reminderVars, ReminderInv, ReminderTypeOK, Hours
<1>2. ReminderTypeOK'
  BY <1>1 DEF ReminderInv, ReminderTypeOK
<1>3. OneRun' /\ ToldOnce' /\ OneStart' /\ MarkIsRight'
  BY <1>1 DEF ReminderInv, OneRun, ToldOnce, InHand, OneStart, MarkIsRight
<1> QED BY <1>2, <1>3 DEF ReminderInv

LEMMA ReminderSteps == ReminderInv /\ [ReminderNext]_reminderVars => ReminderInv'
<1> SUFFICES ASSUME ReminderInv, [ReminderNext]_reminderVars PROVE ReminderInv'
  OBVIOUS
<1>1. CASE TimePasses \/ CancelVisit \/ UNCHANGED reminderVars
  BY <1>1, ClockKeeps
<1>2. ASSUME NEW r \in Runs, FindDue(r) \/ SendReminder(r) \/ MarkSent(r) \/ RunFails(r)
      PROVE  ReminderInv'
  BY <1>2, FindDueKeeps, SendSmsKeeps, RunEndsKeeps DEF SendReminder
<1>3. ASSUME NEW m \in Movers, NEW t \in Hours, ReadToMove(m, t) PROVE ReminderInv'
  <2> DEFINE d == [step |-> "read", old |-> appt.start, new |-> t]
  <2>1. d \in MoverShape /\ d.step = "read" /\ d.old = appt.start
    BY DEF MoverShape, ReminderInv, ReminderTypeOK
  <2>2. /\ mover' = [mover EXCEPT ![m] = d] /\ mover[m].step = "idle"
        /\ UNCHANGED <<clock, appt, run, told, toldTwice, overlap, movedAcross, byAdmin>>
    BY <1>3 DEF ReadToMove
  <2> HIDE DEF d
  <2> QED BY <2>1, <2>2, FlagsTyped, MoverKeeps
<1>4. ASSUME NEW m \in Movers, MoverFails(m) PROVE ReminderInv'
  <2>1. movedAcross' \in BOOLEAN /\ (~movedAcross' => ~movedAcross)
        /\ (mover[m].step = "saved" => movedAcross')
    BY <1>4, FlagsTyped DEF MoverFails
  <2> QED BY <1>4, <2>1, IdleRunTyped, MoverKeeps DEF MoverFails
<1>5. ASSUME NEW m \in Movers, SaveMove(m) \/ ResetReminder(m) PROVE ReminderInv'
  BY <1>5, SaveMoveKeeps, ResetReminderKeeps
<1>6. ASSUME NEW t \in Hours, AdminMoves(t) PROVE ReminderInv'
  BY <1>6, AdminMovesKeeps
<1> QED BY <1>1, <1>2, <1>3, <1>4, <1>5, <1>6 DEF ReminderNext

\* A reminder goes out once for the day of the visit: the mark stands for a
\* message about the day the visit now has, and nobody gets a second one of the
\* same start, but for the overlaps and moves that are named.  For any number of
\* runs of the cron job and of requests, and any time.
THEOREM RemindersGoOutOnce == ReminderSpec => []RemindersStand
<1>1. ReminderInv => RemindersStand
  BY DEF ReminderInv, MarkIsRight, ToldOnce, RemindersStand, SentIsForItsDay, Settling
<1> QED BY <1>1, RemindersStart, ReminderSteps, PTL DEF ReminderSpec

-----------------------------------------------------------------------------
(* Seminars.  Numbers have no bound of their own here, and there may be    *)
(* any number of bookings and requests; those that exist, and those that   *)
(* are between their two writes, are finitely many.                        *)

SeminarShape ==
  [ alive : BOOLEAN, status : {"draft", "published", "archived"}, session : Nat, max : Nat,
    count : Int, full : BOOLEAN, version : Nat ]

CopyShape == [session : Nat, max : Nat, count : Int, full : BOOLEAN, version : Nat]

SeatShape ==
  [status : {NoSeat, "confirmed", "cancelled"}, session : Nat, reference : Nat, refunded : Nat]

ClerkShape ==
  [ step : ClerkSteps, copy : CopyShape, tally : Nat, owed : Nat, seat : Seats \cup {NoSeat},
    late : BOOLEAN ]

Seating == {h \in Clerks : clerk[h].step = "seat"}

Unseating == {h \in Clerks : clerk[h].step = "unseat"}

SeatsShaped ==
  /\ seminar \in SeminarShape
  /\ seats \in [Seats -> SeatShape]
  /\ purchase \in [Purchases -> [state : {"none", "open", "paid"}, session : Nat]]
  /\ clerk \in [Clerks -> ClerkShape]
  /\ drifted \in BOOLEAN
  /\ IsFiniteSet(Existing) /\ IsFiniteSet(Seating) /\ IsFiniteSet(Unseating)
  /\ \A h \in Clerks : clerk[h].step \in {"seminar", "refund", "cancel"} => clerk[h].seat \in Seats

\* A request that has counted every seat has a seat to sell.
SeatsLeft ==
  ~drifted => \A h \in Clerks : clerk[h].step \in {"tally", "insert"} /\ ~clerk[h].late =>
                Cardinality(Confirmed) < seminar.max

SeminarInv == SeatsShaped /\ SeatsLeft /\ SeatsAreCounted

LEMMA IdleClerkTyped == IdleClerk \in ClerkShape /\ IdleClerk.step = "idle"
BY DEF IdleClerk, ClerkShape, ClerkSteps, CopyOf, NewSeminar, CopyShape

LEMMA CopyTyped ==
  ASSUME SeminarInv PROVE CopyOf(seminar) \in CopyShape
BY DEF SeminarInv, SeatsShaped, SeminarShape, CopyOf, CopyShape

LEMMA SeminarStarts == SeminarInit => SeminarInv
<1> SUFFICES ASSUME SeminarInit PROVE SeminarInv
  OBVIOUS
<1>1. seminar \in SeminarShape /\ seminar.count = 0
  BY DEF SeminarInit, NewSeminar, SeminarShape
<1>2. clerk \in [Clerks -> ClerkShape] /\ \A h \in Clerks : clerk[h].step = "idle"
  BY IdleClerkTyped DEF SeminarInit
<1>3. seats \in [Seats -> SeatShape] /\ \A b \in Seats : seats[b].status = NoSeat
  BY DEF SeminarInit, SeatShape, NoSeat
<1>4. Existing = {} /\ Confirmed = {} /\ Seating = {} /\ Unseating = {}
  BY <1>2, <1>3 DEF Existing, Confirmed, Seating, Unseating, NoSeat
<1>5. IsFiniteSet({}) /\ Cardinality({}) = 0
  BY FS_EmptySet
<1>6. SeatsShaped
  BY <1>1, <1>2, <1>3, <1>4, <1>5 DEF SeminarInit, SeatsShaped
<1>7. SeatsLeft
  BY <1>2 DEF SeatsLeft
<1>8. SeatsAreCounted
  <2>1. Cardinality(Seating) = 0 /\ Cardinality(Unseating) = 0 /\ Cardinality(Confirmed) = 0
    BY <1>4, <1>5
  <2> QED BY <1>1, <2>1 DEF SeatsAreCounted, Seating, Unseating
<1> QED BY <1>6, <1>7, <1>8 DEF SeminarInv

\* The counts.
LEMMA CountsTyped ==
  ASSUME SeminarInv
  PROVE  /\ Cardinality(Seating) \in Nat /\ Cardinality(Unseating) \in Nat
         /\ Cardinality(Existing) \in Nat
         /\ IsFiniteSet(Confirmed) /\ Cardinality(Confirmed) \in Nat
<1>1. Confirmed \subseteq Existing
  BY DEF Confirmed, Existing, NoSeat
<1>2. IsFiniteSet(Existing) /\ IsFiniteSet(Seating) /\ IsFiniteSet(Unseating)
  BY DEF SeminarInv, SeatsShaped
<1>3. IsFiniteSet(Confirmed)
  BY <1>1, <1>2, FS_Subset
<1> QED BY <1>2, <1>3, FS_CardinalityType

LEMMA StepCounts ==
  ASSUME SeminarInv, NEW h \in Clerks,
         \A g \in Clerks \ {h} : clerk'[g].step = clerk[g].step
  PROVE  /\ IsFiniteSet(Seating') /\ IsFiniteSet(Unseating')
         /\ Cardinality(Seating') + (IF clerk[h].step = "seat" THEN 1 ELSE 0)
              = Cardinality(Seating) + (IF clerk'[h].step = "seat" THEN 1 ELSE 0)
         /\ Cardinality(Unseating') + (IF clerk[h].step = "unseat" THEN 1 ELSE 0)
              = Cardinality(Unseating) + (IF clerk'[h].step = "unseat" THEN 1 ELSE 0)
<1>1. IsFiniteSet(Seating) /\ IsFiniteSet(Unseating)
  BY DEF SeminarInv, SeatsShaped
<1>2. /\ Seating' = IF clerk'[h].step = "seat" THEN Seating \cup {h} ELSE Seating \ {h}
      /\ h \in Seating <=> clerk[h].step = "seat"
  BY DEF Seating
<1>3. /\ Unseating' = IF clerk'[h].step = "unseat" THEN Unseating \cup {h} ELSE Unseating \ {h}
      /\ h \in Unseating <=> clerk[h].step = "unseat"
  BY DEF Unseating
<1>4. ASSUME NEW S, IsFiniteSet(S)
      PROVE  /\ IsFiniteSet(S \cup {h}) /\ IsFiniteSet(S \ {h}) /\ Cardinality(S) \in Nat
             /\ Cardinality(S \cup {h}) = IF h \in S THEN Cardinality(S) ELSE Cardinality(S) + 1
             /\ Cardinality(S \ {h}) = IF h \in S THEN Cardinality(S) - 1 ELSE Cardinality(S)
  BY <1>4, FS_AddElement, FS_RemoveElement, FS_CardinalityType
<1>5. ASSUME NEW S, NEW T, NEW was \in BOOLEAN, NEW is \in BOOLEAN, IsFiniteSet(S),
             T = IF is THEN S \cup {h} ELSE S \ {h}, h \in S <=> was
      PROVE  /\ IsFiniteSet(T)
             /\ Cardinality(T) + (IF was THEN 1 ELSE 0) = Cardinality(S) + (IF is THEN 1 ELSE 0)
  <2>1. IsFiniteSet(T)
    BY <1>4, <1>5
  <2>2. Cardinality(S) \in Nat
    BY <1>4, <1>5
  <2>3. CASE is
    <3>1. Cardinality(T) = IF was THEN Cardinality(S) ELSE Cardinality(S) + 1
      BY <1>4, <1>5, <2>3
    <3> QED BY <2>1, <2>2, <2>3, <3>1
  <2>4. CASE ~is
    <3>1. Cardinality(T) = IF was THEN Cardinality(S) - 1 ELSE Cardinality(S)
      BY <1>4, <1>5, <2>4
    <3> QED BY <2>1, <2>2, <2>4, <3>1
  <2> QED BY <2>3, <2>4
<1>6. /\ IsFiniteSet(Seating')
      /\ Cardinality(Seating') + (IF clerk[h].step = "seat" THEN 1 ELSE 0)
           = Cardinality(Seating) + (IF clerk'[h].step = "seat" THEN 1 ELSE 0)
  BY <1>1, <1>2, <1>5
<1>7. /\ IsFiniteSet(Unseating')
      /\ Cardinality(Unseating') + (IF clerk[h].step = "unseat" THEN 1 ELSE 0)
           = Cardinality(Unseating) + (IF clerk'[h].step = "unseat" THEN 1 ELSE 0)
  BY <1>1, <1>3, <1>5
<1> QED BY <1>6, <1>7

LEMMA ClerkStays ==
  ASSUME SeminarInv, NEW h \in Clerks, NEW d \in ClerkShape, clerk' = [clerk EXCEPT ![h] = d]
  PROVE  /\ clerk' \in [Clerks -> ClerkShape] /\ clerk'[h] = d
         /\ \A g \in Clerks \ {h} : clerk'[g] = clerk[g]
BY DEF SeminarInv, SeatsShaped

\* A step that neither books nor cancels, and leaves the counter alone.
LEMMA ClerkKeeps ==
  ASSUME SeminarInv, NEW h \in Clerks, NEW d \in ClerkShape, clerk' = [clerk EXCEPT ![h] = d],
         d.step \in {"seminar", "refund", "cancel"} => d.seat \in Seats,
         d.step \notin {"seat", "unseat"}, clerk[h].step \in {"seat", "unseat"} => drifted',
         ~drifted' /\ d.step \in {"tally", "insert"} /\ ~d.late =>
           Cardinality(Confirmed) < seminar.max,
         seminar' \in SeminarShape, seminar'.count = seminar.count, seminar'.max = seminar.max,
         seminar'.alive => seminar.alive,
         seats' \in [Seats -> SeatShape], \A b \in Seats : seats'[b].status = seats[b].status,
         drifted' \in BOOLEAN, ~drifted' => ~drifted, purchase' = purchase
  PROVE  SeminarInv'
<1>1. Confirmed' = Confirmed /\ Existing' = Existing
  BY DEF Confirmed, Existing
<1>2. /\ clerk' \in [Clerks -> ClerkShape] /\ clerk'[h] = d
      /\ \A g \in Clerks \ {h} : clerk'[g] = clerk[g]
  BY ClerkStays
<1>3. /\ IsFiniteSet(Seating') /\ IsFiniteSet(Unseating')
      /\ clerk[h].step # "seat" => Cardinality(Seating') = Cardinality(Seating)
      /\ clerk[h].step # "unseat" => Cardinality(Unseating') = Cardinality(Unseating)
  <2>1. IsFiniteSet(Seating') /\ IsFiniteSet(Unseating')
    BY <1>2, StepCounts
  <2>2. ASSUME clerk[h].step # "seat" PROVE Seating' = Seating
    BY <1>2, <2>2 DEF Seating
  <2>3. ASSUME clerk[h].step # "unseat" PROVE Unseating' = Unseating
    BY <1>2, <2>3 DEF Unseating
  <2> QED BY <2>1, <2>2, <2>3
<1>4. SeatsShaped'
  <2>1. \A g \in Clerks : clerk'[g].step \in {"seminar", "refund", "cancel"} => clerk'[g].seat \in Seats
    BY <1>2 DEF SeminarInv, SeatsShaped
  <2> QED BY <1>1, <1>2, <1>3, <2>1 DEF SeminarInv, SeatsShaped
<1>5. SeatsLeft'
  BY <1>1, <1>2 DEF SeminarInv, SeatsLeft
<1>6. SeatsAreCounted'
  <2> SUFFICES ASSUME seminar'.alive, ~drifted'
               PROVE  seminar'.count + Cardinality(Seating')
                        = Cardinality(Confirmed') + Cardinality(Unseating')
    BY DEF SeatsAreCounted, Seating, Unseating
  <2>1. /\ Cardinality(Seating') = Cardinality(Seating)
        /\ Cardinality(Unseating') = Cardinality(Unseating)
    BY <1>3
  <2>2. seminar.count + Cardinality(Seating) = Cardinality(Confirmed) + Cardinality(Unseating)
    BY DEF SeminarInv, SeatsAreCounted, Seating, Unseating
  <2> QED BY <1>1, <2>1, <2>2
<1> QED BY <1>4, <1>5, <1>6 DEF SeminarInv

\* What the fields of a request are after an assignment to some of them.
LEMMA StepFields ==
  ASSUME NEW d \in ClerkShape, NEW step \in ClerkSteps
  PROVE  LET e == [d EXCEPT !.step = step] IN
         e \in ClerkShape /\ e.step = step /\ e.seat = d.seat /\ e.late = d.late /\ e.copy = d.copy
BY DEF ClerkShape

LEMMA ReceivePurchaseKeeps ==
  ASSUME SeminarInv, NEW h \in Clerks, NEW p \in Purchases, ReceivePurchase(h, p) PROVE SeminarInv'
<1> DEFINE late == \E g \in Clerks : clerk[g].step = "seat"
           c == CopyOf(seminar)
           d == [IdleClerk EXCEPT !.step = "tally", !.copy = c, !.late = late]
<1>1. /\ clerk[h].step = "idle" /\ seminar.alive /\ HasSeat(seminar)
      /\ clerk' = [clerk EXCEPT ![h] = d] /\ UNCHANGED <<seminar, seats, purchase, drifted>>
  BY DEF ReceivePurchase
<1>2. late \in BOOLEAN /\ c \in CopyShape
  BY CopyTyped
<1>3. late \/ Seating = {}
  BY DEF Seating
<1>4. d \in ClerkShape /\ d.step = "tally" /\ d.late = late
  <2> HIDE DEF c, late
  <2> QED BY <1>2, IdleClerkTyped DEF ClerkShape, ClerkSteps
<1> HIDE DEF d, late
<1>5. ASSUME ~drifted, ~late PROVE Cardinality(Confirmed) < seminar.max
  <2>1. Cardinality(Seating) = 0
    BY <1>3, <1>5, FS_EmptySet
  <2>2. seminar.count + Cardinality(Seating) = Cardinality(Confirmed) + Cardinality(Unseating)
    BY <1>1, <1>5 DEF SeminarInv, SeatsAreCounted, Seating, Unseating
  <2>3. seminar.count \in Int /\ seminar.max \in Int /\ seminar.count < seminar.max
    BY <1>1 DEF HasSeat, SeminarInv, SeatsShaped, SeminarShape
  <2> QED BY <2>1, <2>2, <2>3, CountsTyped
<1> QED BY <1>1, <1>4, <1>5, ClerkKeeps DEF SeminarInv, SeatsShaped

LEMMA TallyKeeps ==
  ASSUME SeminarInv, NEW h \in Clerks, TallyBookings(h) PROVE SeminarInv'
<1> DEFINE n == Cardinality(Existing)
           d == [clerk[h] EXCEPT !.step = "insert", !.tally = n]
<1>1. clerk[h].step = "tally" /\ clerk[h] \in ClerkShape /\ UNCHANGED <<seminar, seats, purchase, drifted>>
  BY DEF TallyBookings, SeminarInv, SeatsShaped
<1>2. clerk' = [clerk EXCEPT ![h] = d]
  BY DEF TallyBookings, SeminarInv, SeatsShaped
<1>3. n \in Nat
  BY CountsTyped
<1>4. d \in ClerkShape /\ d.step = "insert" /\ d.late = clerk[h].late
  <2> HIDE DEF n
  <2> QED BY <1>1, <1>3 DEF ClerkShape, ClerkSteps
<1> HIDE DEF d
<1>5. ~drifted /\ ~d.late => Cardinality(Confirmed) < seminar.max
  BY <1>1, <1>4 DEF SeminarInv, SeatsLeft
<1> QED BY <1>1, <1>2, <1>4, <1>5, ClerkKeeps DEF SeminarInv, SeatsShaped

LEMMA InsertSeatKeeps ==
  ASSUME SeminarInv, NEW h \in Clerks, NEW b \in Seats, InsertSeat(h, b) PROVE SeminarInv'
<1>1. /\ clerk[h].step = "insert" /\ seats[b].status = NoSeat /\ clerk[h] \in ClerkShape
      /\ UNCHANGED <<seminar, purchase, drifted>>
  BY DEF InsertSeat, SeminarInv, SeatsShaped
<1>2. CASE ClerkEnds(h) /\ UNCHANGED seats
  BY <1>1, <1>2, IdleClerkTyped, ClerkKeeps DEF ClerkEnds, SeminarInv, SeatsShaped
<1>3. CASE /\ seats' = [seats EXCEPT ![b] = [status |-> "confirmed", session |-> clerk[h].copy.session,
                                            reference |-> clerk[h].tally + 1, refunded |-> 0]]
           /\ clerk' = [g \in Clerks |->
                IF g = h THEN [clerk[h] EXCEPT !.step = "seat"]
                ELSE IF clerk[g].step \in {"tally", "insert"} THEN [clerk[g] EXCEPT !.late = TRUE]
                ELSE clerk[g]]
  <2> DEFINE f == [status |-> "confirmed", session |-> clerk[h].copy.session,
                   reference |-> clerk[h].tally + 1, refunded |-> 0]
  <2>1. f \in SeatShape /\ f.status = "confirmed"
    BY <1>1 DEF ClerkShape, CopyShape, SeatShape
  <2>2. /\ seats' \in [Seats -> SeatShape]
        /\ \A c \in Seats : seats'[c].status = IF c = b THEN "confirmed" ELSE seats[c].status
    <3>1. seats' = [seats EXCEPT ![b] = f]
      BY <1>3
    <3> HIDE DEF f
    <3> QED BY <2>1, <3>1 DEF SeminarInv, SeatsShaped
  <2>3. /\ Confirmed' = Confirmed \cup {b} /\ b \notin Confirmed
        /\ Existing' = Existing \cup {b}
    BY <1>1, <2>2 DEF Confirmed, Existing, NoSeat
  <2>4. /\ IsFiniteSet(Existing')
        /\ Cardinality(Confirmed') = Cardinality(Confirmed) + 1
    BY <2>3, CountsTyped, FS_AddElement DEF SeminarInv, SeatsShaped
  <2>5. \A g \in Clerks : clerk[g] \in ClerkShape
    BY DEF SeminarInv, SeatsShaped
  <2>6. /\ clerk' \in [Clerks -> ClerkShape]
        /\ clerk'[h].step = "seat"
        /\ \A g \in Clerks \ {h} : /\ clerk'[g].step = clerk[g].step
                                   /\ clerk'[g].seat = clerk[g].seat
                                   /\ clerk[g].step \in {"tally", "insert"} => clerk'[g].late
    <3>1. [clerk[h] EXCEPT !.step = "seat"] \in ClerkShape /\ [clerk[h] EXCEPT !.step = "seat"].step = "seat"
      BY <1>1 DEF ClerkShape, ClerkSteps
    <3>2. \A g \in Clerks : LET e == [clerk[g] EXCEPT !.late = TRUE] IN
            e \in ClerkShape /\ e.step = clerk[g].step /\ e.seat = clerk[g].seat /\ e.late
      BY <2>5 DEF ClerkShape
    <3> QED BY <1>3, <2>5, <3>1, <3>2
  <2>7. /\ IsFiniteSet(Seating') /\ IsFiniteSet(Unseating')
        /\ Cardinality(Seating') = Cardinality(Seating) + 1
        /\ Cardinality(Unseating') = Cardinality(Unseating)
    <3>1. /\ IsFiniteSet(Seating') /\ IsFiniteSet(Unseating')
          /\ Cardinality(Seating') + 0 = Cardinality(Seating) + 1
          /\ Cardinality(Unseating') + 0 = Cardinality(Unseating) + 0
      BY <1>1, <2>6, StepCounts
    <3>2. Cardinality(Seating') \in Nat /\ Cardinality(Unseating') \in Nat
      BY <3>1, FS_CardinalityType
    <3> QED BY <3>1, <3>2, CountsTyped
  <2>8. SeatsShaped'
    <3>1. \A g \in Clerks : clerk'[g].step \in {"seminar", "refund", "cancel"} => clerk'[g].seat \in Seats
      BY <2>6 DEF SeminarInv, SeatsShaped
    <3> QED BY <1>1, <2>2, <2>4, <2>6, <2>7, <3>1 DEF SeminarInv, SeatsShaped
  <2>9. SeatsLeft'
    BY <2>6 DEF SeatsLeft
  <2>10. SeatsAreCounted'
    <3> SUFFICES ASSUME seminar'.alive, ~drifted'
                 PROVE  seminar'.count + Cardinality(Seating')
                          = Cardinality(Confirmed') + Cardinality(Unseating')
      BY DEF SeatsAreCounted, Seating, Unseating
    <3>1. seminar.count + Cardinality(Seating) = Cardinality(Confirmed) + Cardinality(Unseating)
      BY <1>1 DEF SeminarInv, SeatsAreCounted, Seating, Unseating
    <3>2. seminar'.count = seminar.count /\ seminar.count \in Int
      BY <1>1 DEF SeminarInv, SeatsShaped, SeminarShape
    <3> QED BY <2>4, <2>7, <3>1, <3>2, CountsTyped
  <2> QED BY <2>8, <2>9, <2>10 DEF SeminarInv
<1> QED BY <1>2, <1>3 DEF InsertSeat

\* The counter is saved one up or one down by the request that is waiting to.
LEMMA CountKeeps ==
  ASSUME SeminarInv, NEW h \in Clerks, clerk' = [clerk EXCEPT ![h] = IdleClerk],
         NEW copy \in CopyShape, NEW n \in Int,
         \/ clerk[h].step = "seat" /\ n = copy.count + 1
         \/ clerk[h].step = "unseat" /\ n = copy.count - 1,
         \/ seminar' = seminar
         \/ seminar' = Counted(copy, n),
         drifted' \in BOOLEAN,
         ~drifted' => ~drifted /\ seminar' = Counted(copy, n) /\ copy.count = seminar.count,
         UNCHANGED <<seats, purchase>>
  PROVE  SeminarInv'
<1> DEFINE full == IF (n >= copy.max) = copy.full THEN seminar.full ELSE n >= copy.max
           e == [seminar EXCEPT !.count = n, !.full = full]
<1>1. seminar \in SeminarShape /\ full \in BOOLEAN
  <2>1. seminar \in SeminarShape /\ seminar.full \in BOOLEAN
    BY DEF SeminarInv, SeatsShaped, SeminarShape
  <2> DEFINE b == n >= copy.max
  <2>2. b \in BOOLEAN
    OBVIOUS
  <2> HIDE DEF b
  <2>3. full = IF b = copy.full THEN seminar.full ELSE b
    BY Zenon DEF b
  <2> QED BY <2>1, <2>2, <2>3, Zenon
<1>2. Counted(copy, n) = e
  BY DEF Counted
<1>3. e \in SeminarShape /\ e.alive = seminar.alive /\ e.max = seminar.max /\ e.count = n
  <2> HIDE DEF full
  <2> QED BY <1>1 DEF SeminarShape
<1> HIDE DEF e
<1>4. seminar' \in SeminarShape /\ seminar'.alive = seminar.alive /\ seminar'.max = seminar.max
  BY <1>1, <1>2, <1>3
<1>5. Confirmed' = Confirmed /\ Existing' = Existing
  BY DEF Confirmed, Existing
<1>6. /\ clerk' \in [Clerks -> ClerkShape] /\ clerk'[h] = IdleClerk
      /\ \A g \in Clerks \ {h} : clerk'[g] = clerk[g]
  BY IdleClerkTyped, ClerkStays
<1>7. /\ IsFiniteSet(Seating') /\ IsFiniteSet(Unseating')
      /\ Cardinality(Seating') + (IF clerk[h].step = "seat" THEN 1 ELSE 0)
           = Cardinality(Seating) + (IF clerk'[h].step = "seat" THEN 1 ELSE 0)
      /\ Cardinality(Unseating') + (IF clerk[h].step = "unseat" THEN 1 ELSE 0)
           = Cardinality(Unseating) + (IF clerk'[h].step = "unseat" THEN 1 ELSE 0)
  BY <1>6, StepCounts
<1>8. SeatsShaped'
  <2>1. \A g \in Clerks : clerk'[g].step \in {"seminar", "refund", "cancel"} => clerk'[g].seat \in Seats
    BY <1>6, IdleClerkTyped DEF SeminarInv, SeatsShaped
  <2> QED BY <1>4, <1>5, <1>6, <1>7, <2>1 DEF SeminarInv, SeatsShaped
<1>9. SeatsLeft'
  BY <1>4, <1>5, <1>6, IdleClerkTyped DEF SeminarInv, SeatsLeft
<1>10. SeatsAreCounted'
  <2> SUFFICES ASSUME seminar'.alive, ~drifted'
               PROVE  seminar'.count + Cardinality(Seating')
                        = Cardinality(Confirmed') + Cardinality(Unseating')
    BY DEF SeatsAreCounted, Seating, Unseating
  <2>1. seminar.count + Cardinality(Seating) = Cardinality(Confirmed) + Cardinality(Unseating)
    BY <1>4 DEF SeminarInv, SeatsAreCounted, Seating, Unseating
  <2>2. seminar'.count = n /\ copy.count = seminar.count /\ seminar.count \in Int
    BY <1>1, <1>2, <1>3 DEF SeminarShape
  <2>3. Cardinality(Seating') \in Nat /\ Cardinality(Unseating') \in Nat
    BY <1>7, FS_CardinalityType
  <2>4. clerk'[h].step = "idle"
    BY <1>6, IdleClerkTyped
  <2>5. CASE clerk[h].step = "seat"
    <3>1. n = seminar.count + 1
      BY <2>2, <2>5
    <3>2. /\ Cardinality(Seating') + 1 = Cardinality(Seating) + 0
          /\ Cardinality(Unseating') + 0 = Cardinality(Unseating) + 0
      BY <1>7, <2>4, <2>5
    <3> QED BY <1>5, <2>1, <2>2, <2>3, <3>1, <3>2, CountsTyped
  <2>6. CASE clerk[h].step = "unseat"
    <3>1. n = seminar.count - 1
      BY <2>2, <2>6
    <3>2. /\ Cardinality(Seating') + 0 = Cardinality(Seating) + 0
          /\ Cardinality(Unseating') + 1 = Cardinality(Unseating) + 0
      BY <1>7, <2>4, <2>6
    <3> QED BY <1>5, <2>1, <2>2, <2>3, <3>1, <3>2, CountsTyped
  <2> QED BY <2>5, <2>6
<1> QED BY <1>8, <1>9, <1>10 DEF SeminarInv

LEMMA SaveSeatKeeps ==
  ASSUME SeminarInv, NEW h \in Clerks, SaveSeat(h) \/ FreeSeat(h) PROVE SeminarInv'
<1> DEFINE copy == clerk[h].copy
<1>1. copy \in CopyShape /\ copy.count + 1 \in Int /\ copy.count - 1 \in Int
  BY DEF SeminarInv, SeatsShaped, ClerkShape, CopyShape
<1>2. PICK n \in Int : /\ \/ clerk[h].step = "seat" /\ n = copy.count + 1
                          \/ clerk[h].step = "unseat" /\ n = copy.count - 1
                       /\ seminar' = IF SameArray(h) THEN Counted(copy, n) ELSE seminar
  BY <1>1 DEF SaveSeat, FreeSeat
<1>3. /\ drifted' = (drifted \/ ~SameArray(h) \/ copy.count # seminar.count)
      /\ clerk' = [clerk EXCEPT ![h] = IdleClerk] /\ UNCHANGED <<seats, purchase>>
  BY DEF SaveSeat, FreeSeat, ClerkEnds
<1>4. /\ drifted' \in BOOLEAN
      /\ ~drifted' => ~drifted /\ SameArray(h) /\ copy.count = seminar.count
  BY <1>3
<1> HIDE DEF copy
<1> QED BY <1>1, <1>2, <1>3, <1>4, CountKeeps

LEMMA ReadSeatKeeps ==
  ASSUME SeminarInv, NEW h \in Clerks, NEW b \in Seats, ReadSeat(h, b) PROVE SeminarInv'
<1> DEFINE d == [clerk[h] EXCEPT !.step = "seminar", !.seat = b]
<1>1. /\ clerk[h].step = "idle" /\ clerk[h] \in ClerkShape
      /\ UNCHANGED <<seminar, seats, purchase, drifted>>
  BY DEF ReadSeat, SeminarInv, SeatsShaped
<1>2. clerk' = [clerk EXCEPT ![h] = d]
  BY DEF ReadSeat, SeminarInv, SeatsShaped
<1>3. d \in ClerkShape /\ d.step = "seminar" /\ d.seat = b
  BY <1>1 DEF ClerkShape, ClerkSteps
<1> HIDE DEF d
<1> QED BY <1>1, <1>2, <1>3, ClerkKeeps DEF SeminarInv, SeatsShaped

LEMMA EndsKeeps ==
  ASSUME SeminarInv, NEW h \in Clerks, ClerkEnds(h), clerk[h].step \in {"seat", "unseat"} => drifted',
         seminar' \in SeminarShape, seminar'.count = seminar.count, seminar'.max = seminar.max,
         seminar'.alive => seminar.alive,
         drifted' \in BOOLEAN, ~drifted' => ~drifted, UNCHANGED <<seats, purchase>>
  PROVE  SeminarInv'
BY IdleClerkTyped, ClerkKeeps DEF ClerkEnds, SeminarInv, SeatsShaped

LEMMA ReadItsSeminarKeeps ==
  ASSUME SeminarInv, NEW h \in Clerks, ReadItsSeminar(h) PROVE SeminarInv'
<1>1. /\ clerk[h].step = "seminar" /\ clerk[h] \in ClerkShape /\ clerk[h].seat \in Seats
      /\ UNCHANGED <<seminar, seats, purchase, drifted>>
  BY DEF ReadItsSeminar, SeminarInv, SeatsShaped
<1>2. CASE ClerkEnds(h)
  BY <1>1, <1>2, EndsKeeps DEF SeminarInv, SeatsShaped
<1>3. ASSUME NEW n \in 0..Price,
             clerk' = [clerk EXCEPT ![h].copy = CopyOf(seminar), ![h].owed = n,
                                    ![h].step = IF n > 0 THEN "refund" ELSE "cancel"]
      PROVE  SeminarInv'
  <2> DEFINE c == CopyOf(seminar)
             step == IF n > 0 THEN "refund" ELSE "cancel"
             d == [clerk[h] EXCEPT !.copy = c, !.owed = n, !.step = step]
  <2>1. clerk' = [clerk EXCEPT ![h] = d]
    BY <1>3 DEF SeminarInv, SeatsShaped
  <2>2. c \in CopyShape /\ step \in {"refund", "cancel"} /\ n \in Nat
    BY CopyTyped, SeminarAssumption
  <2>3. d \in ClerkShape /\ d.step = step /\ d.seat = clerk[h].seat
    <3> HIDE DEF c, step
    <3> QED BY <1>1, <2>2 DEF ClerkShape, ClerkSteps
  <2> HIDE DEF d, step
  <2> QED BY <1>1, <2>1, <2>2, <2>3, ClerkKeeps DEF SeminarInv, SeatsShaped
<1> QED BY <1>2, <1>3 DEF ReadItsSeminar

LEMMA RefundSeatKeeps ==
  ASSUME SeminarInv, NEW h \in Clerks, RefundSeat(h) PROVE SeminarInv'
<1> DEFINE b == clerk[h].seat
           d == [clerk[h] EXCEPT !.step = "cancel"]
<1>1. /\ clerk[h].step = "refund" /\ clerk[h] \in ClerkShape /\ b \in Seats
      /\ UNCHANGED <<seminar, purchase, drifted>>
  BY DEF RefundSeat, SeminarInv, SeatsShaped
<1>2. CASE ClerkEnds(h) /\ UNCHANGED seats
  BY <1>1, <1>2, EndsKeeps DEF SeminarInv, SeatsShaped
<1>3. CASE /\ seats' = [seats EXCEPT ![b].refunded = @ + clerk[h].owed]
           /\ ClerkGoes(h, "cancel")
  <2>1. clerk' = [clerk EXCEPT ![h] = d]
    BY <1>3 DEF ClerkGoes, SeminarInv, SeatsShaped
  <2>2. d \in ClerkShape /\ d.step = "cancel" /\ d.seat = b
    BY <1>1 DEF ClerkShape, ClerkSteps
  <2>3. seats[b] \in SeatShape /\ seats[b].refunded + clerk[h].owed \in Nat
    BY <1>1 DEF SeminarInv, SeatsShaped, SeatShape, ClerkShape
  <2> DEFINE n == seats[b].refunded + clerk[h].owed
             f == [seats[b] EXCEPT !.refunded = n]
  <2>4. seats' = [seats EXCEPT ![b] = f]
    BY <1>3 DEF SeminarInv, SeatsShaped
  <2>5. f \in SeatShape /\ f.status = seats[b].status
    <3> HIDE DEF n, b
    <3>1. n \in Nat
      BY <2>3 DEF n
    <3> QED BY <2>3, <3>1 DEF SeatShape
  <2> HIDE DEF f, d, b
  <2>6. /\ seats' \in [Seats -> SeatShape]
        /\ \A c \in Seats : seats'[c].status = seats[c].status
    BY <1>1, <2>4, <2>5 DEF SeminarInv, SeatsShaped
  <2> QED BY <1>1, <2>1, <2>2, <2>6, ClerkKeeps DEF SeminarInv, SeatsShaped
<1> QED BY <1>2, <1>3 DEF RefundSeat

\* A booking is no longer confirmed, and its seat is about to be given back.
LEMMA SaveCancelledKeeps ==
  ASSUME SeminarInv, NEW h \in Clerks, SaveCancelledSeat(h) PROVE SeminarInv'
<1> DEFINE b == clerk[h].seat
           free == clerk[h].copy.count > 0
           u == [clerk[h] EXCEPT !.step = "unseat"]
           d == IF free THEN u ELSE IdleClerk
<1>1. /\ clerk[h].step = "cancel" /\ clerk[h] \in ClerkShape /\ b \in Seats
      /\ UNCHANGED <<seminar, purchase>>
  BY DEF SaveCancelledSeat, SeminarInv, SeatsShaped
<1>2. clerk' = [clerk EXCEPT ![h] = d]
  BY DEF SaveCancelledSeat, ClerkGoes, ClerkEnds, SeminarInv, SeatsShaped
<1>3. /\ drifted' \in BOOLEAN
      /\ ~drifted' => ~drifted /\ free /\ seats[b].status = "confirmed"
  BY DEF SaveCancelledSeat
<1>4. d \in ClerkShape /\ d.step \in {"unseat", "idle"} /\ (free => d.step = "unseat")
  <2>1. u \in ClerkShape /\ u.step = "unseat"
    BY <1>1 DEF ClerkShape, ClerkSteps
  <2> HIDE DEF u
  <2> QED BY <2>1, IdleClerkTyped
<1> DEFINE f == [seats[b] EXCEPT !.status = "cancelled"]
<1>5. seats' = [seats EXCEPT ![b] = f]
  BY DEF SaveCancelledSeat, SeminarInv, SeatsShaped
<1>6. seats[b] \in SeatShape /\ f \in SeatShape /\ f.status = "cancelled"
  <2>1. seats[b] \in SeatShape
    BY <1>1 DEF SeminarInv, SeatsShaped
  <2> QED BY <2>1 DEF SeatShape
<1> HIDE DEF d, f, b, free
<1>7. /\ clerk' \in [Clerks -> ClerkShape] /\ clerk'[h] = d
      /\ \A g \in Clerks \ {h} : clerk'[g] = clerk[g]
  BY <1>2, <1>4, ClerkStays
<1>8. /\ seats' \in [Seats -> SeatShape]
      /\ \A c \in Seats : seats'[c].status = IF c = b THEN "cancelled" ELSE seats[c].status
  BY <1>1, <1>5, <1>6 DEF SeminarInv, SeatsShaped
<1>9. Confirmed' = Confirmed \ {b} /\ Existing' = Existing \cup {b}
  BY <1>1, <1>8 DEF Confirmed, Existing, NoSeat
<1>10. /\ IsFiniteSet(Existing') /\ Cardinality(Confirmed') <= Cardinality(Confirmed)
       /\ Cardinality(Confirmed') \in Nat
       /\ seats[b].status = "confirmed" => Cardinality(Confirmed') = Cardinality(Confirmed) - 1
  <2>1. b \in Confirmed <=> seats[b].status = "confirmed"
    BY <1>1 DEF Confirmed
  <2>2. IsFiniteSet(Existing) /\ IsFiniteSet(Confirmed) /\ Cardinality(Confirmed) \in Nat
    BY CountsTyped, FS_CardinalityType DEF SeminarInv, SeatsShaped
  <2>3. IsFiniteSet(Existing')
    BY <1>9, <2>2, FS_AddElement
  <2>4. /\ IsFiniteSet(Confirmed \ {b})
        /\ Cardinality(Confirmed \ {b}) =
             IF b \in Confirmed THEN Cardinality(Confirmed) - 1 ELSE Cardinality(Confirmed)
    BY <2>2, FS_RemoveElement
  <2>5. Cardinality(Confirmed') \in Nat
    BY <1>9, <2>4, FS_CardinalityType
  <2> QED BY <1>9, <2>1, <2>2, <2>3, <2>4, <2>5
<1>11. /\ IsFiniteSet(Seating') /\ IsFiniteSet(Unseating')
       /\ Cardinality(Seating') = Cardinality(Seating)
       /\ d.step = "unseat" => Cardinality(Unseating') = Cardinality(Unseating) + 1
  <2>1. /\ IsFiniteSet(Seating') /\ IsFiniteSet(Unseating')
        /\ Cardinality(Seating') + (IF clerk[h].step = "seat" THEN 1 ELSE 0)
             = Cardinality(Seating) + (IF clerk'[h].step = "seat" THEN 1 ELSE 0)
        /\ Cardinality(Unseating') + (IF clerk[h].step = "unseat" THEN 1 ELSE 0)
             = Cardinality(Unseating) + (IF clerk'[h].step = "unseat" THEN 1 ELSE 0)
    BY <1>7, StepCounts
  <2>2. Cardinality(Seating') \in Nat /\ Cardinality(Unseating') \in Nat
    BY <2>1, FS_CardinalityType
  <2>3. clerk'[h].step # "seat" /\ clerk[h].step # "seat" /\ clerk[h].step # "unseat"
    BY <1>1, <1>4, <1>7
  <2>4. Cardinality(Seating') + 0 = Cardinality(Seating) + 0
    BY <2>1, <2>3
  <2>5. ASSUME d.step = "unseat" PROVE Cardinality(Unseating') + 0 = Cardinality(Unseating) + 1
    BY <1>7, <2>1, <2>3, <2>5
  <2> QED BY <2>1, <2>2, <2>4, <2>5, CountsTyped
<1>12. SeatsShaped'
  <2>1. \A g \in Clerks : clerk'[g].step \in {"seminar", "refund", "cancel"} => clerk'[g].seat \in Seats
    BY <1>4, <1>7 DEF SeminarInv, SeatsShaped
  <2> QED BY <1>1, <1>3, <1>7, <1>8, <1>10, <1>11, <2>1 DEF SeminarInv, SeatsShaped
<1>13. SeatsLeft'
  <2> SUFFICES ASSUME ~drifted', NEW g \in Clerks, clerk'[g].step \in {"tally", "insert"},
                      ~clerk'[g].late
               PROVE  Cardinality(Confirmed') < seminar.max
    BY <1>1 DEF SeatsLeft
  <2>1. g # h /\ clerk'[g] = clerk[g] /\ ~drifted
    BY <1>3, <1>4, <1>7
  <2>2. Cardinality(Confirmed) < seminar.max /\ seminar.max \in Nat
    BY <2>1 DEF SeminarInv, SeatsLeft, SeatsShaped, SeminarShape
  <2> QED BY <1>10, <2>2, CountsTyped
<1>14. SeatsAreCounted'
  <2> SUFFICES ASSUME seminar'.alive, ~drifted'
               PROVE  seminar'.count + Cardinality(Seating')
                        = Cardinality(Confirmed') + Cardinality(Unseating')
    BY DEF SeatsAreCounted, Seating, Unseating
  <2>1. seminar.count + Cardinality(Seating) = Cardinality(Confirmed) + Cardinality(Unseating)
    BY <1>1, <1>3 DEF SeminarInv, SeatsAreCounted, Seating, Unseating
  <2>2. /\ Cardinality(Confirmed') = Cardinality(Confirmed) - 1
        /\ Cardinality(Unseating') = Cardinality(Unseating) + 1
    BY <1>3, <1>4, <1>10, <1>11
  <2>3. seminar'.count = seminar.count /\ seminar.count \in Int
    BY <1>1 DEF SeminarInv, SeatsShaped, SeminarShape
  <2> QED BY <1>11, <2>1, <2>2, <2>3, CountsTyped
<1> QED BY <1>12, <1>13, <1>14 DEF SeminarInv

LEMMA ReadSeminarKeeps ==
  ASSUME SeminarInv, NEW h \in Clerks, ReadSeminar(h) PROVE SeminarInv'
<1> DEFINE c == CopyOf(seminar)
           d == [clerk[h] EXCEPT !.step = "edit", !.copy = c]
<1>1. /\ clerk[h].step = "idle" /\ clerk[h] \in ClerkShape
      /\ UNCHANGED <<seminar, seats, purchase, drifted>>
  BY DEF ReadSeminar, SeminarInv, SeatsShaped
<1>2. clerk' = [clerk EXCEPT ![h] = d]
  BY DEF ReadSeminar, SeminarInv, SeatsShaped
<1>3. d \in ClerkShape /\ d.step = "edit"
  <2>1. c \in CopyShape
    BY CopyTyped
  <2> HIDE DEF c
  <2> QED BY <1>1, <2>1 DEF ClerkShape, ClerkSteps
<1> HIDE DEF d
<1> QED BY <1>1, <1>2, <1>3, ClerkKeeps DEF SeminarInv, SeatsShaped

\* Whoever has counted the seats is late: the limit may be another one.
LEMMA SaveSessionsKeeps ==
  ASSUME SeminarInv, NEW h \in Clerks, NEW max \in 1..MaxSeats, NEW sameId \in BOOLEAN,
         SaveSessions(h, max, sameId)
  PROVE  SeminarInv'
<1> DEFINE copy == clerk[h].copy
           session == IF sameId THEN seminar.session ELSE seminar.version + 1
           e == [seminar EXCEPT !.session = session, !.max = max, !.count = copy.count,
                                !.full = copy.full, !.version = seminar.version + 1]
<1>1. /\ clerk[h].step = "edit" /\ clerk[h] \in ClerkShape /\ seminar.alive /\ seminar \in SeminarShape
      /\ UNCHANGED <<seats, purchase>>
      /\ clerk' = [g \in Clerks |-> IF g = h THEN IdleClerk ELSE
           [clerk[g] EXCEPT !.late = clerk[g].step \in {"tally", "insert"}]]
  BY DEF SaveSessions, SameArray, SeminarInv, SeatsShaped
<1>2. seminar' = e
  BY DEF SaveSessions
<1>3. /\ copy.count \in Int /\ copy.full \in BOOLEAN /\ session \in Nat /\ max \in Nat
      /\ seminar.version + 1 \in Nat
  BY <1>1, SeminarAssumption DEF ClerkShape, CopyShape, SeminarShape
<1>4. e \in SeminarShape /\ e.count = copy.count
  <2> DEFINE v == seminar.version + 1
  <2>1. v \in Nat
    BY <1>3
  <2> HIDE DEF session, copy, v
  <2>2. [seminar EXCEPT !.session = session, !.max = max, !.count = copy.count,
                        !.full = copy.full, !.version = v] \in SeminarShape
    BY <1>1, <1>3, <2>1 DEF SeminarShape
  <2>3. [seminar EXCEPT !.session = session, !.max = max, !.count = copy.count,
                        !.full = copy.full, !.version = v].count = copy.count
    BY <1>1 DEF SeminarShape
  <2> QED BY <2>2, <2>3 DEF v
<1>5. /\ drifted' \in BOOLEAN
      /\ ~drifted' => ~drifted /\ copy.count = seminar.count
  BY DEF SaveSessions
<1> HIDE DEF e, copy
<1>6. \A g \in Clerks : clerk[g] \in ClerkShape
  BY DEF SeminarInv, SeatsShaped
<1>7. /\ clerk' \in [Clerks -> ClerkShape] /\ clerk'[h].step = "idle"
      /\ \A g \in Clerks \ {h} : /\ clerk'[g].step = clerk[g].step /\ clerk'[g].seat = clerk[g].seat
                                 /\ clerk[g].step \in {"tally", "insert"} => clerk'[g].late
  <2>1. \A g \in Clerks : \A b \in BOOLEAN : LET d == [clerk[g] EXCEPT !.late = b] IN
          d \in ClerkShape /\ d.step = clerk[g].step /\ d.seat = clerk[g].seat /\ d.late = b
    BY <1>6 DEF ClerkShape
  <2>2. \A g \in Clerks : (clerk[g].step \in {"tally", "insert"}) \in BOOLEAN
    OBVIOUS
  <2> QED BY <1>1, <2>1, <2>2, IdleClerkTyped
<1>8. Confirmed' = Confirmed /\ Existing' = Existing
  BY <1>1 DEF Confirmed, Existing
<1>9. Seating' = Seating /\ Unseating' = Unseating
  BY <1>1, <1>7 DEF Seating, Unseating
<1>10. SeatsShaped'
  <2>1. \A g \in Clerks : clerk'[g].step \in {"seminar", "refund", "cancel"} => clerk'[g].seat \in Seats
    BY <1>7 DEF SeminarInv, SeatsShaped
  <2> QED BY <1>1, <1>2, <1>4, <1>5, <1>7, <1>8, <1>9, <2>1 DEF SeminarInv, SeatsShaped
<1>11. SeatsLeft'
  BY <1>7 DEF SeatsLeft
<1>12. SeatsAreCounted'
  <2> SUFFICES ASSUME seminar'.alive, ~drifted'
               PROVE  seminar'.count + Cardinality(Seating')
                        = Cardinality(Confirmed') + Cardinality(Unseating')
    BY DEF SeatsAreCounted, Seating, Unseating
  <2>1. seminar.count + Cardinality(Seating) = Cardinality(Confirmed) + Cardinality(Unseating)
    BY <1>1, <1>5 DEF SeminarInv, SeatsAreCounted, Seating, Unseating
  <2> QED BY <1>2, <1>4, <1>5, <1>8, <1>9, <2>1
<1> QED BY <1>10, <1>11, <1>12 DEF SeminarInv

LEMMA SeminarStatusKeeps ==
  ASSUME SeminarInv, NEW h \in Clerks, NEW status \in {"published", "archived"},
         SaveSeminarStatus(h, status) \/ DeleteSeminar(h)
  PROVE  SeminarInv'
<1>1. /\ clerk[h].step = "edit" /\ seminar \in SeminarShape /\ ClerkEnds(h)
      /\ UNCHANGED <<seats, purchase, drifted>>
      /\ seminar' \in {seminar, [seminar EXCEPT !.status = status], [seminar EXCEPT !.alive = FALSE]}
      /\ seminar'.alive => seminar.alive
  BY DEF SaveSeminarStatus, DeleteSeminar, SeminarInv, SeatsShaped, SeminarShape
<1>2. seminar' \in SeminarShape /\ seminar'.count = seminar.count /\ seminar'.max = seminar.max
  BY <1>1 DEF SeminarShape
<1> QED BY <1>1, <1>2, EndsKeeps DEF SeminarInv, SeatsShaped

LEMMA ClerkFailsKeeps ==
  ASSUME SeminarInv, NEW h \in Clerks, ClerkFails(h) PROVE SeminarInv'
<1>1. /\ drifted' \in BOOLEAN /\ (~drifted' => ~drifted)
      /\ clerk[h].step \in {"seat", "unseat"} => drifted'
  BY DEF ClerkFails
<1> QED BY <1>1, EndsKeeps DEF ClerkFails, SeminarInv, SeatsShaped

LEMMA PurchaseKeeps ==
  ASSUME SeminarInv, UNCHANGED <<seminar, seats, clerk, drifted>>,
         purchase' \in [Purchases -> [state : {"none", "open", "paid"}, session : Nat]]
  PROVE  SeminarInv'
<1>1. /\ Confirmed' = Confirmed /\ Existing' = Existing
      /\ Seating' = Seating /\ Unseating' = Unseating
  BY DEF Confirmed, Existing, Seating, Unseating
<1>2. SeatsShaped' /\ SeatsLeft'
  BY <1>1 DEF SeminarInv, SeatsShaped, SeatsLeft
<1>3. SeatsAreCounted'
  BY <1>1 DEF SeminarInv, SeatsAreCounted, Seating, Unseating
<1> QED BY <1>2, <1>3 DEF SeminarInv

LEMMA SeminarSteps == SeminarInv /\ [SeminarNext]_seminarVars => SeminarInv'
<1> SUFFICES ASSUME SeminarInv, [SeminarNext]_seminarVars PROVE SeminarInv'
  OBVIOUS
<1>1. CASE UNCHANGED seminarVars
  BY <1>1, PurchaseKeeps DEF seminarVars, SeminarInv, SeatsShaped
<1>2. ASSUME NEW p \in Purchases, StartPurchase(p) \/ PayPurchase(p) PROVE SeminarInv'
  <2>1. purchase' \in [Purchases -> [state : {"none", "open", "paid"}, session : Nat]]
    BY <1>2 DEF StartPurchase, PayPurchase, SeminarInv, SeatsShaped, SeminarShape
  <2> QED BY <1>2, <2>1, PurchaseKeeps DEF StartPurchase, PayPurchase
<1>3. ASSUME NEW h \in Clerks, NEW p \in Purchases, ReceivePurchase(h, p) PROVE SeminarInv'
  BY <1>3, ReceivePurchaseKeeps
<1>4. ASSUME NEW h \in Clerks, NEW b \in Seats, InsertSeat(h, b) \/ ReadSeat(h, b) PROVE SeminarInv'
  BY <1>4, InsertSeatKeeps, ReadSeatKeeps
<1>5. ASSUME NEW h \in Clerks, \/ TallyBookings(h) \/ SaveSeat(h) \/ ReadItsSeminar(h)
                               \/ RefundSeat(h) \/ SaveCancelledSeat(h) \/ FreeSeat(h)
      PROVE  SeminarInv'
  BY <1>5, TallyKeeps, SaveSeatKeeps, ReadItsSeminarKeeps, RefundSeatKeeps, SaveCancelledKeeps
<1>6. ASSUME NEW h \in Clerks, ReadSeminar(h) \/ ClerkFails(h) \/ DeleteSeminar(h) PROVE SeminarInv'
  BY <1>6, ReadSeminarKeeps, ClerkFailsKeeps, SeminarStatusKeeps
<1>7. ASSUME NEW h \in Clerks, NEW max \in 1..MaxSeats, NEW sameId \in BOOLEAN,
             SaveSessions(h, max, sameId)
      PROVE  SeminarInv'
  BY <1>7, SaveSessionsKeeps
<1>8. ASSUME NEW h \in Clerks, NEW status \in {"published", "archived"}, SaveSeminarStatus(h, status)
      PROVE  SeminarInv'
  BY <1>8, SeminarStatusKeeps
<1> QED BY <1>1, <1>2, <1>3, <1>4, <1>5, <1>6, <1>7, <1>8 DEF SeminarNext

LEMMA SeminarInvariance == SeminarSpec => []SeminarInv
BY SeminarStarts, SeminarSteps, PTL DEF SeminarSpec

\* The counter inside a seminar counts the confirmed bookings, but for those
\* whose request is between its two writes, until a counter is lost or saved
\* from an old copy.  For any number of requests, purchases, bookings and edits.
THEOREM SeatsStayCounted == SeminarSpec => []SeatsAreCounted
<1>1. SeminarInv => SeatsAreCounted
  BY DEF SeminarInv
<1> QED BY <1>1, SeminarInvariance, PTL

\* A seminar is oversold by a race or a drifted counter only, never by the
\* comparison of the counter with the limit.
THEOREM OversoldOnlyByRace == SeminarSpec => OversoldByRaceOnly
<1>1. SeminarInv => \A h \in Clerks : clerk[h].step = "insert" /\ clerk'[h].step = "seat" =>
                      Cardinality(Confirmed) < seminar.max \/ clerk[h].late \/ drifted
  BY DEF SeminarInv, SeatsLeft
<1> QED BY <1>1, SeminarInvariance, PTL DEF OversoldByRaceOnly

-----------------------------------------------------------------------------
(* The clients of the salon                                                *)

BookingSteps == {"touch", "find", "relate", "visit"}

DeletingSteps == {"anonymise", "erase"}

FigureSteps == {"tally", "figures"}

\* A request that has got beyond its search works on one client, and an id that
\* has not been given out is nobody's.
EveryDeskHasItsClient ==
  \A h \in Desks :
    /\ desk[h].step \notin {"idle", "create", "password", "google"} => desk[h].client \in Clients
    /\ desk[h].step # "idle" /\ desk[h].client \in Clients => client[desk[h].client].state # "none"

VisitsHaveClients ==
  \A v \in Visits : visit[v].client \in Clients => client[visit[v].client].state # "none"

\* From the first of the three deletions on, nobody books for the client.
DeletionIsUndisturbed ==
  \A c \in Clients \ crossed :
    (client[c].state = "gone" \/ \E g \in Desks : desk[g].client = c /\ desk[g].step \in DeletingSteps) =>
      /\ ~relation[c].there
      /\ \A g \in Desks : desk[g].client = c => desk[g].step \notin BookingSteps

\* From the second on, no appointment names it.
VisitsAreAnonymous ==
  \A c \in Clients \ crossed :
    (client[c].state = "gone" \/ \E g \in Desks : desk[g].client = c /\ desk[g].step = "erase") =>
      \A v \in Visits : visit[v].client # c

\* The figure is current unless a request is on its way to renew it ...
FiguresAreDue ==
  \A c \in Clients \ outdated :
    relation[c].there /\ (\A g \in Desks : desk[g].client = c => desk[g].step \notin FigureSteps) =>
      relation[c].visits = Cardinality(ConfirmedVisit(c))

\* ... and what that request has counted is what there is.
CountsAreFresh ==
  \A g \in Desks : desk[g].step = "figures" /\ desk[g].client \in Clients \ outdated =>
    desk[g].count = Cardinality(ConfirmedVisit(desk[g].client))

ClientInv ==
  /\ ClientTypeOK
  /\ EveryDeskHasItsClient
  /\ VisitsHaveClients
  /\ DeletionIsUndisturbed
  /\ VisitsAreAnonymous
  /\ FiguresAreDue
  /\ CountsAreFresh

LEMMA IdleDeskTyped ==
  IdleDesk \in DeskStates /\ IdleDesk.step = "idle" /\ IdleDesk.client = NoClient
<1>1. 0 \in 0..Cardinality(Visits)
  BY ClientAssumption, FS_CardinalityType
<1> QED BY <1>1 DEF IdleDesk, DeskStates, DeskSteps, NoPassword

\* There are never more confirmed visits than visits.
LEMMA VisitCounts ==
  ASSUME NEW c
  PROVE  IsFiniteSet(ConfirmedVisit(c)) /\ Cardinality(ConfirmedVisit(c)) \in 0..Cardinality(Visits)
<1>1. ConfirmedVisit(c) \subseteq Visits
  BY DEF ConfirmedVisit
<1> QED BY <1>1, ClientAssumption, FS_Subset, FS_CardinalityType

LEMMA ClientsStart == ClientInit => ClientInv
<1> SUFFICES ASSUME ClientInit PROVE ClientInv
  OBVIOUS
<1>1. 0 \in 0..Cardinality(Visits)
  BY ClientAssumption, FS_CardinalityType
<1>2. /\ \A h \in Desks : desk[h] \in DeskStates /\ desk[h].step = "idle"
      /\ desk \in [Desks -> DeskStates]
  BY IdleDeskTyped DEF ClientInit
<1>3. ClientTypeOK
  BY <1>1, <1>2 DEF ClientInit, ClientTypeOK, ClientDocs, RelationDocs, VisitDocs
<1>4. \A c \in Clients : client[c].state = "none" /\ ~relation[c].there
  BY DEF ClientInit
<1>5. EveryDeskHasItsClient /\ VisitsHaveClients
  BY <1>2, ClientAssumption DEF EveryDeskHasItsClient, VisitsHaveClients, ClientInit
<1>6. DeletionIsUndisturbed /\ VisitsAreAnonymous
  BY <1>2, <1>4 DEF DeletionIsUndisturbed, VisitsAreAnonymous, DeletingSteps
<1>7. FiguresAreDue /\ CountsAreFresh
  BY <1>2, <1>4 DEF FiguresAreDue, CountsAreFresh
<1> QED BY <1>3, <1>5, <1>6, <1>7 DEF ClientInv

\* A request goes on, or ends, and does not touch what the salon keeps.
LEMMA DeskKeeps ==
  ASSUME ClientInv, NEW h \in Desks, NEW d \in DeskStates, desk' = [desk EXCEPT ![h] = d],
         UNCHANGED <<relation, visit>>,
         client' \in [Clients -> ClientDocs],
         \A c \in Clients : \/ client'[c].state = client[c].state
                            \/ client[c].state = "none" /\ client'[c].state = "there",
         crossed \subseteq crossed', crossed' \subseteq Clients,
         outdated \subseteq outdated', outdated' \subseteq Clients,
         desk[h].step \in FigureSteps => desk[h].client \in outdated',
         d.step \notin DeletingSteps \cup FigureSteps,
         d.step \notin {"idle", "create", "password", "google"} => d.client \in Clients,
         d.step # "idle" /\ d.client \in Clients => client'[d.client].state # "none",
         d.step \in BookingSteps =>
           \/ d.client \in crossed'
           \/ Deleting(d.client) = {} /\ client[d.client].state # "gone"
           \/ desk[h].step \in BookingSteps /\ desk[h].client = d.client
  PROVE  ClientInv'
<1>1. /\ desk' \in [Desks -> DeskStates] /\ desk'[h] = d
      /\ \A g \in Desks \ {h} : desk'[g] = desk[g]
  BY DEF ClientInv, ClientTypeOK
<1>2. ClientTypeOK'
  BY <1>1 DEF ClientInv, ClientTypeOK
<1>3. EveryDeskHasItsClient' /\ VisitsHaveClients'
  BY <1>1 DEF ClientInv, EveryDeskHasItsClient, VisitsHaveClients, ClientTypeOK
<1>4. \A c \in Clients, g \in Desks :
        desk'[g].client = c /\ desk'[g].step \in DeletingSteps => g # h /\ desk[g] = desk'[g]
  BY <1>1
<1>5. DeletionIsUndisturbed'
  <2> SUFFICES ASSUME NEW c \in Clients \ crossed',
                      \/ client'[c].state = "gone"
                      \/ \E g \in Desks : desk'[g].client = c /\ desk'[g].step \in DeletingSteps
               PROVE  /\ ~relation'[c].there
                      /\ \A g \in Desks : desk'[g].client = c => desk'[g].step \notin BookingSteps
    BY DEF DeletionIsUndisturbed
  <2>1. \/ client[c].state = "gone"
        \/ \E g \in Desks : desk[g].client = c /\ desk[g].step \in DeletingSteps
    BY <1>4
  <2>2. /\ ~relation[c].there
        /\ \A g \in Desks : desk[g].client = c => desk[g].step \notin BookingSteps
    BY <2>1 DEF ClientInv, DeletionIsUndisturbed
  <2>3. ~(Deleting(c) = {} /\ client[c].state # "gone")
    BY <2>1 DEF Deleting, UsedBy, DeletingSteps
  <2> QED BY <1>1, <2>2, <2>3
<1>6. VisitsAreAnonymous'
  BY <1>4 DEF ClientInv, VisitsAreAnonymous, DeletingSteps
<1>7. \A c : ConfirmedVisit(c)' = ConfirmedVisit(c)
  BY DEF ConfirmedVisit
<1>8. FiguresAreDue'
  BY <1>1, <1>7 DEF ClientInv, FiguresAreDue
<1>9. CountsAreFresh'
  BY <1>1, <1>7 DEF ClientInv, CountsAreFresh, FigureSteps
<1> QED BY <1>2, <1>3, <1>5, <1>6, <1>8, <1>9 DEF ClientInv

\* A request ends that was not about figures.
LEMMA DeskEndsKeeps ==
  ASSUME ClientInv, NEW h \in Desks, DeskEnds(h), UNCHANGED <<client, relation, visit, crossed>>,
         outdated' = outdated \/ (desk[h].client \in Clients /\ outdated' = outdated \cup {desk[h].client}),
         desk[h].step \in FigureSteps => desk[h].client \in outdated'
  PROVE  ClientInv'
<1>1. crossed' \subseteq Clients /\ outdated \subseteq outdated' /\ outdated' \subseteq Clients
      /\ client' \in [Clients -> ClientDocs]
  BY DEF ClientInv, ClientTypeOK
<1> DEFINE d == IdleDesk
<1>2. d \in DeskStates /\ d.step = "idle" /\ desk' = [desk EXCEPT ![h] = d]
  BY IdleDeskTyped DEF DeskEnds
<1> HIDE DEF d
<1> QED BY <1>1, <1>2, DeskKeeps DEF DeletingSteps, FigureSteps, BookingSteps

\* A request goes on with the client it has.
LEMMA DeskGoesKeeps ==
  ASSUME ClientInv, NEW h \in Desks, NEW step \in DeskSteps, DeskGoes(h, step),
         UNCHANGED <<relation, visit, crossed, outdated>>,
         client' \in [Clients -> ClientDocs],
         \A c \in Clients : client'[c].state = client[c].state,
         desk[h].step \notin FigureSteps \cup {"idle", "create", "password", "google"},
         step \notin DeletingSteps \cup FigureSteps,
         step \in BookingSteps => desk[h].step \in BookingSteps
  PROVE  ClientInv'
<1> DEFINE d == [desk[h] EXCEPT !.step = step]
<1>1. d \in DeskStates /\ d.step = step /\ d.client = desk[h].client
  BY DEF ClientInv, ClientTypeOK, DeskStates
<1>2. desk' = [desk EXCEPT ![h] = d]
  BY DEF DeskGoes, ClientInv, ClientTypeOK
<1>3. desk[h].client \in Clients /\ client[desk[h].client].state # "none"
  BY DEF ClientInv, EveryDeskHasItsClient
<1>4. crossed' \subseteq Clients /\ outdated' \subseteq Clients
  BY DEF ClientInv, ClientTypeOK
<1> HIDE DEF d
<1> QED BY <1>1, <1>2, <1>3, <1>4, DeskKeeps

\* A request finds the client, or that there is none.
LEMMA LooksUpKeeps ==
  ASSUME ClientInv, NEW h \in Desks, NEW given \in Secrets \cup {NoPassword},
         NEW found \in DeskSteps, NEW absent \in {"create", "password", "google"},
         LooksUp(h, given, found, absent), UNCHANGED <<client, relation, visit, outdated>>,
         crossed \subseteq crossed', crossed' \subseteq Clients,
         found \notin DeletingSteps \cup FigureSteps,
         found \in BookingSteps => \A c \in Present : Deleting(c) # {} => c \in crossed'
  PROVE  ClientInv'
<1>1. desk[h].step = "idle" /\ client' \in [Clients -> ClientDocs] /\ outdated' \subseteq Clients
  BY DEF LooksUp, ClientInv, ClientTypeOK
<1>2. ASSUME NEW c \in Present,
             desk' = [desk EXCEPT ![h] = [IdleDesk EXCEPT !.step = found, !.client = c, !.given = given]]
      PROVE  ClientInv'
  <2> DEFINE d == [IdleDesk EXCEPT !.step = found, !.client = c, !.given = given]
  <2>1. c \in Clients /\ client[c].state = "there"
    BY DEF Present
  <2>2. d \in DeskStates /\ d.step = found /\ d.client = c
    BY <2>1, IdleDeskTyped DEF DeskStates
  <2>3. desk' = [desk EXCEPT ![h] = d]
    BY <1>2
  <2> HIDE DEF d
  <2> QED BY <1>1, <2>1, <2>2, <2>3, DeskKeeps DEF FigureSteps
<1>3. ASSUME desk' = [desk EXCEPT ![h] = [IdleDesk EXCEPT !.step = absent, !.given = given]]
      PROVE  ClientInv'
  <2> DEFINE d == [IdleDesk EXCEPT !.step = absent, !.given = given]
  <2>1. d \in DeskStates /\ d.step = absent /\ d.client = NoClient
    BY IdleDeskTyped DEF DeskStates, DeskSteps
  <2>2. desk' = [desk EXCEPT ![h] = d]
    BY <1>3
  <2>3. NoClient \notin Clients
    BY ClientAssumption
  <2> HIDE DEF d
  <2> QED BY <1>1, <2>1, <2>2, <2>3, DeskKeeps DEF FigureSteps, DeletingSteps, BookingSteps
<1> QED BY <1>2, <1>3 DEF LooksUp

\* A request creates the client, or finds that it is not the first.
LEMMA CreatesKeeps ==
  ASSUME ClientInv, NEW h \in Desks, NEW c \in Clients, NEW step \in {"find", "token"},
         Creates(h, c, step), UNCHANGED <<relation, visit, crossed, outdated>>,
         desk[h].step \in {"create", "password", "google"}
  PROVE  ClientInv'
<1>1. CASE DeskEnds(h) /\ UNCHANGED client
  BY <1>1, DeskEndsKeeps DEF FigureSteps
<1>2. CASE /\ client[c].state = "none"
           /\ client' = [client EXCEPT ![c] = [state |-> "there", password |-> desk[h].given]]
           /\ desk' = [desk EXCEPT ![h].step = step, ![h].client = c]
  <2> DEFINE d == [desk[h] EXCEPT !.step = step, !.client = c]
  <2>1. d \in DeskStates /\ d.step = step /\ d.client = c
    BY DEF ClientInv, ClientTypeOK, DeskStates, DeskSteps
  <2>2. desk' = [desk EXCEPT ![h] = d]
    BY <1>2 DEF ClientInv, ClientTypeOK
  <2>3. desk[h].given \in Secrets \cup {NoPassword}
    BY DEF ClientInv, ClientTypeOK, DeskStates
  <2>4. /\ client' \in [Clients -> ClientDocs] /\ client'[c].state = "there"
        /\ \A e \in Clients \ {c} : client'[e] = client[e]
    BY <1>2, <2>3 DEF ClientInv, ClientTypeOK, ClientDocs
  <2>5. Deleting(c) = {}
    BY <1>2 DEF Deleting, UsedBy, ClientInv, EveryDeskHasItsClient
  <2>6. crossed' \subseteq Clients /\ outdated' \subseteq Clients
    BY DEF ClientInv, ClientTypeOK
  <2>7. /\ \A e \in Clients : \/ client'[e].state = client[e].state
                              \/ client[e].state = "none" /\ client'[e].state = "there"
        /\ client[c].state # "gone" /\ client'[c].state # "none"
    BY <1>2, <2>4
  <2>8. desk[h].step \notin FigureSteps /\ d.step \notin DeletingSteps \cup FigureSteps
    BY <2>1 DEF FigureSteps, DeletingSteps
  <2> HIDE DEF d
  <2> QED BY <2>1, <2>2, <2>4, <2>5, <2>6, <2>7, <2>8, DeskKeeps
<1> QED BY <1>1, <1>2 DEF Creates

LEMMA BookKeeps == ASSUME ClientInv, NEW h \in Desks, Book(h) PROVE ClientInv'
<1>1. crossed \subseteq crossed' /\ crossed' \subseteq Clients
  BY DEF Book, ClientInv, ClientTypeOK, Present
<1>2. \A c \in Present : Deleting(c) # {} => c \in crossed'
  BY DEF Book
<1> QED BY <1>1, <1>2, LooksUpKeeps DEF Book, DeskSteps, DeletingSteps, FigureSteps

\* What can be said of a request that is at a step.
LEMMA AtItsStep ==
  ASSUME ClientInv, NEW h \in Desks
  PROVE  /\ desk[h] \in DeskStates
         /\ desk[h].step \notin {"idle", "create", "password", "google"} =>
              desk[h].client \in Clients /\ client[desk[h].client].state \in {"there", "gone"}
         /\ relation \in [Clients -> RelationDocs] /\ visit \in [Visits -> VisitDocs]
         /\ client \in [Clients -> ClientDocs] /\ desk \in [Desks -> DeskStates]
         /\ crossed \subseteq Clients /\ outdated \subseteq Clients
  BY DEF ClientInv, ClientTypeOK, EveryDeskHasItsClient, ClientDocs

\* The relation is new, and so is its figure.
LEMMA CreateTenantClientKeeps ==
  ASSUME ClientInv, NEW h \in Desks, CreateTenantClient(h) PROVE ClientInv'
<1> DEFINE c == desk[h].client
           d == [desk[h] EXCEPT !.step = "visit"]
<1>1. desk[h].step = "relate" /\ c \in Clients /\ UNCHANGED <<client, visit, crossed>>
  BY AtItsStep DEF CreateTenantClient
<1>2. CASE relation[c].there /\ DeskEnds(h) /\ UNCHANGED <<relation, outdated>>
  BY <1>1, <1>2, DeskEndsKeeps DEF FigureSteps
<1>3. CASE /\ relation' = [relation EXCEPT ![c] = [there |-> TRUE, visits |-> 0]]
           /\ outdated' = IF ConfirmedVisit(c) # {} THEN outdated \cup {c} ELSE outdated
           /\ DeskGoes(h, "visit")
  <2>1. d \in DeskStates /\ d.step = "visit" /\ d.client = c
    BY AtItsStep DEF DeskStates, DeskSteps
  <2>2. desk' = [desk EXCEPT ![h] = d]
    BY <1>3, AtItsStep DEF DeskGoes
  <2> HIDE DEF d
  <2>3. /\ desk' \in [Desks -> DeskStates] /\ desk'[h] = d
        /\ \A g \in Desks \ {h} : desk'[g] = desk[g]
    BY <2>1, <2>2, AtItsStep
  <2>4. 0 \in 0..Cardinality(Visits)
    BY ClientAssumption, FS_CardinalityType
  <2>5. /\ relation' \in [Clients -> RelationDocs] /\ relation'[c].visits = 0
        /\ \A e \in Clients \ {c} : relation'[e] = relation[e]
    BY <1>1, <1>3, <2>4, AtItsStep DEF RelationDocs
  <2>6. outdated \subseteq outdated' /\ outdated' \subseteq Clients
    BY <1>1, <1>3, AtItsStep
  <2>7. ClientTypeOK'
    BY <1>1, <2>3, <2>5, <2>6 DEF ClientInv, ClientTypeOK
  <2>8. EveryDeskHasItsClient' /\ VisitsHaveClients'
    BY <1>1, <2>1, <2>3, AtItsStep DEF ClientInv, EveryDeskHasItsClient, VisitsHaveClients
  <2>9. DeletionIsUndisturbed'
    <3> SUFFICES ASSUME NEW e \in Clients \ crossed,
                        \/ client[e].state = "gone"
                        \/ \E g \in Desks : desk'[g].client = e /\ desk'[g].step \in DeletingSteps
                 PROVE  /\ ~relation'[e].there
                        /\ \A g \in Desks : desk'[g].client = e => desk'[g].step \notin BookingSteps
      BY <1>1 DEF DeletionIsUndisturbed
    <3>1. \/ client[e].state = "gone"
          \/ \E g \in Desks : desk[g].client = e /\ desk[g].step \in DeletingSteps
      BY <2>1, <2>3 DEF DeletingSteps
    <3>2. /\ ~relation[e].there
          /\ \A g \in Desks : desk[g].client = e => desk[g].step \notin BookingSteps
      BY <3>1 DEF ClientInv, DeletionIsUndisturbed
    <3>3. e # c
      BY <1>1, <3>2 DEF BookingSteps
    <3> QED BY <2>1, <2>3, <2>5, <3>2, <3>3
  <2>10. VisitsAreAnonymous'
    BY <1>1, <2>1, <2>3 DEF ClientInv, VisitsAreAnonymous
  <2>11. \A e : ConfirmedVisit(e)' = ConfirmedVisit(e)
    BY <1>1 DEF ConfirmedVisit
  <2>12. FiguresAreDue'
    <3> SUFFICES ASSUME NEW e \in Clients \ outdated', relation'[e].there,
                        \A g \in Desks : desk'[g].client = e => desk'[g].step \notin FigureSteps
                 PROVE  relation'[e].visits = Cardinality(ConfirmedVisit(e))
      BY <2>11 DEF FiguresAreDue
    <3>1. CASE e = c
      BY <1>3, <2>5, <3>1, FS_EmptySet
    <3>2. CASE e # c
      <4>1. \A g \in Desks : desk[g].client = e => desk[g].step \notin FigureSteps
        BY <2>3, <3>2
      <4> QED BY <2>5, <2>6, <3>2, <4>1 DEF ClientInv, FiguresAreDue
    <3> QED BY <3>1, <3>2
  <2>13. CountsAreFresh'
    BY <2>1, <2>3, <2>6, <2>11 DEF ClientInv, CountsAreFresh
  <2> QED BY <2>7, <2>8, <2>9, <2>10, <2>12, <2>13 DEF ClientInv
<1> QED BY <1>2, <1>3 DEF CreateTenantClient

\* An appointment is booked; it is not confirmed, so no figure changes.
LEMMA CreateVisitKeeps ==
  ASSUME ClientInv, NEW h \in Desks, NEW v \in Visits, CreateVisit(h, v) PROVE ClientInv'
<1> DEFINE c == desk[h].client
<1>1. /\ desk[h].step = "visit" /\ c \in Clients /\ UNCHANGED <<client, relation, crossed, outdated>>
      /\ visit[v].state = "none"
  BY AtItsStep DEF CreateVisit
<1>2. /\ visit' \in [Visits -> VisitDocs] /\ visit'[v] = [state |-> "booked", client |-> c]
      /\ \A w \in Visits \ {v} : visit'[w] = visit[w]
  BY <1>1, AtItsStep DEF CreateVisit, VisitDocs
<1> DEFINE d == IdleDesk
<1>3. d \in DeskStates /\ d.step = "idle" /\ desk' = [desk EXCEPT ![h] = d]
  BY IdleDeskTyped DEF CreateVisit, DeskEnds
<1> HIDE DEF d
<1>4. /\ desk' \in [Desks -> DeskStates] /\ desk'[h] = d
      /\ \A g \in Desks \ {h} : desk'[g] = desk[g]
  BY <1>3, AtItsStep
<1>5. ClientTypeOK'
  BY <1>1, <1>2, <1>4 DEF ClientInv, ClientTypeOK
<1>6. EveryDeskHasItsClient' /\ VisitsHaveClients'
  BY <1>1, <1>2, <1>3, <1>4, AtItsStep DEF ClientInv, EveryDeskHasItsClient, VisitsHaveClients
<1>7. DeletionIsUndisturbed'
  BY <1>1, <1>3, <1>4 DEF ClientInv, DeletionIsUndisturbed, DeletingSteps, BookingSteps
<1>8. VisitsAreAnonymous'
  <2> SUFFICES ASSUME NEW e \in Clients \ crossed,
                      \/ client[e].state = "gone"
                      \/ \E g \in Desks : desk'[g].client = e /\ desk'[g].step = "erase"
               PROVE  \A w \in Visits : visit'[w].client # e
    BY <1>1 DEF VisitsAreAnonymous
  <2>1. \/ client[e].state = "gone"
        \/ \E g \in Desks : desk[g].client = e /\ desk[g].step = "erase"
    BY <1>3, <1>4
  <2>2. \A w \in Visits : visit[w].client # e
    BY <2>1 DEF ClientInv, VisitsAreAnonymous
  <2>3. \A g \in Desks : desk[g].client = e => desk[g].step \notin BookingSteps
    BY <2>1 DEF ClientInv, DeletionIsUndisturbed, DeletingSteps
  <2>4. e # c
    BY <1>1, <2>3 DEF BookingSteps
  <2> QED BY <1>2, <2>2, <2>4
<1>9. \A e : ConfirmedVisit(e)' = ConfirmedVisit(e)
  BY <1>1, <1>2 DEF ConfirmedVisit
<1>10. FiguresAreDue'
  BY <1>1, <1>4, <1>9 DEF ClientInv, FiguresAreDue, FigureSteps
<1>11. CountsAreFresh'
  BY <1>1, <1>3, <1>4, <1>9 DEF ClientInv, CountsAreFresh
<1> QED BY <1>5, <1>6, <1>7, <1>8, <1>10, <1>11 DEF ClientInv

\* An appointment changes, not its client; a figure that counts it is outdated, or a
\* request is on its way.
LEMMA VisitChangeKeeps ==
  ASSUME ClientInv, NEW v \in Visits, NEW state \in {"confirmed", "cancelled"},
         visit' = [visit EXCEPT ![v].state = state],
         visit[v].state \in {"booked", "confirmed"},
         UNCHANGED <<client, relation, crossed>>,
         outdated \subseteq outdated', outdated' \subseteq Clients,
         desk' \in [Desks -> DeskStates],
         \A g \in Desks : \/ desk'[g] = desk[g]
                          \/ desk[g].step = "idle" /\ desk'[g].step = "tally" /\ desk'[g].client = visit[v].client
                             /\ visit[v].client \in Clients,
         visit[v].client \in Clients /\ "confirmed" \in {state, visit[v].state} =>
           \/ visit[v].client \in outdated'
           \/ /\ \E g \in Desks : desk'[g].client = visit[v].client /\ desk'[g].step = "tally"
              /\ \A g \in Desks : desk'[g].client = visit[v].client => desk'[g].step # "figures"
  PROVE  ClientInv'
<1>1. /\ visit' \in [Visits -> VisitDocs] /\ visit'[v].client = visit[v].client
      /\ visit'[v].state = state /\ \A w \in Visits \ {v} : visit'[w] = visit[w]
  BY AtItsStep DEF VisitDocs, ClientInv, ClientTypeOK
<1>2. ClientTypeOK'
  BY <1>1 DEF ClientInv, ClientTypeOK
<1>3. EveryDeskHasItsClient' /\ VisitsHaveClients'
  BY <1>1 DEF ClientInv, EveryDeskHasItsClient, VisitsHaveClients
<1>4. DeletionIsUndisturbed' /\ VisitsAreAnonymous'
  BY <1>1 DEF ClientInv, DeletionIsUndisturbed, VisitsAreAnonymous, DeletingSteps, BookingSteps
<1>5. ASSUME NEW e \in Clients, e # visit[v].client \/ "confirmed" \notin {state, visit[v].state}
      PROVE  ConfirmedVisit(e)' = ConfirmedVisit(e)
  BY <1>1, <1>5 DEF ConfirmedVisit
<1>6. FiguresAreDue'
  <2> SUFFICES ASSUME NEW e \in Clients \ outdated', relation[e].there,
                      \A g \in Desks : desk'[g].client = e => desk'[g].step \notin FigureSteps
               PROVE  relation[e].visits = Cardinality(ConfirmedVisit(e)')
    BY DEF FiguresAreDue
  <2>1. \A g \in Desks : desk[g].client = e => desk[g].step \notin FigureSteps
    BY DEF FigureSteps
  <2>2. e # visit[v].client \/ "confirmed" \notin {state, visit[v].state}
    BY DEF FigureSteps
  <2> QED BY <1>5, <2>1, <2>2 DEF ClientInv, FiguresAreDue
<1>7. CountsAreFresh'
  <2> SUFFICES ASSUME NEW g \in Desks, desk'[g].step = "figures", desk'[g].client \in Clients \ outdated'
               PROVE  desk'[g].count = Cardinality({w \in Visits : /\ visit'[w].client = desk'[g].client
                                                                   /\ visit'[w].state = "confirmed"})
    BY DEF CountsAreFresh, ConfirmedVisit
  <2>1. desk'[g] = desk[g]
    OBVIOUS
  <2>2. desk[g].client # visit[v].client \/ "confirmed" \notin {state, visit[v].state}
    BY <2>1
  <2>3. desk[g].count = Cardinality(ConfirmedVisit(desk[g].client))
    BY <2>1 DEF ClientInv, CountsAreFresh
  <2>4. {w \in Visits : visit'[w].client = desk'[g].client /\ visit'[w].state = "confirmed"}
          = ConfirmedVisit(desk[g].client)
    BY <1>1, <2>1, <2>2 DEF ConfirmedVisit
  <2> QED BY <2>1, <2>3, <2>4
<1> QED BY <1>2, <1>3, <1>4, <1>6, <1>7 DEF ClientInv

LEMMA ConfirmVisitKeeps ==
  ASSUME ClientInv, NEW h \in Desks, NEW v \in Visits, ConfirmVisit(h, v) PROVE ClientInv'
<1> DEFINE c == visit[v].client
           d == [IdleDesk EXCEPT !.step = "tally", !.client = c]
<1>1. /\ desk[h].step = "idle" /\ c \in Clients /\ visit[v].state = "booked"
      /\ visit' = [visit EXCEPT ![v].state = "confirmed"]
      /\ desk' = [desk EXCEPT ![h] = d] /\ UNCHANGED <<client, relation, crossed>>
  BY AtItsStep DEF ConfirmVisit, VisitDocs
<1>2. d \in DeskStates /\ d.step = "tally" /\ d.client = c
  BY <1>1, IdleDeskTyped DEF DeskStates, DeskSteps
<1> HIDE DEF d
<1>3. /\ desk' \in [Desks -> DeskStates] /\ desk'[h] = d
      /\ \A g \in Desks \ {h} : desk'[g] = desk[g]
  BY <1>1, <1>2, AtItsStep
<1>4. outdated \subseteq outdated' /\ outdated' \subseteq Clients
  BY <1>1, AtItsStep DEF ConfirmVisit
<1>5. \/ c \in outdated'
      \/ \A g \in Desks : desk'[g].client = c => desk'[g].step # "figures"
  BY <1>2, <1>3 DEF ConfirmVisit
<1> QED BY <1>1, <1>2, <1>3, <1>4, <1>5, VisitChangeKeeps

LEMMA ChangeVisitKeeps ==
  ASSUME ClientInv, NEW v \in Visits, NEW state \in {"confirmed", "cancelled"}, ChangeVisit(v, state)
  PROVE  ClientInv'
<1> DEFINE c == visit[v].client
<1>1. /\ visit' = [visit EXCEPT ![v].state = state] /\ UNCHANGED <<client, relation, desk, crossed>>
      /\ visit[v].state \in {"booked", "confirmed"} /\ c \in Clients \cup {NoClient}
      /\ desk' \in [Desks -> DeskStates]
  BY AtItsStep DEF ChangeVisit, VisitDocs, ClientInv, ClientTypeOK
<1>2. outdated \subseteq outdated' /\ outdated' \subseteq Clients
  BY <1>1, AtItsStep DEF ChangeVisit, ClientInv, ClientTypeOK
<1>3. c \in Clients /\ "confirmed" \in {state, visit[v].state} => c \in outdated'
  BY ClientAssumption DEF ChangeVisit
<1> QED BY <1>1, <1>2, <1>3, VisitChangeKeeps

\* The visits are counted ...
LEMMA TallyVisitsKeeps == ASSUME ClientInv, NEW h \in Desks, Tally(h) PROVE ClientInv'
<1> DEFINE c == desk[h].client
           n == Cardinality(ConfirmedVisit(c))
           d == [desk[h] EXCEPT !.step = "figures", !.count = n]
<1>1. /\ desk[h].step = "tally" /\ c \in Clients
      /\ UNCHANGED <<client, relation, visit, crossed, outdated>>
  BY AtItsStep DEF Tally
<1>2. n \in 0..Cardinality(Visits)
  BY VisitCounts
<1>3. desk' = [desk EXCEPT ![h] = d]
  BY AtItsStep DEF Tally, CountedVisits
<1>4. d \in DeskStates /\ d.step = "figures" /\ d.client = c /\ d.count = n
  <2> HIDE DEF n
  <2> QED BY <1>2, AtItsStep DEF DeskStates, DeskSteps
<1> HIDE DEF d
<1>5. /\ desk' \in [Desks -> DeskStates] /\ desk'[h] = d
      /\ \A g \in Desks \ {h} : desk'[g] = desk[g]
  BY <1>3, <1>4, AtItsStep
<1>6. ClientTypeOK'
  BY <1>1, <1>5 DEF ClientInv, ClientTypeOK
<1>7. EveryDeskHasItsClient' /\ VisitsHaveClients'
  BY <1>1, <1>4, <1>5 DEF ClientInv, EveryDeskHasItsClient, VisitsHaveClients
<1>8. DeletionIsUndisturbed' /\ VisitsAreAnonymous'
  BY <1>1, <1>4, <1>5
     DEF ClientInv, DeletionIsUndisturbed, VisitsAreAnonymous, DeletingSteps, BookingSteps
<1>9. \A e : ConfirmedVisit(e)' = ConfirmedVisit(e)
  BY <1>1 DEF ConfirmedVisit
<1>10. FiguresAreDue'
  <2> SUFFICES ASSUME NEW e \in Clients \ outdated, relation[e].there,
                      \A g \in Desks : desk'[g].client = e => desk'[g].step \notin FigureSteps
               PROVE  relation[e].visits = Cardinality(ConfirmedVisit(e))
    BY <1>1, <1>9 DEF FiguresAreDue
  <2>1. e # c
    BY <1>4, <1>5 DEF FigureSteps
  <2> QED BY <1>5, <2>1 DEF ClientInv, FiguresAreDue
<1>11. CountsAreFresh'
  BY <1>1, <1>4, <1>5, <1>9 DEF ClientInv, CountsAreFresh
<1> QED BY <1>6, <1>7, <1>8, <1>10, <1>11 DEF ClientInv

\* ... and the figure is saved.
LEMMA SaveFiguresKeeps == ASSUME ClientInv, NEW h \in Desks, SaveFigures(h) PROVE ClientInv'
<1> DEFINE c == desk[h].client
           d == IdleDesk
<1>1. /\ desk[h].step = "figures" /\ c \in Clients /\ desk[h].count \in 0..Cardinality(Visits)
      /\ UNCHANGED <<client, visit, crossed, outdated>>
  BY AtItsStep DEF SaveFigures, DeskStates
<1>2. d \in DeskStates /\ d.step = "idle" /\ desk' = [desk EXCEPT ![h] = d]
  BY IdleDeskTyped DEF SaveFigures, DeskEnds
<1> HIDE DEF d
<1>3. /\ desk' \in [Desks -> DeskStates] /\ desk'[h] = d
      /\ \A g \in Desks \ {h} : desk'[g] = desk[g]
  BY <1>2, AtItsStep
<1>4. /\ relation' \in [Clients -> RelationDocs] /\ relation'[c].there = relation[c].there
      /\ relation[c].there => relation'[c].visits = desk[h].count
      /\ \A e \in Clients \ {c} : relation'[e] = relation[e]
  <2>1. CASE relation[c].there
    BY <1>1, <2>1, AtItsStep DEF SaveFigures, RelationDocs
  <2>2. CASE ~relation[c].there
    BY <1>1, <2>2, AtItsStep DEF SaveFigures
  <2> QED BY <2>1, <2>2
<1>5. \A e \in Clients : relation'[e].there = relation[e].there
  BY <1>4
<1>6. ClientTypeOK'
  BY <1>1, <1>3, <1>4 DEF ClientInv, ClientTypeOK
<1>7. EveryDeskHasItsClient' /\ VisitsHaveClients'
  BY <1>1, <1>2, <1>3 DEF ClientInv, EveryDeskHasItsClient, VisitsHaveClients
<1>8. DeletionIsUndisturbed' /\ VisitsAreAnonymous'
  BY <1>1, <1>2, <1>3, <1>5
     DEF ClientInv, DeletionIsUndisturbed, VisitsAreAnonymous, DeletingSteps, BookingSteps
<1>9. \A e : ConfirmedVisit(e)' = ConfirmedVisit(e)
  BY <1>1 DEF ConfirmedVisit
<1>10. FiguresAreDue'
  <2> SUFFICES ASSUME NEW e \in Clients \ outdated, relation'[e].there,
                      \A g \in Desks : desk'[g].client = e => desk'[g].step \notin FigureSteps
               PROVE  relation'[e].visits = Cardinality(ConfirmedVisit(e))
    BY <1>1, <1>9 DEF FiguresAreDue
  <2>1. CASE e = c
    BY <1>1, <1>4, <1>5, <2>1 DEF ClientInv, CountsAreFresh
  <2>2. CASE e # c
    BY <1>3, <1>4, <2>2 DEF ClientInv, FiguresAreDue
  <2> QED BY <2>1, <2>2
<1>11. CountsAreFresh'
  BY <1>1, <1>2, <1>3, <1>9 DEF ClientInv, CountsAreFresh
<1> QED BY <1>6, <1>7, <1>8, <1>10, <1>11 DEF ClientInv

\* A deletion begins: the relation goes.
LEMMA DeleteRelationsKeeps ==
  ASSUME ClientInv, NEW h \in Desks, NEW c \in Clients, DeleteRelations(h, c) PROVE ClientInv'
<1> DEFINE d == [IdleDesk EXCEPT !.step = "anonymise", !.client = c]
<1>1. /\ desk[h].step = "idle" /\ client[c].state = "there"
      /\ UNCHANGED <<client, visit, outdated>> /\ desk' = [desk EXCEPT ![h] = d]
  BY DEF DeleteRelations, Present
<1>2. d \in DeskStates /\ d.step = "anonymise" /\ d.client = c
  BY <1>1, IdleDeskTyped DEF DeskStates, DeskSteps
<1> HIDE DEF d
<1>3. /\ desk' \in [Desks -> DeskStates] /\ desk'[h] = d
      /\ \A g \in Desks \ {h} : desk'[g] = desk[g]
  BY <1>1, <1>2, AtItsStep
<1>4. 0 \in 0..Cardinality(Visits)
  BY ClientAssumption, FS_CardinalityType
<1>5. /\ relation' \in [Clients -> RelationDocs] /\ ~relation'[c].there
      /\ \A e \in Clients \ {c} : relation'[e] = relation[e]
  BY <1>4, AtItsStep DEF DeleteRelations, RelationDocs
<1>6. /\ crossed \subseteq crossed' /\ crossed' \subseteq Clients
      /\ c \notin crossed' => \A g \in Desks : desk[g].client = c => desk[g].step \notin BookingSteps
  BY AtItsStep DEF DeleteRelations, Booking, UsedBy, BookingSteps
<1>7. ClientTypeOK'
  BY <1>1, <1>3, <1>5, <1>6 DEF ClientInv, ClientTypeOK
<1>8. EveryDeskHasItsClient' /\ VisitsHaveClients'
  BY <1>1, <1>2, <1>3 DEF ClientInv, EveryDeskHasItsClient, VisitsHaveClients
<1>9. DeletionIsUndisturbed'
  <2> SUFFICES ASSUME NEW e \in Clients \ crossed',
                      \/ client[e].state = "gone"
                      \/ \E g \in Desks : desk'[g].client = e /\ desk'[g].step \in DeletingSteps
               PROVE  /\ ~relation'[e].there
                      /\ \A g \in Desks : desk'[g].client = e => desk'[g].step \notin BookingSteps
    BY <1>1 DEF DeletionIsUndisturbed
  <2>1. CASE e = c
    BY <1>2, <1>3, <1>5, <1>6, <2>1 DEF BookingSteps
  <2>2. CASE e # c
    <3>1. \/ client[e].state = "gone"
          \/ \E g \in Desks : desk[g].client = e /\ desk[g].step \in DeletingSteps
      BY <1>2, <1>3, <2>2
    <3> QED BY <1>2, <1>3, <1>5, <1>6, <2>2, <3>1 DEF ClientInv, DeletionIsUndisturbed
  <2> QED BY <2>1, <2>2
<1>10. VisitsAreAnonymous'
  BY <1>1, <1>2, <1>3, <1>6 DEF ClientInv, VisitsAreAnonymous
<1>11. \A e : ConfirmedVisit(e)' = ConfirmedVisit(e)
  BY <1>1 DEF ConfirmedVisit
<1>12. FiguresAreDue'
  <2> SUFFICES ASSUME NEW e \in Clients \ outdated, relation'[e].there,
                      \A g \in Desks : desk'[g].client = e => desk'[g].step \notin FigureSteps
               PROVE  relation'[e].visits = Cardinality(ConfirmedVisit(e))
    BY <1>1, <1>11 DEF FiguresAreDue
  <2>1. e # c
    BY <1>5
  <2>2. \A g \in Desks : desk[g].client = e => desk[g].step \notin FigureSteps
    BY <1>1, <1>3 DEF FigureSteps
  <2> QED BY <1>5, <2>1, <2>2 DEF ClientInv, FiguresAreDue
<1>13. CountsAreFresh'
  BY <1>1, <1>2, <1>3, <1>11 DEF ClientInv, CountsAreFresh
<1> QED BY <1>7, <1>8, <1>9, <1>10, <1>12, <1>13 DEF ClientInv

\* It goes on: the appointments lose their client.
LEMMA AnonymiseKeeps == ASSUME ClientInv, NEW h \in Desks, Anonymise(h) PROVE ClientInv'
<1> DEFINE c == desk[h].client
           d == [desk[h] EXCEPT !.step = "erase"]
<1>1. /\ desk[h].step = "anonymise" /\ c \in Clients
      /\ UNCHANGED <<client, relation, crossed>> /\ outdated' = outdated \cup {c}
      /\ desk' = [desk EXCEPT ![h] = d]
  BY AtItsStep DEF Anonymise, DeskGoes
<1>2. d \in DeskStates /\ d.step = "erase" /\ d.client = c
  BY AtItsStep DEF DeskStates, DeskSteps
<1> HIDE DEF d
<1>3. /\ desk' \in [Desks -> DeskStates] /\ desk'[h] = d
      /\ \A g \in Desks \ {h} : desk'[g] = desk[g]
  BY <1>1, <1>2, AtItsStep
<1>4. \A w \in Visits : /\ visit[w].client = c => visit'[w] = [visit[w] EXCEPT !.client = NoClient]
                        /\ visit[w].client # c => visit'[w] = visit[w]
  BY DEF Anonymise
<1>5. /\ visit' \in [Visits -> VisitDocs]
      /\ \A w \in Visits : visit'[w].client = IF visit[w].client = c THEN NoClient ELSE visit[w].client
  BY AtItsStep DEF Anonymise, VisitDocs
<1>6. ClientTypeOK'
  BY <1>1, <1>3, <1>5, AtItsStep DEF ClientInv, ClientTypeOK
<1>7. EveryDeskHasItsClient' /\ VisitsHaveClients'
  BY <1>1, <1>2, <1>3, <1>5, ClientAssumption, AtItsStep
     DEF ClientInv, EveryDeskHasItsClient, VisitsHaveClients
<1>8. DeletionIsUndisturbed'
  <2>1. \A e \in Clients :
          /\ (\E g \in Desks : desk'[g].client = e /\ desk'[g].step \in DeletingSteps) =>
               \E g \in Desks : desk[g].client = e /\ desk[g].step \in DeletingSteps
          /\ \A g \in Desks : desk'[g].client = e /\ desk'[g].step \in BookingSteps =>
               desk[g].client = e /\ desk[g].step \in BookingSteps
    BY <1>1, <1>2, <1>3 DEF DeletingSteps, BookingSteps
  <2> QED BY <1>1, <2>1 DEF ClientInv, DeletionIsUndisturbed
<1>9. VisitsAreAnonymous'
  <2> SUFFICES ASSUME NEW e \in Clients \ crossed,
                      \/ client[e].state = "gone"
                      \/ \E g \in Desks : desk'[g].client = e /\ desk'[g].step = "erase",
                      NEW w \in Visits
               PROVE  visit'[w].client # e
    BY <1>1 DEF VisitsAreAnonymous
  <2>1. CASE e = c
    BY <1>5, <2>1, ClientAssumption
  <2>2. CASE e # c
    <3>1. visit[w].client # e
      BY <1>2, <1>3, <2>2 DEF ClientInv, VisitsAreAnonymous
    <3> QED BY <1>5, <3>1, ClientAssumption
  <2> QED BY <2>1, <2>2
<1>10. ASSUME NEW e \in Clients \ {c} PROVE ConfirmedVisit(e)' = ConfirmedVisit(e)
  <2>1. \A w \in Visits : (visit'[w].client = e /\ visit'[w].state = "confirmed") <=>
                          (visit[w].client = e /\ visit[w].state = "confirmed")
    BY <1>4, <1>5, ClientAssumption
  <2> QED BY <2>1 DEF ConfirmedVisit
<1>11. FiguresAreDue'
  <2> SUFFICES ASSUME NEW e \in Clients \ outdated', relation[e].there,
                      \A g \in Desks : desk'[g].client = e => desk'[g].step \notin FigureSteps
               PROVE  relation[e].visits = Cardinality(ConfirmedVisit(e)')
    BY <1>1 DEF FiguresAreDue
  <2>1. e # c /\ e \in Clients \ outdated
    BY <1>1
  <2>2. \A g \in Desks : desk[g].client = e => desk[g].step \notin FigureSteps
    BY <1>3, <2>1
  <2> QED BY <1>10, <2>1, <2>2 DEF ClientInv, FiguresAreDue
<1>12. CountsAreFresh'
  <2> SUFFICES ASSUME NEW g \in Desks, desk'[g].step = "figures", desk'[g].client \in Clients \ outdated'
               PROVE  desk'[g].count = Cardinality({w \in Visits : /\ visit'[w].client = desk'[g].client
                                                                   /\ visit'[w].state = "confirmed"})
    BY DEF CountsAreFresh, ConfirmedVisit
  <2>1. desk'[g] = desk[g] /\ desk[g].client \in Clients \ outdated /\ desk[g].client # c
    BY <1>1, <1>2, <1>3
  <2>2. desk[g].count = Cardinality(ConfirmedVisit(desk[g].client))
    BY <2>1 DEF ClientInv, CountsAreFresh
  <2>3. {w \in Visits : visit'[w].client = desk'[g].client /\ visit'[w].state = "confirmed"}
          = ConfirmedVisit(desk[g].client)
    <3>1. \A w \in Visits : (visit'[w].client = desk[g].client /\ visit'[w].state = "confirmed") <=>
                            (visit[w].client = desk[g].client /\ visit[w].state = "confirmed")
      BY <1>4, <1>5, <2>1, ClientAssumption
    <3> QED BY <2>1, <3>1 DEF ConfirmedVisit
  <2> QED BY <2>1, <2>2, <2>3
<1> QED BY <1>6, <1>7, <1>8, <1>9, <1>11, <1>12 DEF ClientInv

\* It ends: the client is gone.
LEMMA EraseKeeps == ASSUME ClientInv, NEW h \in Desks, EraseClient(h) PROVE ClientInv'
<1> DEFINE c == desk[h].client
           d == IdleDesk
<1>1. /\ desk[h].step = "erase" /\ c \in Clients /\ client[c].state \in {"there", "gone"}
      /\ UNCHANGED <<relation, visit, crossed, outdated>>
  BY AtItsStep DEF EraseClient
<1>2. d \in DeskStates /\ d.step = "idle" /\ desk' = [desk EXCEPT ![h] = d]
  BY IdleDeskTyped DEF EraseClient, DeskEnds
<1> HIDE DEF d
<1>3. /\ desk' \in [Desks -> DeskStates] /\ desk'[h] = d
      /\ \A g \in Desks \ {h} : desk'[g] = desk[g]
  BY <1>2, AtItsStep
<1>4. /\ client' \in [Clients -> ClientDocs] /\ client'[c].state = "gone"
      /\ \A e \in Clients \ {c} : client'[e] = client[e]
  <2>1. CASE client[c].state = "there"
    BY <1>1, <2>1, AtItsStep DEF EraseClient, ClientDocs, Present
  <2>2. CASE client[c].state = "gone"
    BY <1>1, <2>2, AtItsStep DEF EraseClient, Present
  <2> QED BY <1>1, <2>1, <2>2
<1>5. ClientTypeOK'
  BY <1>1, <1>3, <1>4 DEF ClientInv, ClientTypeOK
<1>6. EveryDeskHasItsClient' /\ VisitsHaveClients'
  BY <1>1, <1>2, <1>3, <1>4 DEF ClientInv, EveryDeskHasItsClient, VisitsHaveClients
<1>7. ASSUME NEW e \in Clients,
             \/ client'[e].state = "gone"
             \/ \E g \in Desks : desk'[g].client = e /\ desk'[g].step \in DeletingSteps
      PROVE  \/ client[e].state = "gone"
             \/ \E g \in Desks : desk[g].client = e /\ desk[g].step \in DeletingSteps
  BY <1>1, <1>2, <1>3, <1>4, <1>7 DEF DeletingSteps
<1>8. ASSUME NEW e \in Clients,
             \/ client'[e].state = "gone"
             \/ \E g \in Desks : desk'[g].client = e /\ desk'[g].step = "erase"
      PROVE  \/ client[e].state = "gone"
             \/ \E g \in Desks : desk[g].client = e /\ desk[g].step = "erase"
  BY <1>1, <1>2, <1>3, <1>4, <1>8
<1>9. DeletionIsUndisturbed'
  <2> SUFFICES ASSUME NEW e \in Clients \ crossed,
                      \/ client'[e].state = "gone"
                      \/ \E g \in Desks : desk'[g].client = e /\ desk'[g].step \in DeletingSteps
               PROVE  /\ ~relation[e].there
                      /\ \A g \in Desks : desk'[g].client = e => desk'[g].step \notin BookingSteps
    BY <1>1 DEF DeletionIsUndisturbed
  <2>1. /\ ~relation[e].there
        /\ \A g \in Desks : desk[g].client = e => desk[g].step \notin BookingSteps
    BY <1>7 DEF ClientInv, DeletionIsUndisturbed
  <2> QED BY <1>2, <1>3, <2>1 DEF BookingSteps
<1>10. VisitsAreAnonymous'
  <2> SUFFICES ASSUME NEW e \in Clients \ crossed,
                      \/ client'[e].state = "gone"
                      \/ \E g \in Desks : desk'[g].client = e /\ desk'[g].step = "erase"
               PROVE  \A w \in Visits : visit[w].client # e
    BY <1>1 DEF VisitsAreAnonymous
  <2> QED BY <1>8 DEF ClientInv, VisitsAreAnonymous
<1>11. \A e : ConfirmedVisit(e)' = ConfirmedVisit(e)
  BY <1>1 DEF ConfirmedVisit
<1>12. FiguresAreDue' /\ CountsAreFresh'
  BY <1>1, <1>2, <1>3, <1>11 DEF ClientInv, FiguresAreDue, CountsAreFresh, FigureSteps
<1> QED BY <1>5, <1>6, <1>9, <1>10, <1>12 DEF ClientInv

LEMMA DeskFailsKeeps == ASSUME ClientInv, NEW h \in Desks, DeskFails(h) PROVE ClientInv'
<1>1. desk[h].step \in FigureSteps => desk[h].client \in Clients
  BY AtItsStep DEF FigureSteps
<1> QED BY <1>1, DeskEndsKeeps DEF DeskFails, FigureSteps

LEMMA SavePasswordKeeps == ASSUME ClientInv, NEW h \in Desks, SavePassword(h) PROVE ClientInv'
<1> DEFINE c == desk[h].client
<1>1. /\ desk[h].step = "register" /\ c \in Clients /\ desk[h].given \in Secrets \cup {NoPassword}
      /\ UNCHANGED <<relation, visit, crossed, outdated>>
  BY AtItsStep DEF SavePassword, DeskStates
<1>2. CASE c \in Present
  <2>1. DeskGoes(h, "token") /\ client' = [client EXCEPT ![c].password = desk[h].given]
    BY <1>2 DEF SavePassword, Saves
  <2>2. /\ client' \in [Clients -> ClientDocs]
        /\ \A e \in Clients : client'[e].state = client[e].state
    BY <1>1, <2>1, AtItsStep DEF ClientDocs
  <2> QED BY <1>1, <2>1, <2>2, DeskGoesKeeps DEF DeskSteps, DeletingSteps, FigureSteps, BookingSteps
<1>3. CASE c \notin Present
  BY <1>1, <1>3, DeskEndsKeeps DEF SavePassword, Saves, FigureSteps
<1> QED BY <1>2, <1>3

LEMMA TouchClientKeeps == ASSUME ClientInv, NEW h \in Desks, TouchClient(h) PROVE ClientInv'
<1>1. desk[h].step = "touch" /\ UNCHANGED <<client, relation, visit, crossed, outdated>>
      /\ client' \in [Clients -> ClientDocs]
  BY AtItsStep DEF TouchClient
<1>2. CASE DeskGoes(h, "find")
  BY <1>1, <1>2, DeskGoesKeeps DEF DeskSteps, DeletingSteps, FigureSteps, BookingSteps
<1>3. CASE DeskEnds(h)
  BY <1>1, <1>3, DeskEndsKeeps DEF FigureSteps
<1> QED BY <1>2, <1>3 DEF TouchClient, Saves

LEMMA FindTenantClientKeeps ==
  ASSUME ClientInv, NEW h \in Desks, FindTenantClient(h) PROVE ClientInv'
<1>1. desk[h].step = "find" /\ UNCHANGED <<client, relation, visit, crossed, outdated>>
      /\ client' \in [Clients -> ClientDocs]
  BY AtItsStep DEF FindTenantClient
<1>2. PICK step \in {"visit", "relate"} : DeskGoes(h, step)
  BY DEF FindTenantClient
<1> QED BY <1>1, <1>2, DeskGoesKeeps DEF DeskSteps, DeletingSteps, FigureSteps, BookingSteps

LEMMA ClientSteps == ClientInv /\ [ClientNext]_clientVars => ClientInv'
<1> SUFFICES ASSUME ClientInv, [ClientNext]_clientVars PROVE ClientInv'
  OBVIOUS
<1>1. ASSUME NEW h \in Desks,
             \/ Book(h) \/ TouchClient(h) \/ FindTenantClient(h) \/ CreateTenantClient(h)
             \/ Tally(h) \/ SaveFigures(h) \/ SavePassword(h) \/ Anonymise(h) \/ EraseClient(h)
             \/ DeskFails(h)
      PROVE  ClientInv'
  BY <1>1, BookKeeps, TouchClientKeeps, FindTenantClientKeeps, CreateTenantClientKeeps, TallyVisitsKeeps,
     SaveFiguresKeeps, SavePasswordKeeps, AnonymiseKeeps, EraseKeeps, DeskFailsKeeps
<1>2. ASSUME NEW h \in Desks, SaveVerification(h) PROVE ClientInv'
  BY <1>2, DeskEndsKeeps DEF SaveVerification, FigureSteps
<1>3. crossed \subseteq Clients
  BY DEF ClientInv, ClientTypeOK
<1>4. ASSUME NEW h \in Desks, GoogleSignIn(h) PROVE ClientInv'
  BY <1>3, <1>4, LooksUpKeeps DEF GoogleSignIn, DeskSteps, DeletingSteps, FigureSteps, BookingSteps
<1>5. ASSUME NEW h \in Desks, NEW p \in Secrets, Register(h, p) PROVE ClientInv'
  BY <1>3, <1>5, LooksUpKeeps DEF Register, DeskSteps, DeletingSteps, FigureSteps, BookingSteps
<1>6. ASSUME NEW h \in Desks, NEW c \in Clients,
             CreateClient(h, c) \/ CreateRegistered(h, c) \/ CreateByGoogle(h, c)
      PROVE  ClientInv'
  BY <1>6, CreatesKeeps DEF CreateClient, CreateRegistered, CreateByGoogle
<1>7. ASSUME NEW h \in Desks, NEW c \in Clients, DeleteRelations(h, c) PROVE ClientInv'
  BY <1>7, DeleteRelationsKeeps
<1>8. ASSUME NEW h \in Desks, NEW v \in Visits, CreateVisit(h, v) \/ ConfirmVisit(h, v) PROVE ClientInv'
  BY <1>8, CreateVisitKeeps, ConfirmVisitKeeps
<1>9. ASSUME NEW v \in Visits, NEW state \in {"confirmed", "cancelled"}, ChangeVisit(v, state)
      PROVE  ClientInv'
  BY <1>9, ChangeVisitKeeps
<1>10. CASE UNCHANGED clientVars
  BY <1>10 DEF clientVars, ClientInv, ClientTypeOK, EveryDeskHasItsClient, VisitsHaveClients,
        DeletionIsUndisturbed, VisitsAreAnonymous, FiguresAreDue, CountsAreFresh, ConfirmedVisit
<1> QED BY <1>1, <1>2, <1>4, <1>5, <1>6, <1>7, <1>8, <1>9, <1>10 DEF ClientNext

LEMMA ClientInvariance == ClientSpec => []ClientInv
<1> QED BY ClientsStart, ClientSteps, PTL DEF ClientSpec

\* Every variable keeps its type.
THEOREM ClientTypes == ClientSpec => []ClientTypeOK
<1>1. ClientInv => ClientTypeOK
  BY DEF ClientInv
<1> QED BY <1>1, ClientInvariance, PTL

\* What the salon keeps of a client is true: once deleteClientData has run nothing of the
\* client is left, unless a booking was under way, and the figures are the number of its
\* confirmed appointments, unless another request confirmed one between their count and
\* their write, one was confirmed or cancelled where nothing is counted, the count failed,
\* or the appointments were anonymised or the relation made anew.
THEOREM RelationsStayTrue == ClientSpec => []RelationsAreTrue
<1>1. ClientInv => RelationsAreTrue
  <2> SUFFICES ASSUME ClientInv PROVE RelationsAreTrue
    OBVIOUS
  <2>1. DeletedIsForgotten
    BY DEF ClientInv, DeletionIsUndisturbed, VisitsAreAnonymous, DeletedIsForgotten
  <2>2. FiguresAreCurrent
    BY DEF ClientInv, FiguresAreDue, FiguresAreCurrent, UsedBy, FigureSteps
  <2> QED BY <2>1, <2>2 DEF RelationsAreTrue
<1> QED BY <1>1, ClientInvariance, PTL

-----------------------------------------------------------------------------
(* The types of the parts.  A seminar's counter is at most the number of   *)
(* bookings whose request is behind its second write (Kept): that never    *)
(* falls, and a counter that is saved from an old copy adds at most one to *)
(* what it was, for the booking of that request.                           *)

Kept == Cardinality(Existing) - Cardinality(Seating)

CopyBound(c, k) ==
  /\ c.session \in 0..MaxEdits /\ c.max \in 1..MaxSeats /\ c.version \in 0..MaxEdits
  /\ c.count \in 0..k

ClerkBound(r, k, e) ==
  /\ CopyBound(r.copy, k)
  /\ r.tally \in 0..e /\ r.owed \in 0..Price
  /\ r.step = "unseat" => r.copy.count > 0

SeatBound(d) ==
  d.session \in 0..MaxEdits /\ d.reference \in 0..Cardinality(Seats) /\ d.refunded \in 0..Price

SeatsBound ==
  /\ CopyBound(seminar, Kept)
  /\ \A h \in Clerks : ClerkBound(clerk[h], Kept, Cardinality(Existing))
  /\ \A b \in Seats : SeatBound(seats[b])
  /\ \A p \in Purchases : purchase[p].session \in 0..MaxEdits

LEMMA SeatsAreFinite ==
  ASSUME NEW S, S \subseteq Seats
  PROVE  IsFiniteSet(S) /\ Cardinality(S) \in Nat /\ Cardinality(Seats) \in Nat
         /\ Cardinality(S) <= Cardinality(Seats)
<1>1. IsFiniteSet(S) /\ Cardinality(S) <= Cardinality(Seats)
  BY SeminarAssumption, FS_Subset
<1>2. Cardinality(S) \in Nat
  BY <1>1, FS_CardinalityType
<1>3. Cardinality(Seats) \in Nat
  BY SeminarAssumption, FS_CardinalityType
<1> QED BY <1>1, <1>2, <1>3

LEMMA KeptIsNumber ==
  ASSUME SeminarInv
  PROVE  /\ Cardinality(Existing) \in Nat /\ Cardinality(Seating) \in Nat /\ Cardinality(Seats) \in Nat
         /\ Kept \in Int /\ Kept <= Cardinality(Existing) /\ Cardinality(Existing) <= Cardinality(Seats)
<1>1. /\ Cardinality(Existing) \in Nat /\ Cardinality(Seats) \in Nat
      /\ Cardinality(Existing) <= Cardinality(Seats)
  BY SeatsAreFinite DEF Existing
<1>2. Cardinality(Seating) \in Nat
  BY FS_CardinalityType DEF SeminarInv, SeatsShaped
<1> QED BY <1>1, <1>2 DEF Kept

LEMMA BoundsGrow ==
  ASSUME NEW k \in Int, NEW l \in Int, k <= l, NEW d \in Nat, NEW e \in Nat, d <= e
  PROVE  /\ \A c : CopyBound(c, k) => CopyBound(c, l)
         /\ \A r : ClerkBound(r, k, d) => ClerkBound(r, l, e)
<1>1. \A c : CopyBound(c, k) => CopyBound(c, l)
  BY DEF CopyBound
<1>2. \A t : t \in 0..d => t \in 0..e
  OBVIOUS
<1> QED BY <1>1, <1>2 DEF ClerkBound

\* What a request starts with.
LEMMA IdleBound ==
  ASSUME NEW k \in Nat, NEW e \in Nat
  PROVE  ClerkBound(IdleClerk, k, e)
BY SeminarAssumption DEF ClerkBound, CopyBound, IdleClerk, CopyOf, NewSeminar

LEMMA BoundsKeep ==
  ASSUME SeminarInv, SeatsBound, NEW l \in Int, NEW e \in Nat, Kept <= l, Cardinality(Existing) <= e,
         Kept' = l, Cardinality(Existing)' = e,
         CopyBound(seminar', l) \/ UNCHANGED seminar,
         \A h \in Clerks : clerk'[h] \in {clerk[h], IdleClerk} \/ ClerkBound(clerk'[h], l, e),
         \A b \in Seats : seats'[b] = seats[b] \/ SeatBound(seats'[b]),
         \A p \in Purchases : purchase'[p].session \in 0..MaxEdits
  PROVE  SeatsBound'
<1>1. Kept \in Int /\ Cardinality(Existing) \in Nat
  BY KeptIsNumber
<1>2. /\ \A c : CopyBound(c, Kept) => CopyBound(c, l)
      /\ \A r : ClerkBound(r, Kept, Cardinality(Existing)) => ClerkBound(r, l, e)
  BY <1>1, BoundsGrow
<1>3. 0 <= Kept
  BY <1>1 DEF SeatsBound, CopyBound
<1>4. ClerkBound(IdleClerk, l, e)
  BY <1>1, <1>3, IdleBound
<1>5. CopyBound(seminar', l)
  BY <1>2 DEF SeatsBound
<1>6. \A h \in Clerks : ClerkBound(clerk'[h], l, e)
  BY <1>2, <1>4 DEF SeatsBound
<1>7. \A b \in Seats : SeatBound(seats'[b])
  BY DEF SeatsBound
<1>8. CopyBound(seminar, Kept)' /\ (\A h \in Clerks : ClerkBound(clerk[h], Kept, Cardinality(Existing)))'
      /\ (\A b \in Seats : SeatBound(seats[b]))'
  BY <1>5, <1>6, <1>7 DEF CopyBound, ClerkBound, SeatBound
<1> QED BY <1>8 DEF SeatsBound

\* Bookings stay, and no other request comes between its writes: what is kept grows.
LEMMA KeptGrows ==
  ASSUME SeminarInv, SeminarInv', Existing \subseteq Existing', Seating' \subseteq Seating
  PROVE  /\ Kept' \in Int /\ Kept <= Kept'
         /\ Cardinality(Existing)' \in Nat /\ Cardinality(Existing) <= Cardinality(Existing)'
<1>1. IsFiniteSet(Existing') /\ IsFiniteSet(Seating)
  BY DEF SeminarInv, SeatsShaped
<1>2. Cardinality(Existing) <= Cardinality(Existing')
  BY <1>1, FS_Subset
<1>3. Cardinality(Seating') <= Cardinality(Seating)
  BY <1>1, FS_Subset
<1>4. Cardinality(Existing) \in Nat /\ Cardinality(Seating) \in Nat
  BY KeptIsNumber
<1>5. IsFiniteSet(Seating')
  BY DEF SeminarInv, SeatsShaped
<1>6. Cardinality(Existing') \in Nat /\ Cardinality(Seating') \in Nat
  BY <1>1, <1>5, FS_CardinalityType
<1> QED BY <1>2, <1>3, <1>4, <1>6 DEF Kept

LEMMA SeatsStartBound == SeminarInit => SeatsBound
<1> SUFFICES ASSUME SeminarInit PROVE SeatsBound
  OBVIOUS
<1>1. Existing = {} /\ Seating = {}
  BY DEF SeminarInit, Existing, Seating, IdleClerk
<1>2. Cardinality(Existing) = 0 /\ Cardinality(Seating) = 0
  BY <1>1, FS_EmptySet
<1>3. Kept = 0
  BY <1>2 DEF Kept
<1>4. Cardinality(Seats) \in Nat
  BY SeatsAreFinite
<1>5. \A h \in Clerks : ClerkBound(clerk[h], Kept, Cardinality(Existing))
  BY <1>2, <1>3, IdleBound DEF SeminarInit
<1>6. CopyBound(seminar, Kept)
  BY <1>3, SeminarAssumption DEF SeminarInit, CopyBound, NewSeminar
<1>7. \A b \in Seats : SeatBound(seats[b])
  BY <1>4, SeminarAssumption DEF SeminarInit, SeatBound
<1>8. \A p \in Purchases : purchase[p].session \in 0..MaxEdits
  BY SeminarAssumption DEF SeminarInit
<1> QED BY <1>5, <1>6, <1>7, <1>8 DEF SeatsBound

LEMMA SeminarIsTyped == ASSUME SeminarInv, SeatsBound PROVE SeminarTypeOK
<1>1. /\ Kept \in Int /\ Cardinality(Existing) \in Nat /\ Cardinality(Seats) \in Nat
      /\ Kept <= Cardinality(Seats) /\ Cardinality(Existing) <= Cardinality(Seats)
  BY KeptIsNumber
<1>2. SeatsShaped
  BY DEF SeminarInv
<1> DEFINE N == 0..MaxEdits
           M == 1..MaxSeats
           A == Attendees
           P == 0..Price
<1>3. ASSUME NEW c, CopyBound(c, Kept)
      PROVE  c.session \in N /\ c.max \in M /\ c.count \in A /\ c.version \in N
  BY <1>1, <1>3 DEF CopyBound, Attendees
<1>4. \A t \in 0..Cardinality(Existing) : t \in A
  BY <1>1 DEF Attendees
<1>5. \A b \in Seats : /\ seats[b].session \in N /\ seats[b].reference \in A /\ seats[b].refunded \in P
  BY DEF SeatsBound, SeatBound, Attendees
<1>6. \A h \in Clerks : clerk[h].tally \in A /\ clerk[h].owed \in P
  BY <1>4 DEF SeatsBound, ClerkBound
<1>7. \A p \in Purchases : purchase[p].session \in N
  BY DEF SeatsBound
<1>8. /\ Seminars = [ alive : BOOLEAN, status : {"draft", "published", "archived"}, session : N, max : M,
                      count : A, full : BOOLEAN, version : N ]
      /\ Copies = [session : N, max : M, count : A, full : BOOLEAN, version : N]
      /\ SeatDocs = [status : {NoSeat, "confirmed", "cancelled"}, session : N, reference : A, refunded : P]
      /\ ClerkStates = [ step : ClerkSteps, copy : Copies, tally : A, owed : P,
                         seat : Seats \cup {NoSeat}, late : BOOLEAN ]
  BY DEF Seminars, Copies, SeatDocs, ClerkStates, Attendees
<1>9. CopyBound(seminar, Kept) /\ \A h \in Clerks : CopyBound(clerk[h].copy, Kept)
  BY DEF SeatsBound, ClerkBound
<1> HIDE DEF N, M, A, P
<1>10. seminar \in Seminars
  BY <1>2, <1>3, <1>8, <1>9 DEF SeatsShaped, SeminarShape
<1>11. \A b \in Seats : seats[b] \in SeatDocs
  BY <1>2, <1>5, <1>8 DEF SeatsShaped, SeatShape
<1>12. ASSUME NEW h \in Clerks PROVE clerk[h] \in ClerkStates
  <2>1. clerk[h] \in ClerkShape
    BY <1>2 DEF SeatsShaped
  <2>2. clerk[h].copy \in CopyShape
    BY <2>1 DEF ClerkShape
  <2>3. clerk[h].copy \in Copies
    BY <1>3, <1>8, <1>9, <2>2 DEF CopyShape
  <2> QED BY <1>6, <1>8, <2>1, <2>3 DEF ClerkShape
<1>13. purchase \in [Purchases -> [state : {"none", "open", "paid"}, session : N]]
  BY <1>2, <1>7 DEF SeatsShaped
<1> QED BY <1>2, <1>10, <1>11, <1>12, <1>13 DEF SeatsShaped, SeminarTypeOK, N

\* Facts for a step that adds no booking.
LEMMA StandsOrGrows ==
  ASSUME SeminarInv, SeminarInv', SeatsBound, Existing \subseteq Existing', Seating' \subseteq Seating,
         CopyBound(seminar', Kept') \/ UNCHANGED seminar,
         \A h \in Clerks : \/ clerk'[h] \in {clerk[h], IdleClerk}
                           \/ ClerkBound(clerk'[h], Kept, Cardinality(Existing)),
         \A b \in Seats : seats'[b] = seats[b] \/ SeatBound(seats'[b]),
         \A p \in Purchases : purchase'[p].session \in 0..MaxEdits
  PROVE  SeatsBound'
<1> DEFINE l == Kept'
           e == Cardinality(Existing)'
<1>1. l \in Int /\ Kept <= l /\ e \in Nat /\ Cardinality(Existing) <= e
  BY KeptGrows
<1>2. Kept \in Int /\ Cardinality(Existing) \in Nat
  BY KeptIsNumber
<1> HIDE DEF l, e
<1>3. \A r : ClerkBound(r, Kept, Cardinality(Existing)) => ClerkBound(r, l, e)
  BY <1>1, <1>2, BoundsGrow
<1>4. \A h \in Clerks : clerk'[h] \in {clerk[h], IdleClerk} \/ ClerkBound(clerk'[h], l, e)
  BY <1>3
<1>5. Kept' = l /\ Cardinality(Existing)' = e
  BY DEF l, e
<1>6. CopyBound(seminar', l) \/ UNCHANGED seminar
  BY <1>5
<1> QED BY <1>1, <1>4, <1>5, <1>6, BoundsKeep

\* What a request has read is bounded like the seminar.
LEMMA CopyIsBound == ASSUME SeatsBound PROVE CopyBound(CopyOf(seminar), Kept)
BY DEF SeatsBound, CopyBound, CopyOf

\* A saved counter is bounded when it is by the time it is saved.
LEMMA CountedBound ==
  ASSUME SeminarInv, SeatsBound, NEW k \in Int, Kept <= k, NEW copy, NEW n \in 0..k
  PROVE  CopyBound(Counted(copy, n), k)
<1>1. Kept \in Int
  BY KeptIsNumber
<1>2. CopyBound(seminar, k)
  BY <1>1, BoundsGrow DEF SeatsBound, CopyBound
<1>3. /\ Counted(copy, n).session = seminar.session /\ Counted(copy, n).max = seminar.max
      /\ Counted(copy, n).version = seminar.version /\ Counted(copy, n).count = n
  BY DEF Counted, SeminarInv, SeatsShaped, SeminarShape
<1> QED BY <1>2, <1>3 DEF CopyBound

LEMMA SeatsBoundKeep == SeminarInv /\ SeatsBound /\ [SeminarNext]_seminarVars => SeatsBound'
<1> SUFFICES ASSUME SeminarInv, SeatsBound, SeminarInv', [SeminarNext]_seminarVars PROVE SeatsBound'
  BY SeminarSteps
<1> DEFINE E == Cardinality(Existing)
<1>0. /\ seminar \in SeminarShape /\ seats \in [Seats -> SeatShape] /\ clerk \in [Clerks -> ClerkShape]
      /\ purchase \in [Purchases -> [state : {"none", "open", "paid"}, session : Nat]]
  BY DEF SeminarInv, SeatsShaped
<1>1. /\ Kept \in Int /\ E \in Nat /\ Cardinality(Seats) \in Nat /\ Kept <= E /\ E <= Cardinality(Seats)
      /\ 0 <= Kept
  BY KeptIsNumber DEF SeatsBound, CopyBound
<1>2. \A h \in Clerks : ClerkBound(clerk[h], Kept, E)
  BY DEF SeatsBound
<1>3. \A p \in Purchases : purchase[p].session \in 0..MaxEdits
  BY DEF SeatsBound
<1>4. (UNCHANGED seats => Existing' = Existing) /\ (UNCHANGED clerk => Seating' = Seating)
  BY DEF Existing, Seating
<1>5. ASSUME NEW h \in Clerks, ClerkEnds(h)
      PROVE  Seating' \subseteq Seating /\ \A g \in Clerks : clerk'[g] \in {clerk[g], IdleClerk}
  <2>1. \A g \in Clerks : clerk'[g] \in {clerk[g], IdleClerk}
    BY <1>0, <1>5 DEF ClerkEnds
  <2> QED BY <2>1 DEF Seating, IdleClerk
<1>6. ASSUME NEW h \in Clerks, NEW r, clerk' = [clerk EXCEPT ![h] = r], r.step # "seat",
             ClerkBound(r, Kept, E)
      PROVE  /\ Seating' \subseteq Seating
             /\ \A g \in Clerks : clerk'[g] \in {clerk[g], IdleClerk} \/ ClerkBound(clerk'[g], Kept, E)
  <2>1. clerk'[h] = r /\ \A g \in Clerks : g # h => clerk'[g] = clerk[g]
    BY <1>0, <1>6
  <2> QED BY <1>6, <2>1 DEF Seating
<1>7. ASSUME NEW h \in Clerks, NEW step, ClerkGoes(h, step), step # "seat",
             step = "unseat" => clerk[h].copy.count > 0
      PROVE  /\ Seating' \subseteq Seating
             /\ \A g \in Clerks : clerk'[g] \in {clerk[g], IdleClerk} \/ ClerkBound(clerk'[g], Kept, E)
  <2> DEFINE r == [clerk[h] EXCEPT !.step = step]
  <2>1. /\ r.step = step /\ r.copy = clerk[h].copy /\ r.tally = clerk[h].tally /\ r.owed = clerk[h].owed
        /\ clerk' = [clerk EXCEPT ![h] = r]
    BY <1>0, <1>7 DEF ClerkGoes, ClerkShape
  <2> HIDE DEF r
  <2>2. ClerkBound(r, Kept, E)
    BY <1>2, <1>7, <2>1 DEF ClerkBound
  <2> HIDE DEF E
  <2> QED BY <1>6, <1>7, <2>1, <2>2
<1> HIDE DEF E
<1>8. ASSUME UNCHANGED <<seminar, seats, purchase>>, Seating' \subseteq Seating,
             \A g \in Clerks : clerk'[g] \in {clerk[g], IdleClerk} \/ ClerkBound(clerk'[g], Kept, E)
      PROVE  SeatsBound'
  BY <1>3, <1>4, <1>8, StandsOrGrows DEF E
<1>9. ASSUME NEW p \in Purchases, StartPurchase(p) \/ PayPurchase(p) PROVE SeatsBound'
  <2>1. UNCHANGED <<seminar, seats, clerk>>
    BY <1>9 DEF StartPurchase, PayPurchase
  <2>2. seminar.session \in 0..MaxEdits
    BY DEF SeatsBound, CopyBound
  <2>3. \A q \in Purchases : purchase'[q].session \in 0..MaxEdits
    BY <1>0, <1>3, <1>9, <2>2 DEF StartPurchase, PayPurchase
  <2> QED BY <1>4, <2>1, <2>3, StandsOrGrows
<1>10. ASSUME NEW h \in Clerks, NEW p \in Purchases, ReceivePurchase(h, p) PROVE SeatsBound'
  <2> DEFINE r == [IdleClerk EXCEPT !.step = "tally", !.copy = CopyOf(seminar),
                                    !.late = \E g \in Clerks : clerk[g].step = "seat"]
  <2>1. r.step = "tally" /\ r.copy = CopyOf(seminar) /\ r.tally = 0 /\ r.owed = 0
    BY DEF IdleClerk
  <2>2. clerk' = [clerk EXCEPT ![h] = r] /\ UNCHANGED <<seminar, seats, purchase>>
    BY <1>10 DEF ReceivePurchase
  <2> HIDE DEF r
  <2>3. ClerkBound(r, Kept, E)
    BY <1>1, <2>1, CopyIsBound, SeminarAssumption DEF ClerkBound
  <2> QED BY <1>6, <1>8, <2>1, <2>2, <2>3
<1>11. ASSUME NEW h \in Clerks, TallyBookings(h) PROVE SeatsBound'
  <2> DEFINE r == [clerk[h] EXCEPT !.step = "insert", !.tally = E]
  <2>1. /\ r.step = "insert" /\ r.copy = clerk[h].copy /\ r.tally = E /\ r.owed = clerk[h].owed
        /\ clerk' = [clerk EXCEPT ![h] = r]
    BY <1>0, <1>11 DEF TallyBookings, ClerkShape, E
  <2> HIDE DEF r
  <2>2. ClerkBound(r, Kept, E)
    BY <1>1, <1>2, <2>1 DEF ClerkBound
  <2> QED BY <1>6, <1>8, <1>11, <2>1, <2>2 DEF TallyBookings
<1>12. ASSUME NEW h \in Clerks, NEW b \in Seats, InsertSeat(h, b) PROVE SeatsBound'
  <2>1. CASE ClerkEnds(h) /\ UNCHANGED seats
    BY <1>5, <1>8, <1>12, <2>1 DEF InsertSeat
  <2>2. CASE /\ seats' = [seats EXCEPT ![b] =
                  [status |-> "confirmed", session |-> clerk[h].copy.session,
                   reference |-> clerk[h].tally + 1, refunded |-> 0]]
             /\ clerk' = [g \in Clerks |->
                  IF g = h THEN [clerk[h] EXCEPT !.step = "seat"]
                  ELSE IF clerk[g].step \in {"tally", "insert"} THEN [clerk[g] EXCEPT !.late = TRUE]
                  ELSE clerk[g]]
    <3>1. seats[b].status = NoSeat /\ clerk[h].step = "insert" /\ UNCHANGED <<seminar, purchase>>
      BY <1>12 DEF InsertSeat
    <3>2. Existing' = Existing \cup {b} /\ b \notin Existing
      BY <1>0, <2>2, <3>1 DEF Existing, NoSeat
    <3>3. \A g \in Clerks : /\ clerk'[g].copy = clerk[g].copy /\ clerk'[g].tally = clerk[g].tally
                            /\ clerk'[g].owed = clerk[g].owed
                            /\ clerk'[g].step = IF g = h THEN "seat" ELSE clerk[g].step
      BY <1>0, <2>2 DEF ClerkShape
    <3>4. Seating' = Seating \cup {h} /\ h \notin Seating
      BY <3>1, <3>3 DEF Seating
    <3>5. IsFiniteSet(Existing) /\ IsFiniteSet(Seating)
      BY DEF SeminarInv, SeatsShaped
    <3>6. Cardinality(Existing') = E + 1
      BY <3>2, <3>5, FS_AddElement DEF E
    <3>7. Cardinality(Seating') = Cardinality(Seating) + 1
      BY <3>4, <3>5, FS_AddElement
    <3>8. Cardinality(Seating) \in Nat
      BY <3>5, FS_CardinalityType
    <3>9. Kept' = Kept
      BY <1>1, <3>6, <3>7, <3>8 DEF Kept, E
    <3>10. Cardinality(Existing') <= Cardinality(Seats)
      <4>1. Existing' \subseteq Seats
        BY DEF Existing
      <4> QED BY <4>1, SeatsAreFinite
    <3>11. \A g \in Clerks : ClerkBound(clerk'[g], Kept, E + 1)
      BY <1>1, <1>2, <3>3 DEF ClerkBound
    <3>12. SeatBound(seats'[b])
      <4>1. /\ seats'[b].session = clerk[h].copy.session /\ seats'[b].reference = clerk[h].tally + 1
            /\ seats'[b].refunded = 0
        BY <1>0, <2>2
      <4>2. clerk[h].copy.session \in 0..MaxEdits /\ clerk[h].tally \in 0..E
        BY <1>2 DEF ClerkBound, CopyBound
      <4> QED BY <1>1, <3>6, <3>10, <4>1, <4>2, SeminarAssumption DEF SeatBound
    <3>13. \A d \in Seats : seats'[d] = seats[d] \/ SeatBound(seats'[d])
      BY <1>0, <2>2, <3>12
    <3>14. \A p \in Purchases : purchase'[p].session \in 0..MaxEdits
      BY <1>3, <3>1
    <3>15. E + 1 \in Nat /\ Cardinality(Existing) <= E + 1 /\ Kept <= Kept
      BY <1>1 DEF E
    <3>16. UNCHANGED seminar /\ Cardinality(Existing)' = E + 1
      BY <3>1, <3>6
    <3> QED BY <1>1, <3>9, <3>11, <3>13, <3>14, <3>15, <3>16, BoundsKeep
  <2> QED BY <1>12, <2>1, <2>2 DEF InsertSeat
<1>13. ASSUME NEW h \in Clerks, SaveSeat(h) PROVE SeatsBound'
  <2> DEFINE copy == clerk[h].copy
  <2>1. ClerkEnds(h) /\ UNCHANGED <<seats, purchase>> /\ clerk[h].step = "seat"
    BY <1>13 DEF SaveSeat
  <2>2. Seating' = Seating \ {h} /\ h \in Seating
    BY <1>0, <2>1 DEF ClerkEnds, Seating, IdleClerk
  <2>3. IsFiniteSet(Seating) /\ Existing' = Existing
    BY <1>4, <2>1 DEF SeminarInv, SeatsShaped
  <2>4. Cardinality(Seating') = Cardinality(Seating) - 1 /\ Cardinality(Seating) \in Nat
    BY <2>2, <2>3, FS_RemoveElement, FS_CardinalityType
  <2>5. Kept' = Kept + 1
    BY <1>1, <2>3, <2>4 DEF Kept, E
  <2>6. copy.count + 1 \in 0..(Kept + 1)
    <3>1. copy.count \in 0..Kept
      BY <1>2 DEF ClerkBound, CopyBound
    <3> QED BY <1>1, <3>1
  <2>7. CopyBound(Counted(copy, copy.count + 1), Kept + 1)
    <3>1. Kept + 1 \in Int /\ Kept <= Kept + 1
      BY <1>1
    <3> HIDE DEF copy
    <3> QED BY <2>6, <3>1, CountedBound
  <2>8. CopyBound(seminar', Kept') \/ UNCHANGED seminar
    BY <1>13, <2>5, <2>7 DEF SaveSeat
  <2>9. Existing \subseteq Existing' /\ Seating' \subseteq Seating
    BY <2>2, <2>3
  <2>10. \A p \in Purchases : purchase'[p].session \in 0..MaxEdits
    BY <1>3, <2>1
  <2> QED BY <1>5, <2>1, <2>8, <2>9, <2>10, StandsOrGrows
<1>14. ASSUME NEW h \in Clerks, NEW b \in Seats, ReadSeat(h, b) PROVE SeatsBound'
  <2> DEFINE r == [clerk[h] EXCEPT !.step = "seminar", !.seat = b]
  <2>1. /\ r.step = "seminar" /\ r.copy = clerk[h].copy /\ r.tally = clerk[h].tally /\ r.owed = clerk[h].owed
        /\ clerk' = [clerk EXCEPT ![h] = r]
    BY <1>0, <1>14 DEF ReadSeat, ClerkShape
  <2> HIDE DEF r
  <2>2. ClerkBound(r, Kept, E)
    BY <1>2, <2>1 DEF ClerkBound
  <2> QED BY <1>6, <1>8, <1>14, <2>1, <2>2 DEF ReadSeat
<1>15. ASSUME NEW h \in Clerks, ReadItsSeminar(h) PROVE SeatsBound'
  <2>1. CASE ClerkEnds(h)
    BY <1>5, <1>8, <1>15, <2>1 DEF ReadItsSeminar
  <2>2. ASSUME NEW n \in 0..Price,
               clerk' = [clerk EXCEPT ![h].copy = CopyOf(seminar), ![h].owed = n,
                                      ![h].step = IF n > 0 THEN "refund" ELSE "cancel"]
        PROVE  SeatsBound'
    <3> DEFINE r == [clerk[h] EXCEPT !.copy = CopyOf(seminar), !.owed = n,
                                     !.step = IF n > 0 THEN "refund" ELSE "cancel"]
    <3>1. /\ r.step \in {"refund", "cancel"} /\ r.copy = CopyOf(seminar) /\ r.tally = clerk[h].tally
          /\ r.owed = n /\ clerk' = [clerk EXCEPT ![h] = r]
      BY <1>0, <2>2 DEF ClerkShape
    <3> HIDE DEF r
    <3>2. ClerkBound(r, Kept, E)
      BY <1>2, <3>1, CopyIsBound DEF ClerkBound
    <3> QED BY <1>6, <1>8, <1>15, <3>1, <3>2 DEF ReadItsSeminar
  <2> QED BY <1>15, <2>1, <2>2 DEF ReadItsSeminar
<1>16. ASSUME NEW h \in Clerks, RefundSeat(h) PROVE SeatsBound'
  <2> DEFINE b == clerk[h].seat
  <2>1. CASE ClerkEnds(h) /\ UNCHANGED seats
    BY <1>5, <1>8, <1>16, <2>1 DEF RefundSeat
  <2>2. CASE /\ seats[b].refunded + clerk[h].owed <= Price
             /\ seats' = [seats EXCEPT ![b].refunded = @ + clerk[h].owed] /\ ClerkGoes(h, "cancel")
    <3>1. b \in Seats
      BY <1>16 DEF RefundSeat, SeminarInv, SeatsShaped
    <3>2. seats'[b].session = seats[b].session /\ seats'[b].reference = seats[b].reference
          /\ seats'[b].refunded = seats[b].refunded + clerk[h].owed /\ seats'[b].status = seats[b].status
      BY <1>0, <2>2, <3>1 DEF SeatShape
    <3>3. SeatBound(seats[b]) /\ clerk[h].owed \in 0..Price
      BY <1>2, <3>1 DEF SeatsBound, ClerkBound
    <3>4. SeatBound(seats'[b])
      BY <2>2, <3>2, <3>3, SeminarAssumption DEF SeatBound
    <3>5. \A d \in Seats : d # b => seats'[d] = seats[d]
      BY <1>0, <2>2
    <3>6. Existing' = Existing
      BY <3>2, <3>5 DEF Existing
    <3>7. \A d \in Seats : seats'[d] = seats[d] \/ SeatBound(seats'[d])
      BY <3>4, <3>5
    <3>8. UNCHANGED seminar /\ \A p \in Purchases : purchase'[p].session \in 0..MaxEdits
      BY <1>3, <1>16 DEF RefundSeat
    <3>9. /\ Seating' \subseteq Seating
          /\ \A g \in Clerks : clerk'[g] \in {clerk[g], IdleClerk} \/ ClerkBound(clerk'[g], Kept, E)
      BY <1>7, <2>2
    <3> QED BY <3>6, <3>7, <3>8, <3>9, StandsOrGrows DEF E
  <2> QED BY <1>16, <2>1, <2>2 DEF RefundSeat
<1>17. ASSUME NEW h \in Clerks, SaveCancelledSeat(h) PROVE SeatsBound'
  <2> DEFINE b == clerk[h].seat
  <2>1. b \in Seats
    BY <1>17 DEF SaveCancelledSeat, SeminarInv, SeatsShaped
  <2>2. seats' = [seats EXCEPT ![b].status = "cancelled"]
    BY <1>17 DEF SaveCancelledSeat
  <2>3. /\ seats'[b].session = seats[b].session /\ seats'[b].reference = seats[b].reference
        /\ seats'[b].refunded = seats[b].refunded /\ seats'[b].status = "cancelled"
        /\ \A d \in Seats : d # b => seats'[d] = seats[d]
    BY <1>0, <2>1, <2>2 DEF SeatShape
  <2>4. Existing \subseteq Existing'
    BY <2>3 DEF Existing, NoSeat
  <2>5. \A d \in Seats : seats'[d] = seats[d] \/ SeatBound(seats'[d])
    BY <2>1, <2>3 DEF SeatsBound, SeatBound
  <2>6. UNCHANGED seminar /\ \A p \in Purchases : purchase'[p].session \in 0..MaxEdits
    BY <1>3, <1>17 DEF SaveCancelledSeat
  <2>7. /\ Seating' \subseteq Seating
        /\ \A g \in Clerks : clerk'[g] \in {clerk[g], IdleClerk} \/ ClerkBound(clerk'[g], Kept, E)
    <3>1. CASE clerk[h].copy.count > 0 /\ ClerkGoes(h, "unseat")
      BY <1>7, <3>1
    <3>2. CASE ClerkEnds(h)
      BY <1>5, <3>2
    <3> QED BY <1>17, <3>1, <3>2 DEF SaveCancelledSeat
  <2> QED BY <2>4, <2>5, <2>6, <2>7, StandsOrGrows DEF E
<1>18. ASSUME NEW h \in Clerks, ClerkEnds(h), UNCHANGED <<seats, purchase>>,
              CopyBound(seminar', Kept) \/ UNCHANGED seminar
       PROVE  SeatsBound'
  <2>1. Existing' = Existing /\ Seating' \subseteq Seating
    BY <1>4, <1>5, <1>18
  <2>2. Kept' \in Int /\ Kept <= Kept'
    BY <2>1, KeptGrows
  <2>3. CopyBound(seminar', Kept') \/ UNCHANGED seminar
    <3> DEFINE l == Kept'
    <3>1. \A c : CopyBound(c, Kept) => CopyBound(c, l)
      <4> HIDE DEF l
      <4>1. l \in Int /\ Kept <= l
        BY <2>2 DEF l
      <4> QED BY <1>1, <4>1, BoundsGrow
    <3> QED BY <1>18, <3>1
  <2>4. \A p \in Purchases : purchase'[p].session \in 0..MaxEdits
    BY <1>3, <1>18
  <2> QED BY <1>5, <1>18, <2>1, <2>3, <2>4, StandsOrGrows
<1>19. ASSUME NEW h \in Clerks, FreeSeat(h) PROVE SeatsBound'
  <2> DEFINE copy == clerk[h].copy
  <2>1. copy.count - 1 \in 0..Kept
    <3>1. copy.count \in 0..Kept /\ copy.count > 0
      BY <1>2, <1>19 DEF FreeSeat, ClerkBound, CopyBound
    <3> QED BY <1>1, <3>1
  <2>2. CopyBound(Counted(copy, copy.count - 1), Kept)
    <3>1. Kept <= Kept
      BY <1>1
    <3> HIDE DEF copy
    <3> QED BY <1>1, <2>1, <3>1, CountedBound
  <2> QED BY <1>18, <1>19, <2>2 DEF FreeSeat
<1>20. ASSUME NEW h \in Clerks, ReadSeminar(h) PROVE SeatsBound'
  <2> DEFINE r == [clerk[h] EXCEPT !.step = "edit", !.copy = CopyOf(seminar)]
  <2>1. /\ r.step = "edit" /\ r.copy = CopyOf(seminar) /\ r.tally = clerk[h].tally /\ r.owed = clerk[h].owed
        /\ clerk' = [clerk EXCEPT ![h] = r]
    BY <1>0, <1>20 DEF ReadSeminar, ClerkShape
  <2> HIDE DEF r
  <2>2. ClerkBound(r, Kept, E)
    BY <1>2, <2>1, CopyIsBound DEF ClerkBound
  <2> QED BY <1>6, <1>8, <1>20, <2>1, <2>2 DEF ReadSeminar
<1>21. ASSUME NEW h \in Clerks, NEW max \in 1..MaxSeats, NEW sameId \in BOOLEAN, SaveSessions(h, max, sameId)
       PROVE  SeatsBound'
  <2> DEFINE copy == clerk[h].copy
  <2>1. \A g \in Clerks : clerk'[g] = IdleClerk
                          \/ /\ clerk'[g].copy = clerk[g].copy /\ clerk'[g].tally = clerk[g].tally
                             /\ clerk'[g].owed = clerk[g].owed /\ clerk'[g].step = clerk[g].step
    BY <1>0, <1>21 DEF SaveSessions, ClerkShape
  <2>2. \A g \in Clerks : clerk'[g] \in {clerk[g], IdleClerk} \/ ClerkBound(clerk'[g], Kept, E)
    BY <1>2, <2>1 DEF ClerkBound
  <2>3. Seating' \subseteq Seating
    BY <2>1 DEF Seating, IdleClerk
  <2>4. /\ seminar'.session \in {seminar.session, seminar.version + 1} /\ seminar'.max = max
        /\ seminar'.count = copy.count /\ seminar'.version = seminar.version + 1
        /\ seminar.version < MaxEdits /\ UNCHANGED <<seats, purchase>>
    BY <1>0, <1>21 DEF SaveSessions, SeminarShape
  <2>5. CopyBound(seminar', Kept)
    <3>1. copy.count \in 0..Kept
      BY <1>2 DEF ClerkBound, CopyBound
    <3>2. seminar.session \in 0..MaxEdits /\ seminar.version \in 0..MaxEdits
      BY DEF SeatsBound, CopyBound
    <3> QED BY <2>4, <3>1, <3>2, SeminarAssumption DEF CopyBound
  <2>6. Kept' \in Int /\ Kept <= Kept' /\ Existing' = Existing
    BY <1>4, <2>3, <2>4, KeptGrows
  <2>7. CopyBound(seminar', Kept')
    <3> DEFINE l == Kept'
    <3>1. \A c : CopyBound(c, Kept) => CopyBound(c, l)
      <4> HIDE DEF l
      <4>1. l \in Int /\ Kept <= l
        BY <2>6 DEF l
      <4> QED BY <1>1, <4>1, BoundsGrow
    <3> QED BY <2>5, <3>1
  <2>8. \A p \in Purchases : purchase'[p].session \in 0..MaxEdits
    BY <1>3, <2>4
  <2> QED BY <2>2, <2>3, <2>4, <2>6, <2>7, <2>8, StandsOrGrows DEF E
<1>22. ASSUME NEW h \in Clerks, \/ ClerkFails(h) \/ DeleteSeminar(h)
                               \/ \E status \in {"published", "archived"} : SaveSeminarStatus(h, status)
       PROVE  SeatsBound'
  <2>1. ClerkEnds(h) /\ UNCHANGED <<seats, purchase>>
    BY <1>22 DEF ClerkFails, DeleteSeminar, SaveSeminarStatus
  <2>2. /\ seminar'.session = seminar.session /\ seminar'.max = seminar.max
        /\ seminar'.version = seminar.version /\ seminar'.count = seminar.count
    BY <1>0, <1>22 DEF ClerkFails, DeleteSeminar, SaveSeminarStatus, SeminarShape
  <2>3. CopyBound(seminar', Kept)
    BY <2>2 DEF SeatsBound, CopyBound
  <2> QED BY <1>18, <2>1, <2>3
<1>23. CASE UNCHANGED seminarVars
  BY <1>3, <1>4, <1>23, StandsOrGrows DEF seminarVars
<1> QED
  BY <1>9, <1>10, <1>11, <1>12, <1>13, <1>14, <1>15, <1>16, <1>17, <1>19, <1>20, <1>21, <1>22, <1>23
     DEF SeminarNext

(* The agenda of a specialist: times stay within the day and the two that  *)
(* border it.                                                              *)

AgendaVisits == [start : -Day..2*Day, end : -Day..2*Day, gone : BOOLEAN]

LEMMA AgendaStartsTyped == AvailabilityInit => AvailabilityTypeOK
BY AvailabilityAssumption, FS_EmptySet DEF AvailabilityInit, AvailabilityTypeOK

LEMMA AgendaTypesKeep == AvailabilityTypeOK /\ [AvailabilityNext]_agendaVars => AvailabilityTypeOK'
<1> SUFFICES ASSUME AvailabilityTypeOK, [AvailabilityNext]_agendaVars PROVE AvailabilityTypeOK'
  OBVIOUS
<1> USE AvailabilityAssumption
<1>1. /\ visits \subseteq AgendaVisits /\ off \subseteq Interval /\ weekly \in Schedules
      /\ custom \subseteq SUBSET WorkingWindows /\ Cardinality(custom) <= 1 /\ now \in -1..Day
  BY DEF AvailabilityTypeOK, AgendaVisits
<1>2. Day \in Nat /\ Step \in Nat /\ Step <= Day /\ Day >= 1 /\ Step >= 1
  OBVIOUS
<1>3. ASSUME visits' \subseteq AgendaVisits, UNCHANGED <<off, weekly, custom, now>> PROVE AvailabilityTypeOK'
  BY <1>1, <1>3 DEF AvailabilityTypeOK, AgendaVisits, Interval
<1>4. ASSUME NEW start \in -Step..Day-1, NEW length \in Lengths, BookVisit(start, length)
      PROVE  AvailabilityTypeOK'
  <2> DEFINE v == [start |-> start, end |-> start + length, gone |-> FALSE]
  <2>1. start \in -Day..2*Day /\ start + length \in -Day..2*Day
    <3>1. length \in 1..Day
      OBVIOUS
    <3> QED BY <1>2, <3>1
  <2>2. v \in AgendaVisits
    BY <2>1 DEF AgendaVisits
  <2>3. visits' = visits \cup {v} /\ UNCHANGED <<off, weekly, custom, now>>
    BY <1>4 DEF BookVisit
  <2> HIDE DEF v
  <2> QED BY <1>1, <1>3, <2>2, <2>3
<1>5. ASSUME NEW v \in visits, GiveUp(v) PROVE AvailabilityTypeOK'
  <2> DEFINE w == [v EXCEPT !.gone = TRUE]
  <2>1. w \in AgendaVisits
    <3> DEFINE N == -Day..2*Day
    <3> HIDE DEF N
    <3>1. AgendaVisits = [start : N, end : N, gone : BOOLEAN]
      BY DEF AgendaVisits, N
    <3> QED BY <1>1, <3>1
  <2>2. visits' = (visits \ {v}) \cup {w} /\ UNCHANGED <<off, weekly, custom, now>>
    BY <1>5 DEF GiveUp
  <2> HIDE DEF w
  <2> QED BY <1>1, <1>3, <2>1, <2>2
<1>6. ASSUME NEW a \in {0, Step + 1, Day}, NEW b \in {0, Step + 1, Day}, AddTimeOff([start |-> a, end |-> b])
      PROVE  AvailabilityTypeOK'
  <2>1. a \in -Day..2*Day /\ b \in -Day..2*Day
    BY <1>2
  <2>2. [start |-> a, end |-> b] \in Interval
    BY <2>1 DEF Interval
  <2>3. off' \subseteq Interval /\ UNCHANGED <<visits, weekly, custom, now>>
    BY <1>6, <2>2 DEF AddTimeOff
  <2> QED BY <1>1, <2>3 DEF AvailabilityTypeOK, AgendaVisits, Interval
<1>7. CASE RemoveTimeOff
  BY <1>1, <1>7 DEF RemoveTimeOff, AvailabilityTypeOK, AgendaVisits, Interval
<1>8. ASSUME NEW s \in Schedules, SetWorkingHours(s) PROVE AvailabilityTypeOK'
  BY <1>1, <1>8 DEF SetWorkingHours, AvailabilityTypeOK, AgendaVisits, Interval
<1>9. ASSUME NEW s \in Schedules, SetCustomSchedule(s) PROVE AvailabilityTypeOK'
  <2> DEFINE bare == {[w EXCEPT !.breaks = {}] : w \in s}
  <2>1. bare \subseteq WorkingWindows
    <3> SUFFICES ASSUME NEW w \in s PROVE [w EXCEPT !.breaks = {}] \in WorkingWindows
      OBVIOUS
    <3>1. w \in WorkingWindows
      OBVIOUS
    <3> QED BY <3>1 DEF WorkingWindows
  <2>2. custom' = {bare} /\ UNCHANGED <<visits, off, weekly, now>>
    BY <1>9 DEF SetCustomSchedule
  <2> HIDE DEF bare
  <2>3. Cardinality({bare}) = 1
    BY FS_Singleton
  <2> QED BY <1>1, <2>1, <2>2, <2>3 DEF AvailabilityTypeOK, AgendaVisits, Interval
<1>10. CASE DayPasses
  <2>1. now' \in -1..Day
    BY <1>1, <1>2, <1>10 DEF DayPasses
  <2> QED BY <1>1, <1>10, <2>1 DEF DayPasses, AvailabilityTypeOK, AgendaVisits, Interval
<1>11. CASE UNCHANGED agendaVars
  BY <1>1, <1>11 DEF agendaVars, AvailabilityTypeOK, AgendaVisits, Interval
<1> QED BY <1>4, <1>5, <1>6, <1>7, <1>8, <1>9, <1>10, <1>11 DEF AvailabilityNext

(* The parts together.                                                     *)

VisitsTyped ==
  /\ CancellationInv
  /\ WaitlistInv
  /\ SeminarInv /\ SeatsBound
  /\ ReminderInv
  /\ AvailabilityTypeOK
  /\ ClientInv

\* A step is one of one part; the others stand still.
LEMMA VisitsSteps ==
  [Next]_<<focus, cancellationVars, waitlistVars, seminarVars, reminderVars, agendaVars, clientVars>> =>
    /\ [CancellationNext]_cancellationVars
    /\ [WaitlistNext]_waitlistVars
    /\ [SeminarNext]_seminarVars
    /\ [ReminderNext]_reminderVars
    /\ [AvailabilityNext]_agendaVars
    /\ [ClientNext]_clientVars
BY DEF Next

\* Every field of every document, copy and request around an appointment holds one of
\* the values its type admits: a refund is never more than was charged, a seminar's
\* counter is neither negative nor larger than the number of bookings, whatever races
\* and crashes there are (controllers/seminarBookingController.js), and times stay
\* within the day and the two that border it.  For any number of requests, clients,
\* entries and seats.
THEOREM VisitTypes == Spec => []TypeOK
<1>1. Init => VisitsTyped
  BY CancellationStarts, WaitlistStarts, SeminarStarts, SeatsStartBound, RemindersStart, AgendaStartsTyped,
     ClientsStart
     DEF Init, VisitsTyped
<1>2. VisitsTyped /\ [Next]_<<focus, cancellationVars, waitlistVars, seminarVars, reminderVars, agendaVars,
                              clientVars>> => VisitsTyped'
  BY VisitsSteps, CancellationSteps, WaitlistSteps, SeminarSteps, SeatsBoundKeep, ReminderSteps,
     AgendaTypesKeep, ClientSteps
     DEF VisitsTyped
<1>3. VisitsTyped => TypeOK
  BY SeminarIsTyped DEF VisitsTyped, TypeOK, CancellationInv, WaitlistInv, ReminderInv, ClientInv
<1> QED BY <1>1, <1>2, <1>3, PTL DEF Spec

-----------------------------------------------------------------------------
(* Induction over the naturals, for a set of numbers.                      *)

LEMMA NaturalsAreIn ==
  ASSUME NEW T, 0 \in T, \A n \in Nat : n \in T => n + 1 \in T
  PROVE  Nat \subseteq T
<1> DEFINE R == OpToRel(<, Nat)
           U == Nat \ T
<1>1. SUFFICES ASSUME U # {} PROVE FALSE
  OBVIOUS
<1>2. \E x \in U : \A y \in U : ~(<<y, x>> \in R)
  <2> HIDE DEF R
  <2>1. IsWellFoundedOn(R, Nat)
    BY NatLessThanWellFounded DEF R
  <2>2. U \subseteq Nat
    OBVIOUS
  <2> HIDE DEF U
  <2> QED BY ONLY <2>1, <2>2, <1>1, WFMin
<1>3. PICK x \in U : \A y \in U : ~(<<y, x>> \in R)
  BY <1>2
<1>4. \A y \in U : ~(y < x)
  BY <1>3 DEF OpToRel
<1>5. x \in Nat /\ x # 0
  OBVIOUS
<1>6. x - 1 \in Nat /\ x - 1 < x /\ (x - 1) + 1 = x
  BY <1>5
<1>7. x - 1 \in T
  BY <1>4, <1>6
<1>8. x \in T
  BY <1>6, <1>7
<1> QED BY <1>8

LEMMA LeastExists ==
  ASSUME NEW U, U \subseteq Nat, U # {}
  PROVE  \E n \in U : \A m \in U : n <= m
<1> DEFINE T == {n \in Nat : \A m \in 0..n : m \notin U}
<1>1. SUFFICES ASSUME \A n \in U : \E m \in U : ~(n <= m) PROVE FALSE
  OBVIOUS
<1>2. 0 \in T
  <2> SUFFICES ASSUME 0 \in U PROVE FALSE
    OBVIOUS
  <2>1. PICK m \in U : ~(0 <= m)
    BY <1>1
  <2> QED BY <2>1
<1>3. ASSUME NEW n \in Nat, n \in T PROVE n + 1 \in T
  <2> SUFFICES ASSUME n + 1 \in U PROVE FALSE
    BY <1>3
  <2>1. PICK m \in U : ~(n + 1 <= m)
    BY <1>1
  <2>2. m \in 0..n
    BY <2>1
  <2> QED BY <2>1, <2>2, <1>3
<1>4. Nat \subseteq T
  <2> HIDE DEF T
  <2> QED BY <1>2, <1>3, NaturalsAreIn
<1>5. PICK n : n \in U
  BY ONLY U # {}
<1>6. n \in Nat /\ n \in 0..n
  BY <1>5
<1> QED BY <1>4, <1>5, <1>6

-----------------------------------------------------------------------------
(* Intervals, and sequences of them sorted by start.                       *)

Times == -Day..2*Day

Sorted(seq) == \A i, j \in DOMAIN seq : i < j => seq[i].start <= seq[j].start

Sorts(seq, S) ==
  /\ seq \in Seq(S) /\ \A x \in S : \E i \in 1..Len(seq) : seq[i] = x
  /\ \A i, j \in 1..Len(seq) : i < j => seq[i].start <= seq[j].start

LEMMA IntervalsAreFinite == ASSUME NEW S, S \subseteq Interval PROVE IsFiniteSet(S)
<1> DEFINE P == Times \X Times
           f == [p \in P |-> [start |-> p[1], end |-> p[2]]]
<1>1. Day \in Nat
  BY AvailabilityAssumption
<1>2. IsFiniteSet(Times)
  BY <1>1, FS_Interval DEF Times
<1>3. IsFiniteSet(P)
  BY <1>2, FS_Product
<1>4. f \in [P -> Interval]
  BY DEF Interval, Times
<1>5. \A iv \in Interval : \E p \in P : f[p] = iv
  <2> SUFFICES ASSUME NEW iv \in Interval PROVE \E p \in P : f[p] = iv
    OBVIOUS
  <2>1. <<iv.start, iv.end>> \in P /\ iv = [start |-> iv.start, end |-> iv.end]
    BY DEF Interval, Times
  <2>2. f[<<iv.start, iv.end>>] = iv
    BY <2>1
  <2> QED BY <2>1, <2>2
<1>6. f \in Surjection(P, Interval)
  <2> HIDE DEF f, P
  <2> QED BY <1>4, <1>5 DEF Surjection
<1>7. IsFiniteSet(Interval)
  <2> HIDE DEF f, P
  <2> QED BY <1>3, <1>6, FS_Surjection
<1> QED BY <1>7, FS_Subset

\* The last one to begin.
LEMMA LatestExists ==
  ASSUME NEW S, S \subseteq Interval, S # {}
  PROVE  \E x \in S : \A y \in S : y.start <= x.start
<1> DEFINE U == {2 * Day - x.start : x \in S}
<1>1. \A x \in S : x.start \in Int /\ 2 * Day - x.start \in Nat
  BY AvailabilityAssumption DEF Interval
<1>2. U \subseteq Nat /\ U # {}
  BY <1>1
<1>3. PICK n \in U : \A m \in U : n <= m
  <2> HIDE DEF U
  <2> QED BY <1>2, LeastExists
<1>4. PICK x \in S : n = 2 * Day - x.start
  BY <1>3
<1>5. \A y \in S : y.start <= x.start
  <2> SUFFICES ASSUME NEW y \in S PROVE y.start <= x.start
    OBVIOUS
  <2>1. 2 * Day - x.start <= 2 * Day - y.start
    BY <1>3, <1>4
  <2>2. x.start \in Int /\ y.start \in Int /\ Day \in Int
    BY <1>1, AvailabilityAssumption
  <2> QED BY ONLY <2>1, <2>2
<1> QED BY <1>5

\* Every set of intervals can be sorted.
LEMMA SortExists ==
  ASSUME NEW S, S \subseteq Interval
  PROVE  \E seq \in SetToSeqs(S) : Sorted(seq)
<1> DEFINE T == {n \in Nat : \A R \in SUBSET Interval : Cardinality(R) = n =>
                               \E seq \in SetToSeqs(R) : Sorted(seq)}
<1>1. 0 \in T
  <2> SUFFICES ASSUME NEW R \in SUBSET Interval, Cardinality(R) = 0
               PROVE  \E seq \in SetToSeqs(R) : Sorted(seq)
    OBVIOUS
  <2> DEFINE seq == [i \in 1..0 |-> 0]
  <2>1. DOMAIN seq = {} /\ seq \in [1..0 -> R] /\ 1..0 = {}
    OBVIOUS
  <2> HIDE DEF seq
  <2>2. seq \in SetToSeqs(R)
    BY <2>1 DEF SetToSeqs
  <2> QED BY <2>1, <2>2 DEF Sorted
<1>2. ASSUME NEW n \in Nat, n \in T PROVE n + 1 \in T
  <2> SUFFICES ASSUME NEW R \in SUBSET Interval, Cardinality(R) = n + 1
               PROVE  \E seq \in SetToSeqs(R) : Sorted(seq)
    OBVIOUS
  <2>1. IsFiniteSet(R) /\ R # {}
    BY IntervalsAreFinite, FS_EmptySet
  <2>2. PICK x \in R : \A y \in R : y.start <= x.start
    BY <2>1, LatestExists
  <2>3. R \ {x} \in SUBSET Interval /\ Cardinality(R \ {x}) = n
    <3>1. Cardinality(R \ {x}) = Cardinality(R) - 1
      BY <2>1, <2>2, FS_RemoveElement
    <3>2. n + 1 - 1 = n
      OBVIOUS
    <3> QED BY <3>1, <3>2
  <2>4. PICK s \in SetToSeqs(R \ {x}) : Sorted(s)
    BY <1>2, <2>3
  <2>5. /\ s \in [1..n -> R \ {x}]
        /\ \A i, j \in 1..n : i # j => s[i] # s[j]
        /\ \A i, j \in 1..n : i < j => s[i].start <= s[j].start
    BY <2>3, <2>4 DEF SetToSeqs, Sorted
  <2> DEFINE seq == [i \in 1..n + 1 |-> IF i = n + 1 THEN x ELSE s[i]]
  <2>6. \A i \in 1..n + 1 : i = n + 1 \/ i \in 1..n
    OBVIOUS
  <2>7. /\ seq \in [1..n + 1 -> R] /\ seq[n + 1] = x
        /\ \A i \in 1..n : seq[i] = s[i] /\ seq[i] # x /\ seq[i] \in R
    BY <2>5, <2>6
  <2> HIDE DEF seq
  <2>8. ASSUME NEW i \in 1..n + 1, NEW j \in 1..n + 1, i # j PROVE seq[i] # seq[j]
    <3>1. CASE i = n + 1
      BY <2>6, <2>7, <2>8, <3>1
    <3>2. CASE j = n + 1
      BY <2>6, <2>7, <2>8, <3>2
    <3>3. CASE i \in 1..n /\ j \in 1..n
      BY <2>5, <2>7, <2>8, <3>3
    <3> QED BY <2>6, <3>1, <3>2, <3>3
  <2>9. ASSUME NEW i \in 1..n + 1, NEW j \in 1..n + 1, i < j PROVE seq[i].start <= seq[j].start
    <3>1. i \in 1..n
      BY <2>9
    <3>2. CASE j = n + 1
      BY <2>2, <2>7, <3>1, <3>2
    <3>3. CASE j \in 1..n
      BY <2>5, <2>7, <2>9, <3>1, <3>3
    <3> QED BY <2>6, <3>2, <3>3
  <2>10. seq \in SetToSeqs(R)
    BY <2>7, <2>8 DEF SetToSeqs
  <2>11. Sorted(seq)
    BY <2>7, <2>9 DEF Sorted
  <2> QED BY <2>10, <2>11
<1>3. Nat \subseteq T
  <2> HIDE DEF T
  <2> QED BY <1>1, <1>2, NaturalsAreIn
<1>4. Cardinality(S) \in Nat
  BY IntervalsAreFinite, FS_CardinalityType
<1> QED BY <1>3, <1>4

\* What the sorted sequence of a set is, and that it leaves nothing out.
LEMMA ByStartSorts ==
  ASSUME NEW S, S \subseteq Interval
  PROVE  Sorts(ByStart(S), S)
<1> DEFINE seq == ByStart(S)
<1>1. seq \in SetToSeqs(S) /\ Sorted(seq)
  BY SortExists DEF ByStart, Sorted
<1> HIDE DEF seq
<1> DEFINE n == Cardinality(S)
<1>2. IsFiniteSet(S) /\ n \in Nat
  BY IntervalsAreFinite, FS_CardinalityType
<1>3. seq \in [1..n -> S] /\ \A i, j \in 1..n : i # j => seq[i] # seq[j]
  BY <1>1 DEF SetToSeqs
<1>4. Cardinality(1..n) = n
  <2> HIDE DEF n
  <2> QED BY <1>2, FS_Interval
<1> HIDE DEF n
<1>5. seq \in Injection(1..n, S)
  BY <1>3 DEF Injection, IsInjective
<1>6. seq \in Surjection(1..n, S)
  BY <1>2, <1>4, <1>5, FS_Injection DEF n
<1>7. seq \in Seq(S) /\ Len(seq) = n
  BY <1>2, <1>3
<1>8. \A x \in S : \E i \in 1..n : seq[i] = x
  BY <1>6 DEF Surjection
<1> QED BY <1>1, <1>3, <1>7, <1>8 DEF Sorts, Sorted, seq

-----------------------------------------------------------------------------
(* slotPlanner.js: merging adds no time and loses none.                    *)

Span == {iv \in Interval : iv.start < iv.end}

\* A slot meets one of the intervals of a sequence.
Blocked(seq, m) == \E i \in 1..Len(seq) : Overlap(Slot(m), seq[i])

LEMMA TimesAreIntegers ==
  /\ {Day, Step, Block} \subseteq Nat \ {0} /\ Shift \in Nat
  /\ \A iv \in Interval : iv.start \in Int /\ iv.end \in Int
BY AvailabilityAssumption DEF Interval

LEMMA AppendBlocks ==
  ASSUME NEW seq \in Seq(Interval), NEW iv \in Interval, NEW m \in Int
  PROVE  /\ Append(seq, iv) \in Seq(Interval) /\ Append(seq, iv) # <<>> /\ Last(Append(seq, iv)) = iv
         /\ Blocked(Append(seq, iv), m) <=> Blocked(seq, m) \/ Overlap(Slot(m), iv)
<1> DEFINE new == Append(seq, iv)
<1>1. /\ new \in Seq(Interval) /\ Len(new) = Len(seq) + 1 /\ new[Len(seq) + 1] = iv
      /\ \A i \in 1..Len(seq) : new[i] = seq[i]
      /\ Len(seq) \in Nat
  OBVIOUS
<1> HIDE DEF new
<1>2. new # <<>> /\ Last(new) = iv
  BY <1>1 DEF Last
<1>3. \A i \in 1..Len(new) : i = Len(seq) + 1 \/ i \in 1..Len(seq)
  BY <1>1
<1>4. Len(seq) + 1 \in 1..Len(new) /\ \A i \in 1..Len(seq) : i \in 1..Len(new)
  BY <1>1
<1>5. Blocked(new, m) <=> Blocked(seq, m) \/ Overlap(Slot(m), iv)
  BY <1>1, <1>3, <1>4 DEF Blocked
<1> QED BY <1>1, <1>2, <1>5 DEF new

\* A sequence is its front and its last interval.
LEMMA LastBlocks ==
  ASSUME NEW seq \in Seq(Interval), seq # <<>>, NEW m \in Int
  PROVE  /\ Front(seq) \in Seq(Interval) /\ Last(seq) \in Interval
         /\ Blocked(seq, m) <=> Blocked(Front(seq), m) \/ Overlap(Slot(m), Last(seq))
<1>1. Len(seq) \in Nat /\ Len(seq) > 0
  OBVIOUS
<1> DEFINE fr == Front(seq)
<1>2. /\ fr \in Seq(Interval) /\ Len(fr) = Len(seq) - 1
      /\ \A i \in 1..Len(seq) - 1 : fr[i] = seq[i]
  <2>1. fr = SubSeq(seq, 1, Len(seq) - 1)
    BY DEF Front
  <2>2. fr \in Seq(Interval)
    BY <1>1, <2>1
  <2>3. Len(fr) = Len(seq) - 1
    <3> DEFINE k == Len(seq) - 1
    <3>1. k \in Nat /\ 1 + k - 1 = k
      BY <1>1
    <3> HIDE DEF k
    <3>2. Len(SubSeq(seq, 1, k)) = k
      BY <3>1
    <3> QED BY <2>1, <3>2 DEF k
  <2>4. \A i \in 1..Len(seq) - 1 : fr[i] = seq[i]
    BY <1>1, <2>1
  <2> QED BY <2>2, <2>3, <2>4
<1> HIDE DEF fr
<1>3. Last(seq) = seq[Len(seq)] /\ Last(seq) \in Interval
  BY <1>1 DEF Last
<1>4. /\ \A i \in 1..Len(seq) : i = Len(seq) \/ i \in 1..Len(seq) - 1
      /\ \A i \in 1..Len(seq) - 1 : i \in 1..Len(seq)
      /\ Len(seq) \in 1..Len(seq)
  BY <1>1
<1>5. Blocked(seq, m) <=> Blocked(fr, m) \/ Overlap(Slot(m), Last(seq))
  BY <1>2, <1>3, <1>4 DEF Blocked
<1> QED BY <1>2, <1>3, <1>5 DEF fr

LEMMA MergeBlocks ==
  ASSUME NEW out \in Seq(Interval), NEW iv \in Interval,
         out # <<>> => Last(out).start <= iv.start
  PROVE  /\ Merge(out, iv) \in Seq(Interval) /\ Merge(out, iv) # <<>>
         /\ Last(Merge(out, iv)).start <= iv.start
         /\ \A m \in Int : Blocked(Merge(out, iv), m) <=> Blocked(out, m) \/ Overlap(Slot(m), iv)
<1>1. iv \in Interval /\ iv.start \in Int /\ iv.end \in Int
  BY TimesAreIntegers
<1> DEFINE L == Last(out)
           long == [L EXCEPT !.end = iv.end]
<1>2. CASE out = <<>> \/ iv.start > L.end
  <2>1. Merge(out, iv) = Append(out, iv)
    BY <1>2 DEF Merge
  <2> HIDE DEF L, long
  <2> QED BY <1>1, <2>1, AppendBlocks
<1>3. CASE out # <<>> /\ ~(iv.start > L.end) /\ iv.end > L.end
  <2>1. Merge(out, iv) = Append(Front(out), long)
    BY <1>3 DEF Merge
  <2>2. L \in Interval /\ Front(out) \in Seq(Interval)
    BY <1>3, LastBlocks, 0 \in Int
  <2>3. long \in Interval /\ long.start = L.start /\ long.end = iv.end
    BY <1>1, <2>2 DEF Interval
  <2>4. L.start \in Int /\ L.end \in Int /\ L.start <= iv.start
    BY <1>3, <2>2, TimesAreIntegers
  <2>5. ASSUME NEW m \in Int
        PROVE  Overlap(Slot(m), long) <=> Overlap(Slot(m), L) \/ Overlap(Slot(m), iv)
    <3>1. Slot(m).start = m /\ Slot(m).end = m + Block /\ Block \in Nat \ {0}
      BY TimesAreIntegers DEF Slot
    <3>2. m < iv.end /\ L.start < m + Block <=>
            (m < L.end /\ L.start < m + Block) \/ (m < iv.end /\ iv.start < m + Block)
      BY <1>1, <1>3, <2>4, <3>1
    <3> HIDE DEF long, L
    <3> QED BY <2>3, <3>1, <3>2 DEF Overlap
  <2> HIDE DEF long, L
  <2>6. ASSUME NEW m \in Int
        PROVE  Blocked(Merge(out, iv), m) <=> Blocked(out, m) \/ Overlap(Slot(m), iv)
    <3>1. Blocked(Merge(out, iv), m) <=> Blocked(Front(out), m) \/ Overlap(Slot(m), long)
      BY <2>1, <2>2, <2>3, AppendBlocks
    <3>2. Blocked(out, m) <=> Blocked(Front(out), m) \/ Overlap(Slot(m), L)
      BY <1>3, LastBlocks DEF L
    <3> QED BY <2>5, <3>1, <3>2
  <2>7. Merge(out, iv) \in Seq(Interval) /\ Merge(out, iv) # <<>> /\ Last(Merge(out, iv)) = long
    BY <2>1, <2>2, <2>3, AppendBlocks, 0 \in Int
  <2> QED BY <2>3, <2>4, <2>6, <2>7
<1>4. CASE out # <<>> /\ ~(iv.start > L.end) /\ ~(iv.end > L.end)
  <2>1. Merge(out, iv) = out
    BY <1>4 DEF Merge
  <2>2. L \in Interval
    BY <1>4, LastBlocks, 0 \in Int
  <2>3. L.start \in Int /\ L.end \in Int /\ L.start <= iv.start
    BY <1>4, <2>2, TimesAreIntegers
  <2>4. ASSUME NEW m \in Int, Overlap(Slot(m), iv) PROVE Overlap(Slot(m), L)
    <3>1. Slot(m).start = m /\ Slot(m).end = m + Block /\ Block \in Nat \ {0}
      BY TimesAreIntegers DEF Slot
    <3>2. m < iv.end /\ iv.start < m + Block
      BY <2>4, <3>1 DEF Overlap
    <3>3. m < L.end /\ L.start < m + Block
      BY <1>1, <1>4, <2>3, <3>1, <3>2
    <3> HIDE DEF L
    <3> QED BY <3>1, <3>3 DEF Overlap
  <2>5. ASSUME NEW m \in Int, Overlap(Slot(m), L) PROVE Blocked(out, m)
    BY <1>4, <2>5, LastBlocks
  <2> HIDE DEF L
  <2> QED BY <1>4, <2>1, <2>3, <2>4, <2>5 DEF L
<1> HIDE DEF L, long
<1> QED BY <1>2, <1>3, <1>4

-----------------------------------------------------------------------------

\* One interval begins after the other.
Ordered(seq) ==
  seq \in Seq(Interval) /\ \A i, j \in 1..Len(seq) : i < j => seq[i].start <= seq[j].start

LEMMA AppendKeepsOrder ==
  ASSUME NEW seq, Ordered(seq), NEW iv \in Interval, seq # <<>> => Last(seq).start <= iv.start
  PROVE  Ordered(Append(seq, iv))
<1> DEFINE new == Append(seq, iv)
           N == Len(seq)
<1>1. /\ seq \in Seq(Interval) /\ N \in Nat /\ \A i \in 1..N : seq[i] \in Interval
      /\ \A i, j \in 1..N : i < j => seq[i].start <= seq[j].start
  BY DEF Ordered
<1>2. /\ new \in Seq(Interval) /\ Len(new) = N + 1 /\ new[N + 1] = iv
      /\ \A i \in 1..N : new[i] = seq[i]
  BY <1>1
<1>3. \A i \in 1..N : seq[i].start <= iv.start
  <2> SUFFICES ASSUME NEW i \in 1..N PROVE seq[i].start <= iv.start
    OBVIOUS
  <2>1. seq # <<>> /\ Last(seq) = seq[N] /\ N \in 1..N
    BY <1>1 DEF Last
  <2>2. seq[N].start <= iv.start /\ (i = N \/ i < N)
    BY <1>1, <2>1
  <2>3. seq[i].start <= seq[N].start
    BY <1>1, <2>1, <2>2, TimesAreIntegers
  <2>4. seq[i].start \in Int /\ seq[N].start \in Int /\ iv.start \in Int
    BY <1>1, <2>1, TimesAreIntegers
  <2> QED BY ONLY <2>2, <2>3, <2>4
<1> HIDE DEF new, N
<1>4. ASSUME NEW i \in 1..Len(new), NEW j \in 1..Len(new), i < j PROVE new[i].start <= new[j].start
  <2>1. i \in 1..N /\ (j = N + 1 \/ j \in 1..N)
    BY <1>1, <1>2, <1>4
  <2> QED BY <1>1, <1>2, <1>3, <1>4, <2>1
<1> QED BY <1>2, <1>4 DEF Ordered, new

LEMMA MergeKeepsOrder ==
  ASSUME NEW out, Ordered(out), NEW iv \in Interval, out # <<>> => Last(out).start <= iv.start
  PROVE  Ordered(Merge(out, iv))
<1> DEFINE L == Last(out)
           long == [L EXCEPT !.end = iv.end]
           new == Append(Front(out), long)
           N == Len(out)
<1>1. CASE out = <<>> \/ iv.start > L.end
  <2>1. Merge(out, iv) = Append(out, iv)
    BY <1>1 DEF Merge
  <2> QED BY <2>1, AppendKeepsOrder
<1>2. CASE out # <<>> /\ ~(iv.start > L.end) /\ iv.end > L.end
  <2>1. Merge(out, iv) = new
    BY <1>2 DEF Merge
  <2>2. out \in Seq(Interval) /\ N \in Nat /\ N > 0
    BY <1>2 DEF Ordered
  <2>3. L \in Interval /\ Front(out) \in Seq(Interval)
    BY <1>2, <2>2, LastBlocks, 0 \in Int
  <2>4. long \in Interval /\ long.start = L.start
    BY <2>3 DEF Interval
  <2>5. /\ Front(out) = SubSeq(out, 1, N - 1) /\ N - 1 \in Nat
        /\ L = out[N]
    BY <2>2 DEF Front, Last
  <2>6. PICK k \in Nat : k = N - 1 /\ N = k + 1
    BY <2>2, <2>5
  <2>7. Len(SubSeq(out, 1, k)) = k /\ \A i \in 1..k : SubSeq(out, 1, k)[i] = out[i]
    BY <2>2, <2>6
  <2>8. Len(Front(out)) = k /\ \A i \in 1..k : Front(out)[i] = out[i]
    BY <2>5, <2>6, <2>7
  <2> HIDE DEF long
  <2>9. /\ new \in Seq(Interval) /\ Len(new) = k + 1 /\ new[k + 1] = long
        /\ \A i \in 1..k : new[i] = Front(out)[i]
    BY <2>3, <2>4, <2>8
  <2> HIDE DEF new, L
  <2>10. \A i \in 1..N : new[i].start = out[i].start
    BY <2>4, <2>5, <2>6, <2>8, <2>9
  <2> QED BY <2>1, <2>6, <2>9, <2>10 DEF Ordered
<1>3. CASE out # <<>> /\ ~(iv.start > L.end) /\ ~(iv.end > L.end)
  <2>1. Merge(out, iv) = out
    BY <1>3 DEF Merge
  <2> QED BY <2>1
<1> QED BY <1>1, <1>2, <1>3

Merging(g, seq, n) ==
  g = [k \in 0..n |-> IF k = 0 THEN <<>> ELSE Merge(g[k - 1], seq[k])]

LEMMA MergingExists == ASSUME NEW seq, NEW n \in Nat PROVE \E g : Merging(g, seq, n)
<1> DEFINE T == {k \in Nat : \E g : Merging(g, seq, k)}
<1>1. 0 \in T
  <2> DEFINE g == [k \in 0..0 |-> <<>>]
  <2>1. Merging(g, seq, 0)
    BY DEF Merging
  <2> QED BY <2>1
<1>2. ASSUME NEW k \in Nat, k \in T PROVE k + 1 \in T
  <2>1. PICK g : Merging(g, seq, k)
    BY <1>2
  <2>2. \A i \in 0..k : g[i] = IF i = 0 THEN <<>> ELSE Merge(g[i - 1], seq[i])
    BY <2>1 DEF Merging
  <2> DEFINE h == [i \in 0..k + 1 |-> IF i = k + 1 THEN Merge(g[k], seq[k + 1]) ELSE g[i]]
  <2>3. ASSUME NEW i \in 0..k + 1
        PROVE  h[i] = IF i = 0 THEN <<>> ELSE Merge(h[i - 1], seq[i])
    <3>1. CASE i = k + 1
      <4>1. k \in 0..k + 1 /\ k # k + 1 /\ i - 1 = k /\ i # 0
        BY <3>1
      <4>2. h[k] = g[k]
        BY <4>1
      <4>3. h[i] = Merge(g[k], seq[k + 1])
        BY <3>1
      <4> HIDE DEF h
      <4> QED BY <3>1, <4>1, <4>2, <4>3
    <3>2. CASE i # k + 1 /\ i # 0
      <4>1. i \in 0..k /\ i - 1 \in 0..k + 1 /\ i - 1 # k + 1
        BY <3>2
      <4>2. h[i] = g[i] /\ h[i - 1] = g[i - 1]
        BY <3>2, <4>1
      <4> HIDE DEF h
      <4> QED BY <2>2, <3>2, <4>1, <4>2
    <3>3. CASE i = 0
      <4>1. 0 \in 0..k /\ 0 # k + 1 /\ 0 \in 0..k + 1
        OBVIOUS
      <4>2. h[0] = g[0]
        BY <4>1
      <4> HIDE DEF h
      <4> QED BY <2>2, <3>3, <4>1, <4>2
    <3> QED BY <3>1, <3>2, <3>3
  <2>4. h = [i \in 0..k + 1 |-> h[i]]
    OBVIOUS
  <2> HIDE DEF h
  <2>5. Merging(h, seq, k + 1)
    BY <2>3, <2>4 DEF Merging
  <2> QED BY <2>5
<1>3. Nat \subseteq T
  <2> HIDE DEF T
  <2> QED BY <1>1, <1>2, NaturalsAreIn
<1> QED BY <1>3

LEMMA MergingBlocks ==
  ASSUME NEW S, S \subseteq Interval, NEW seq, Sorts(seq, S), NEW g, Merging(g, seq, Len(seq))
  PROVE  /\ Ordered(g[Len(seq)])
         /\ \A m \in Int : Blocked(g[Len(seq)], m) <=> Blocked(seq, m)
<1> DEFINE N == Len(seq)
           Right(n) ==
             /\ Ordered(g[n])
             /\ n > 0 => g[n] # <<>> /\ Last(g[n]).start <= seq[n].start
             /\ n = 0 => g[n] = <<>>
             /\ \A m \in Int : Blocked(g[n], m) <=> \E i \in 1..n : Overlap(Slot(m), seq[i])
           T == {n \in Nat : n <= N => Right(n)}
<1>1. /\ N \in Nat /\ \A i \in 1..N : seq[i] \in S /\ seq[i] \in Interval /\ seq[i].start \in Int
      /\ \A i, j \in 1..N : i < j => seq[i].start <= seq[j].start
  BY TimesAreIntegers DEF Sorts
<1>2. \A n \in 0..N : g[n] = IF n = 0 THEN <<>> ELSE Merge(g[n - 1], seq[n])
  BY DEF Merging
<1> HIDE DEF N
<1>3. 0 \in T
  <2>1. g[0] = <<>>
    BY <1>1, <1>2
  <2>2. Right(0)
    BY <2>1 DEF Blocked, Ordered
  <2> HIDE DEF Right
  <2> QED BY <2>2
<1>4. ASSUME NEW n \in Nat, n \in T PROVE n + 1 \in T
  <2> SUFFICES ASSUME n + 1 <= N PROVE Right(n + 1)
    OBVIOUS
  <2>1. n + 1 \in 1..N /\ n + 1 \in 0..N /\ n \in 0..N /\ n <= N /\ (n + 1) - 1 = n /\ n + 1 # 0
    BY <1>1
  <2>2. Right(n)
    BY <1>4, <2>1
  <2>3. g[n + 1] = Merge(g[n], seq[n + 1])
    BY <1>2, <2>1
  <2>4. seq[n + 1] \in Interval
    BY <1>1, <2>1
  <2>5. g[n] # <<>> => Last(g[n]).start <= seq[n + 1].start
    <3> SUFFICES ASSUME g[n] # <<>> PROVE Last(g[n]).start <= seq[n + 1].start
      OBVIOUS
    <3>1. n > 0 /\ Last(g[n]).start <= seq[n].start /\ g[n] \in Seq(Interval)
      BY <2>2 DEF Ordered
    <3>2. n \in 1..N /\ n < n + 1
      BY <2>1, <3>1
    <3>3. seq[n].start <= seq[n + 1].start /\ seq[n].start \in Int /\ seq[n + 1].start \in Int
      BY <1>1, <2>1, <3>2
    <3>4. Last(g[n]) \in Interval
      BY <3>1, LastBlocks, 0 \in Int
    <3>5. Last(g[n]).start \in Int
      BY <3>4, TimesAreIntegers
    <3> QED BY ONLY <3>1, <3>3, <3>5
  <2>6. /\ Ordered(g[n + 1]) /\ g[n + 1] # <<>> /\ Last(g[n + 1]).start <= seq[n + 1].start
        /\ \A m \in Int : Blocked(g[n + 1], m) <=> Blocked(g[n], m) \/ Overlap(Slot(m), seq[n + 1])
    <3>1. PICK out : out = g[n]
      OBVIOUS
    <3>2. PICK iv \in Interval : iv = seq[n + 1]
      BY <2>4
    <3>3. Ordered(out) /\ (out # <<>> => Last(out).start <= iv.start)
      BY <2>2, <2>5, <3>1, <3>2
    <3>4. out \in Seq(Interval)
      BY <3>3 DEF Ordered
    <3>5. /\ Ordered(Merge(out, iv)) /\ Merge(out, iv) # <<>> /\ Last(Merge(out, iv)).start <= iv.start
          /\ \A m \in Int : Blocked(Merge(out, iv), m) <=> Blocked(out, m) \/ Overlap(Slot(m), iv)
      BY <3>3, <3>4, MergeBlocks, MergeKeepsOrder
    <3> QED BY <2>3, <3>1, <3>2, <3>5
  <2>7. \A i \in 1..n + 1 : i = n + 1 \/ i \in 1..n
    OBVIOUS
  <2>8. n + 1 \in 1..n + 1 /\ \A i \in 1..n : i \in 1..n + 1
    OBVIOUS
  <2>9. \A m \in Int : Blocked(g[n], m) <=> \E i \in 1..n : Overlap(Slot(m), seq[i])
    BY <2>2
  <2>10. \A m \in Int : Blocked(g[n + 1], m) <=> \E i \in 1..n + 1 : Overlap(Slot(m), seq[i])
    BY <2>6, <2>7, <2>8, <2>9
  <2> QED BY <2>1, <2>6, <2>10
<1>5. Nat \subseteq T
  <2> HIDE DEF T
  <2> QED BY <1>3, <1>4, NaturalsAreIn
<1>6. Right(N)
  <2> HIDE DEF Right
  <2> QED BY <1>1, <1>5
<1> QED BY <1>1, <1>6 DEF Blocked, N

\* What is left of a set of intervals that is sorted and merged.
LEMMA MergedAreThey ==
  ASSUME NEW S, S \subseteq Interval
  PROVE  /\ Ordered(MergeSorted(ByStart(S)))
         /\ \A m \in Int : Blocked(MergeSorted(ByStart(S)), m) <=> \E iv \in S : Overlap(Slot(m), iv)
<1> DEFINE seq == ByStart(S)
           g == CHOOSE f : Merging(f, seq, Len(seq))
<1>1. Sorts(seq, S)
  BY ByStartSorts
<1>2. MergeSorted(seq) = g[Len(seq)]
  BY DEF MergeSorted, Merging
<1>3. Len(seq) \in Nat
  <2> HIDE DEF seq
  <2> QED BY <1>1 DEF Sorts
<1> HIDE DEF seq
<1>4. Merging(g, seq, Len(seq))
  BY <1>3, MergingExists
<1> HIDE DEF g
<1>5. Ordered(g[Len(seq)]) /\ \A m \in Int : Blocked(g[Len(seq)], m) <=> Blocked(seq, m)
  BY <1>1, <1>4, MergingBlocks
<1>6. \A m \in Int : Blocked(seq, m) <=> \E iv \in S : Overlap(Slot(m), iv)
  <2>1. /\ \A i \in 1..Len(seq) : seq[i] \in S
        /\ \A iv \in S : \E i \in 1..Len(seq) : seq[i] = iv
    BY <1>1 DEF Sorts
  <2> QED BY <2>1 DEF Blocked
<1> QED BY <1>2, <1>5, <1>6 DEF seq

LEMMA MergedBlocks ==
  ASSUME NEW S, S \subseteq Interval
  PROVE  \A m \in Int : (\E b \in ToSet(MergeOverlaps(S)) : Overlap(Slot(m), b)) <=>
                        \E iv \in S : iv.start < iv.end /\ Overlap(Slot(m), iv)
<1> DEFINE R == {iv \in S : iv.start < iv.end}
           merged == MergeSorted(ByStart(R))
<1>1. Ordered(merged) /\ \A m \in Int : Blocked(merged, m) <=> \E iv \in R : Overlap(Slot(m), iv)
  <2>1. R \subseteq Interval
    OBVIOUS
  <2> HIDE DEF R
  <2> QED BY <2>1, MergedAreThey
<1>2. MergeOverlaps(S) = merged
  BY DEF MergeOverlaps
<1> HIDE DEF merged, R
<1>3. \A m \in Int : (\E b \in ToSet(merged) : Overlap(Slot(m), b)) <=> Blocked(merged, m)
  BY <1>1 DEF ToSet, Blocked, Ordered
<1> QED BY <1>1, <1>2, <1>3 DEF R

-----------------------------------------------------------------------------
(* slotPlanner.js: clamping to the day and rounding to the grid.           *)

LEMMA TwoExtremes ==
  ASSUME NEW a \in Int, NEW b \in Int
  PROVE  /\ Max({a, b}) = (IF a >= b THEN a ELSE b)
         /\ Min({a, b}) = (IF a <= b THEN a ELSE b)
<1>1. \A x \in {a, b} : (\A y \in {a, b} : x >= y) => x = (IF a >= b THEN a ELSE b)
  OBVIOUS
<1>2. \E x \in {a, b} : \A y \in {a, b} : x >= y
  OBVIOUS
<1>3. \A x \in {a, b} : (\A y \in {a, b} : x <= y) => x = (IF a <= b THEN a ELSE b)
  OBVIOUS
<1>4. \E x \in {a, b} : \A y \in {a, b} : x <= y
  OBVIOUS
<1>5. Max({a, b}) = (IF a >= b THEN a ELSE b)
  BY <1>1, <1>2 DEF Max
<1>6. Min({a, b}) = (IF a <= b THEN a ELSE b)
  BY <1>3, <1>4 DEF Min
<1> QED BY <1>5, <1>6

LEMMA ClampBlocks ==
  ASSUME NEW iv \in Span
  PROVE  /\ ClampToDay(iv) \in Interval
         /\ \A m \in 0..Day : m + Block <= Day =>
              (ClampToDay(iv).start < ClampToDay(iv).end /\ Overlap(Slot(m), ClampToDay(iv))
                 <=> Overlap(Slot(m), iv))
<1> DEFINE c == ClampToDay(iv)
<1>1. /\ iv.start \in Times /\ iv.end \in Times /\ iv.start < iv.end
      /\ iv.start \in Int /\ iv.end \in Int
      /\ Day \in Nat \ {0} /\ Block \in Nat \ {0}
  BY AvailabilityAssumption DEF Span, Interval, Times
<1>2. /\ c.start = (IF iv.start >= 0 THEN iv.start ELSE 0)
      /\ c.end = (IF iv.end <= Day THEN iv.end ELSE Day)
      /\ c = [start |-> c.start, end |-> c.end]
  BY <1>1, TwoExtremes DEF ClampToDay
<1> HIDE DEF c
<1>3. c.start \in Times /\ c.end \in Times
  BY <1>1, <1>2 DEF Times
<1>4. c \in Interval
  BY <1>2, <1>3 DEF Interval, Times
<1>5. ASSUME NEW m \in 0..Day, m + Block <= Day
      PROVE  c.start < c.end /\ Overlap(Slot(m), c) <=> Overlap(Slot(m), iv)
  <2>1. Slot(m).start = m /\ Slot(m).end = m + Block
    BY DEF Slot
  <2>2. c.start < c.end /\ m < c.end /\ c.start < m + Block <=> m < iv.end /\ iv.start < m + Block
    BY <1>1, <1>2, <1>5
  <2> QED BY <2>1, <2>2 DEF Overlap
<1> QED BY <1>4, <1>5 DEF c

LEMMA DivisionWithRest ==
  ASSUME NEW m \in Int
  PROVE  m \div Step \in Int /\ m % Step \in 0..Step - 1 /\ m = Step * (m \div Step) + (m % Step)
<1>1. Step \in Nat \ {0}
  BY AvailabilityAssumption
<1>2. m \div Step \in Int
  BY ONLY <1>1, m \in Int
<1>3. m % Step \in 0..Step - 1
  BY ONLY <1>1, m \in Int
<1>4. m = Step * (m \div Step) + (m % Step)
  BY ONLY <1>1, m \in Int
<1> QED BY <1>2, <1>3, <1>4

LEMMA RestIsUnique ==
  ASSUME NEW q \in Int, NEW k \in Int, NEW r \in 0..Step - 1, NEW t \in 0..Step - 1,
         Step * q + r = Step * k + t
  PROVE  q = k /\ r = t
<1>1. Step \in Nat \ {0}
  BY AvailabilityAssumption
<1>2. CASE q > k
  <2>1. q >= k + 1
    BY <1>2
  <2>2. Step * q >= Step * (k + 1)
    BY <1>1, <2>1
  <2> QED BY <1>1, <2>2
<1>3. CASE q < k
  <2>1. k >= q + 1
    BY <1>3
  <2>2. Step * k >= Step * (q + 1)
    BY <1>1, <2>1
  <2> QED BY <1>1, <2>2
<1>4. CASE q = k
  BY <1>1, <1>4
<1> QED BY <1>2, <1>3, <1>4

LEMMA Multiples ==
  ASSUME NEW m \in Int
  PROVE  m % Step = 0 <=> \E k \in Int : m = Step * k
<1>1. Step \in Nat \ {0} /\ 0 \in 0..Step - 1
  BY AvailabilityAssumption
<1>2. ASSUME m % Step = 0 PROVE \E k \in Int : m = Step * k
  <2>1. PICK q \in Int : q = m \div Step
    BY DivisionWithRest
  <2>2. m = Step * q + 0
    BY <1>2, <2>1, DivisionWithRest
  <2>3. Step * q \in Int
    BY <1>1
  <2> QED BY <2>2, <2>3
<1>3. ASSUME NEW k \in Int, m = Step * k PROVE m % Step = 0
  <2>1. Step * (m \div Step) + (m % Step) = Step * k + 0
    <3>1. m = Step * (m \div Step) + (m % Step)
      BY DivisionWithRest
    <3>2. m = m + 0
      OBVIOUS
    <3>3. m + 0 = Step * k + 0
      BY <1>3
    <3> QED BY ONLY <3>1, <3>2, <3>3
  <2> QED BY <1>1, <2>1, DivisionWithRest, RestIsUnique
<1> QED BY <1>2, <1>3

LEMMA RoundUpMeetsGrid ==
  ASSUME NEW a \in Int, NEW m \in Int
  PROVE  m >= RoundUp(a) /\ (m - RoundUp(a)) % Step = 0 <=> m >= a /\ m % Step = 0
<1>1. Step \in Nat \ {0}
  BY AvailabilityAssumption
<1>2. PICK q \in Int : q = a \div Step
  BY DivisionWithRest
<1>3. PICK r \in 0..Step - 1 : r = a % Step
  BY DivisionWithRest
<1>4. a = Step * q + r
  BY <1>2, <1>3, DivisionWithRest
<1>5. \E k \in Int : RoundUp(a) = Step * k /\ Step * (k - 1) < a /\ a <= Step * k
  <2>1. CASE r = 0
    <3>1. RoundUp(a) = Step * q /\ Step * (q - 1) = Step * q - Step
      BY <1>1, <1>3, <1>4, <2>1 DEF RoundUp
    <3>2. Step * q \in Int
      BY <1>1
    <3> QED BY <1>1, <1>4, <2>1, <3>1, <3>2
  <2>2. CASE r # 0
    <3>1. RoundUp(a) = a + Step - r
      BY <1>3, <2>2 DEF RoundUp
    <3>2. PICK p \in Int : p = Step * q
      BY <1>1
    <3>3. Step * (q + 1) = p + Step /\ q + 1 - 1 = q
      BY <1>1, <3>2
    <3>4. RoundUp(a) = p + Step /\ p < a /\ a <= p + Step
      BY <1>1, <1>4, <2>2, <3>1, <3>2
    <3>5. q + 1 \in Int
      OBVIOUS
    <3> QED BY <3>2, <3>3, <3>4, <3>5
  <2> QED BY <2>1, <2>2
<1>6. PICK k \in Int : RoundUp(a) = Step * k /\ Step * (k - 1) < a /\ a <= Step * k
  BY <1>5
<1>7. RoundUp(a) \in Int
  BY <1>1, <1>6
<1>8. ASSUME m >= RoundUp(a), (m - RoundUp(a)) % Step = 0 PROVE m >= a /\ m % Step = 0
  <2>1. PICK i \in Int : m - RoundUp(a) = Step * i
    BY <1>7, <1>8, Multiples
  <2>2. Step * (k + i) = Step * k + Step * i
    BY <1>1
  <2>3. m = Step * (k + i)
    <3>1. Step * k \in Int /\ Step * i \in Int
      BY <1>1
    <3> QED BY <1>6, <2>1, <2>2, <3>1
  <2>4. m % Step = 0
    BY <2>3, Multiples
  <2> QED BY <1>6, <1>7, <1>8, <2>4
<1>9. ASSUME m >= a, m % Step = 0 PROVE m >= RoundUp(a) /\ (m - RoundUp(a)) % Step = 0
  <2>1. PICK i \in Int : m = Step * i
    BY <1>9, Multiples
  <2>2. i >= k
    <3> SUFFICES ASSUME i <= k - 1 PROVE FALSE
      OBVIOUS
    <3>1. Step * i <= Step * (k - 1)
      BY <1>1
    <3>2. Step * i \in Int /\ Step * (k - 1) \in Int
      BY <1>1
    <3> QED BY <1>6, <1>9, <2>1, <3>1, <3>2
  <2>3. Step * i >= Step * k
    BY <1>1, <2>2
  <2>4. m - RoundUp(a) = Step * (i - k)
    BY <1>1, <1>6, <2>1
  <2>5. (m - RoundUp(a)) % Step = 0
    BY <1>7, <2>4, Multiples
  <2> QED BY <1>6, <2>1, <2>3, <2>5
<1> QED BY <1>8, <1>9

-----------------------------------------------------------------------------
(* slotPlanner.js: what it offers is what is free.                         *)

AgendaInv ==
  /\ AvailabilityTypeOK
  /\ \A v \in visits : v.start < v.end
  /\ \A o \in off : o.start < o.end

LEMMA WindowsFit ==
  ASSUME AgendaInv, NEW w \in Windows
  PROVE  w.start \in 0..Day /\ w.end \in 0..Day /\ w.start \in Int /\ w.end \in Int
<1>1. weekly \subseteq WorkingWindows /\ custom \subseteq SUBSET WorkingWindows
  BY AvailabilityAssumption DEF AgendaInv, AvailabilityTypeOK
<1>2. w \in weekly \/ \E s \in custom : w \in s
  BY DEF Windows
<1>3. w \in WorkingWindows
  BY <1>1, <1>2
<1> QED BY <1>3, AvailabilityAssumption DEF WorkingWindows

LEMMA PlannedAreFree ==
  ASSUME AgendaInv, NEW V, V \subseteq visits, \A v \in V : ~v.gone
  PROVE  PlannedSlots(V) = FreeStarts(OnGrid, V)
<1> DEFINE Bare(v) == [start |-> v.start, end |-> v.end]
           C == {ClampToDay(Bare(v)) : v \in V} \cup {ClampToDay(o) : o \in off}
           blocks == ToSet(BlockingIntervals(V))
           Inside(m) == \E w \in Windows : /\ w.start <= m /\ m + Block <= w.end
                                           /\ \A b \in w.breaks : ~Overlap(Slot(m), b)
<1>1. Block \in Nat \ {0} /\ Day \in Nat \ {0} /\ Step \in Nat \ {0}
  BY AvailabilityAssumption
<1>2. \A v \in V : Bare(v) \in Span
  BY DEF AgendaInv, AvailabilityTypeOK, Span, Interval
<1>3. \A o \in off : o \in Span
  BY DEF AgendaInv, AvailabilityTypeOK, Span
<1>4. C \subseteq Interval
  <2> HIDE DEF Bare
  <2> QED BY <1>2, <1>3, ClampBlocks
<1>5. BlockingIntervals(V) = MergeOverlaps(C)
  <2>1. {u \in V : ~u.gone} = V
    OBVIOUS
  <2> QED BY <2>1 DEF BlockingIntervals
<1>6. ASSUME NEW m \in 0..Day, m + Block <= Day
      PROVE  (\E b \in blocks : Overlap(Slot(m), b)) <=> \E v \in V \cup off : Overlap(Slot(m), v)
  <2>1. (\E b \in blocks : Overlap(Slot(m), b)) <=>
          \E iv \in C : iv.start < iv.end /\ Overlap(Slot(m), iv)
    <3> HIDE DEF C
    <3> QED BY <1>4, <1>5, MergedBlocks
  <2> DEFINE In(c) == c.start < c.end /\ Overlap(Slot(m), c)
  <2>2. \A v \in V : In(ClampToDay(Bare(v))) <=> Overlap(Slot(m), Bare(v))
    <3> HIDE DEF Bare
    <3> QED BY <1>2, <1>6, ClampBlocks
  <2>3. \A v \in V : Overlap(Slot(m), Bare(v)) <=> Overlap(Slot(m), v)
    BY DEF Overlap
  <2>4. \A o \in off : In(ClampToDay(o)) <=> Overlap(Slot(m), o)
    BY <1>3, <1>6, ClampBlocks
  <2>5. (\E iv \in C : In(iv)) <=> \/ \E v \in V : In(ClampToDay(Bare(v)))
                                  \/ \E o \in off : In(ClampToDay(o))
    <3> HIDE DEF In, Bare
    <3> QED OBVIOUS
  <2>6. (\E iv \in C : In(iv)) <=> \E v \in V \cup off : Overlap(Slot(m), v)
    <3> HIDE DEF In, Bare, C
    <3> QED BY <2>2, <2>3, <2>4, <2>5
  <2> HIDE DEF blocks, C
  <2> QED BY <2>1, <2>6
<1>7. ASSUME NEW m \in 0..Day, Inside(m) PROVE m + Block <= Day
  <2>1. PICK w \in Windows : m + Block <= w.end
    BY <1>7
  <2>2. w.end \in 0..Day
    BY WindowsFit
  <2> QED BY <1>1, <2>1, <2>2
<1>8. ASSUME NEW m \in 0..Day
      PROVE  (\E w \in Windows : /\ m >= RoundUp(w.start) /\ m <= w.end - Block
                                 /\ (m - RoundUp(w.start)) % Step = 0
                                 /\ ~InBreak(w, m))
               <=> OnGrid(m) /\ Inside(m)
  <2>1. ASSUME NEW w \in Windows
        PROVE  /\ m >= RoundUp(w.start) /\ (m - RoundUp(w.start)) % Step = 0 <=> w.start <= m /\ m % Step = 0
               /\ m <= w.end - Block <=> m + Block <= w.end
    <3>1. w.start \in Int /\ w.end \in Int /\ m \in Int
      BY WindowsFit, <1>1
    <3>2. m >= RoundUp(w.start) /\ (m - RoundUp(w.start)) % Step = 0 <=> m >= w.start /\ m % Step = 0
      BY <3>1, RoundUpMeetsGrid
    <3>3. m >= w.start <=> w.start <= m
      BY ONLY <3>1
    <3>4. m <= w.end - Block <=> m + Block <= w.end
      BY ONLY <1>1, <3>1
    <3> QED BY <3>2, <3>3, <3>4
  <2>2. \A w \in Windows : ~InBreak(w, m) <=> \A b \in w.breaks : ~Overlap(Slot(m), b)
    BY DEF InBreak
  <2> QED BY <2>1, <2>2 DEF OnGrid
<1>9. ASSUME NEW m \in 0..Day PROVE m \in PlannedSlots(V) <=> m \in FreeStarts(OnGrid, V)
  <2>1. m \in PlannedSlots(V) <=>
          /\ OnGrid(m) /\ Inside(m)
          /\ m > now
          /\ \A b \in blocks : ~Overlap(Slot(m), b)
    <3> HIDE DEF Inside
    <3> QED BY <1>8 DEF PlannedSlots
  <2>2. m \in FreeStarts(OnGrid, V) <=>
          /\ OnGrid(m) /\ Inside(m)
          /\ m > now
          /\ \A v \in V \cup off : ~Overlap(Slot(m), v)
    BY DEF FreeStarts
  <2> HIDE DEF Inside, blocks
  <2> QED BY <1>6, <1>7, <2>1, <2>2
<1>10. PlannedSlots(V) \subseteq 0..Day /\ FreeStarts(OnGrid, V) \subseteq 0..Day
  BY DEF PlannedSlots, FreeStarts
<1> QED BY <1>9, <1>10

LEMMA OffersAreFree == ASSUME AgendaInv PROVE OfferedIsFree
<1>1. FetchedVisits \subseteq visits /\ \A v \in FetchedVisits : ~v.gone
  BY DEF FetchedVisits
<1> QED BY <1>1, PlannedAreFree DEF OfferedIsFree, OfferedSlots

\* A start that is free ends within the day.
LEMMA FreeIsInside ==
  ASSUME AgendaInv, NEW V, NEW m \in FreeStarts(OnGrid, V)
  PROVE  m \in 0..Day /\ m + Block <= Day /\ \A v \in V : ~Overlap(Slot(m), v)
<1>1. PICK w \in Windows : m + Block <= w.end
  BY DEF FreeStarts
<1>2. w.end \in 0..Day /\ m \in 0..Day /\ \A v \in V : ~Overlap(Slot(m), v)
  BY WindowsFit DEF FreeStarts
<1>3. Block \in Nat /\ Day \in Nat
  BY AvailabilityAssumption
<1> QED BY <1>1, <1>2, <1>3

LEMMA OverlapsAreEarly == ASSUME AgendaInv PROVE OverlapsBeforeDawn
<1> SUFFICES ASSUME NEW m \in OfferedSlots, NEW v \in visits, ~v.gone, Overlap(Slot(m), v)
             PROVE  v.start < Shift
  BY DEF OverlapsBeforeDawn
<1>1. m \in FreeStarts(OnGrid, FetchedVisits)
  BY OffersAreFree DEF OfferedIsFree
<1>2. m \in 0..Day /\ m + Block <= Day /\ v \notin FetchedVisits
  BY <1>1, FreeIsInside
<1>3. v.start < m + Block
  BY DEF Overlap, Slot
<1>4. v.start \in Int /\ Day \in Nat /\ Shift \in Nat /\ Block \in Nat
  BY AvailabilityAssumption DEF AgendaInv, AvailabilityTypeOK
<1> QED BY <1>2, <1>3, <1>4 DEF FetchedVisits

LEMMA EndpointsAgree == ASSUME AgendaInv PROVE FullyBookedAgrees
<1> SUFFICES ASSUME weekly # {}, \A v \in visits : v.gone \/ v.start >= Shift
             PROVE  FullyBooked <=> OfferedSlots = {}
  BY DEF FullyBookedAgrees
<1>1. /\ MonthVisits \subseteq visits /\ \A v \in MonthVisits : ~v.gone
      /\ FetchedVisits \subseteq visits
  BY DEF MonthVisits, FetchedVisits
<1>2. PlannedSlots(MonthVisits) = FreeStarts(OnGrid, MonthVisits)
  BY <1>1, PlannedAreFree
<1>3. OfferedSlots = FreeStarts(OnGrid, FetchedVisits)
  BY OffersAreFree DEF OfferedIsFree
<1>4. ASSUME NEW v \in visits PROVE v.start \in Int /\ Day \in Nat /\ Shift \in Nat /\ Block \in Nat
  BY AvailabilityAssumption DEF AgendaInv, AvailabilityTypeOK
<1>5. MonthVisits \subseteq FetchedVisits
  BY <1>4 DEF MonthVisits, FetchedVisits
<1>6. ASSUME NEW m \in FreeStarts(OnGrid, MonthVisits), NEW v \in FetchedVisits PROVE ~Overlap(Slot(m), v)
  <2>1. m \in 0..Day /\ m + Block <= Day /\ \A u \in MonthVisits : ~Overlap(Slot(m), u)
    BY FreeIsInside
  <2>2. CASE v.start < Day
    <3>1. v \in MonthVisits
      BY <1>1, <1>4, <2>2 DEF MonthVisits, FetchedVisits
    <3> QED BY <2>1, <3>1
  <2>3. CASE ~(v.start < Day)
    <3>1. v.start \in Int /\ Day \in Nat /\ Block \in Nat
      BY <1>1, <1>4
    <3>2. ~(v.start < m + Block)
      BY <2>1, <2>3, <3>1
    <3> QED BY <3>2 DEF Overlap, Slot
  <2> QED BY <2>2, <2>3
<1>7. FreeStarts(OnGrid, FetchedVisits) = FreeStarts(OnGrid, MonthVisits)
  <2>1. FreeStarts(OnGrid, FetchedVisits) \subseteq FreeStarts(OnGrid, MonthVisits)
    BY <1>5 DEF FreeStarts
  <2>2. FreeStarts(OnGrid, MonthVisits) \subseteq FreeStarts(OnGrid, FetchedVisits)
    BY <1>6 DEF FreeStarts
  <2> QED BY <2>1, <2>2
<1> QED BY <1>2, <1>3, <1>7 DEF FullyBooked

-----------------------------------------------------------------------------
(* slotEngine.js: the scan with its three pointers.                        *)

\* Everything before the pointer i has ended by the time m.
Behind(seq, i, m) ==
  /\ i \in 1..Len(seq) + 1
  /\ \A k \in 1..i - 1 : seq[k].end <= m

LEMMA AdvanceLeavesBehind ==
  ASSUME NEW seq \in Seq(Interval), NEW m \in Int, NEW i, Behind(seq, i, m)
  PROVE  /\ Behind(seq, Advance(seq, i, m), m)
         /\ Advance(seq, i, m) <= Len(seq) => m < seq[Advance(seq, i, m)].end
<1> DEFINE N == Len(seq)
           U == {j \in i..N + 1 : j <= N => ~Passed(seq[j].end, m)}
           Stops(j) == /\ \A k \in i..j - 1 : Passed(seq[k].end, m)
                       /\ j <= N => ~Passed(seq[j].end, m)
<1>1. N \in Nat /\ i \in 1..N + 1 /\ \A k \in 1..i - 1 : seq[k].end <= m
  BY DEF Behind
<1> HIDE DEF N
<1>2. U \subseteq Nat /\ N + 1 \in U
  BY <1>1
<1>3. PICK j \in U : \A k \in U : j <= k
  <2> HIDE DEF U
  <2> QED BY <1>2, LeastExists
<1>4. ASSUME NEW k \in i..j - 1 PROVE Passed(seq[k].end, m)
  <2>1. k \in i..N + 1 /\ k \in Int /\ j \in Int /\ ~(j <= k)
    BY <1>1, <1>3, <1>4
  <2> QED BY <1>3, <2>1
<1>5. j \in i..N + 1 /\ Stops(j)
  BY <1>3, <1>4
<1> DEFINE a == Advance(seq, i, m)
<1>6. a \in i..N + 1 /\ Stops(a)
  <2>1. a = CHOOSE x \in i..N + 1 : Stops(x)
    BY DEF Advance, N
  <2> HIDE DEF a, Stops
  <2> QED BY <1>5, <2>1
<1> HIDE DEF a
<1>7. a \in 1..N + 1 /\ \A k \in 1..a - 1 : k \in 1..i - 1 \/ k \in i..a - 1
  BY <1>1, <1>6
<1>8. \A k \in 1..a - 1 : seq[k].end <= m
  BY <1>1, <1>6, <1>7 DEF Passed
<1>9. ASSUME a <= N PROVE m < seq[a].end
  <2>1. a \in 1..N /\ ~Passed(seq[a].end, m)
    BY <1>1, <1>6, <1>7, <1>9
  <2>2. seq[a].end \in Int
    BY <2>1, TimesAreIntegers DEF N
  <2> QED BY <2>1, <2>2 DEF Passed
<1> QED BY <1>7, <1>8, <1>9 DEF Behind, N, a

\* Of merged breaks the current one is enough: another that meets the slot begins later.
LEMMA BreakIsBlocked ==
  ASSUME NEW seq, Ordered(seq), NEW m \in Int, NEW b, Behind(seq, b, m),
         b <= Len(seq) => m < seq[b].end
  PROVE  HitsBreak(seq, b, m) <=> Blocked(seq, m)
<1>1. /\ Len(seq) \in Nat /\ b \in 1..Len(seq) + 1
      /\ \A k \in 1..b - 1 : seq[k].end <= m
      /\ \A k \in 1..Len(seq) : seq[k] \in Interval
      /\ \A j, k \in 1..Len(seq) : j < k => seq[j].start <= seq[k].start
  BY DEF Behind, Ordered
<1>2. \A k \in 1..Len(seq) : seq[k].start \in Int /\ seq[k].end \in Int
  BY <1>1, TimesAreIntegers
<1>3. Slot(m).start = m /\ Slot(m).end = m + Block /\ Block \in Nat
  BY AvailabilityAssumption DEF Slot
<1>4. ASSUME HitsBreak(seq, b, m) PROVE Blocked(seq, m)
  BY <1>1, <1>4 DEF HitsBreak, Blocked
<1>5. ASSUME Blocked(seq, m) PROVE HitsBreak(seq, b, m)
  <2>1. PICK k \in 1..Len(seq) : Overlap(Slot(m), seq[k])
    BY <1>5 DEF Blocked
  <2>2. m < seq[k].end /\ seq[k].start < m + Block
    BY <1>3, <2>1 DEF Overlap
  <2>3. b <= k
    <3> SUFFICES ASSUME k < b PROVE FALSE
      BY <1>1
    <3>1. k \in 1..b - 1
      BY <1>1
    <3>2. seq[k].end <= m /\ seq[k].end \in Int
      BY <1>1, <1>2, <3>1
    <3> QED BY <2>2, <3>2
  <2>4. b \in 1..Len(seq) /\ (b = k \/ b < k)
    BY <1>1, <2>3
  <2>5. seq[b].start <= seq[k].start
    BY <1>1, <1>2, <2>4
  <2>6. seq[b].start < m + Block /\ m < seq[b].end
    <3>1. seq[b].start \in Int /\ seq[k].start \in Int
      BY <1>2, <2>4
    <3> QED BY <1>3, <2>2, <2>4, <2>5, <3>1
  <2> QED BY <1>3, <2>4, <2>6 DEF HitsBreak, Overlap
<1> QED BY <1>4, <1>5

LEMMA HitsAreBlocked ==
  ASSUME NEW S, S \subseteq Interval, NEW seq, Sorts(seq, S), NEW m \in Int,
         NEW i, Behind(seq, i, m)
  PROVE  Hits(seq, i, m) <=> Blocked(seq, m)
<1>1. /\ Len(seq) \in Nat /\ i \in 1..Len(seq) + 1
      /\ \A k \in 1..i - 1 : seq[k].end <= m
      /\ \A k \in 1..Len(seq) : seq[k] \in Interval
      /\ \A j, k \in 1..Len(seq) : j < k => seq[j].start <= seq[k].start
  BY DEF Behind, Sorts
<1>2. \A k \in 1..Len(seq) : seq[k].start \in Int /\ seq[k].end \in Int
  BY <1>1, TimesAreIntegers
<1>3. Slot(m).start = m /\ Slot(m).end = m + Block /\ Block \in Nat
  BY AvailabilityAssumption DEF Slot
<1>4. ASSUME Hits(seq, i, m) PROVE Blocked(seq, m)
  <2>1. PICK k \in i..Len(seq) : Overlap(Slot(m), seq[k])
    BY <1>4 DEF Hits
  <2>2. k \in 1..Len(seq)
    BY <1>1
  <2> QED BY <2>1, <2>2 DEF Blocked
<1>5. ASSUME Blocked(seq, m) PROVE Hits(seq, i, m)
  <2>1. PICK k \in 1..Len(seq) : Overlap(Slot(m), seq[k])
    BY <1>5 DEF Blocked
  <2>2. m < seq[k].end /\ seq[k].start < m + Block
    BY <1>3, <2>1 DEF Overlap
  <2>3. k \in i..Len(seq)
    <3> SUFFICES ASSUME k < i PROVE FALSE
      BY <1>1
    <3>1. k \in 1..i - 1
      BY <1>1
    <3>2. seq[k].end <= m /\ seq[k].end \in Int
      BY <1>1, <1>2, <3>1
    <3> QED BY <2>2, <3>2
  <2>4. ASSUME NEW j \in i..k - 1 PROVE seq[j].start < m + Block
    <3>1. j \in 1..Len(seq) /\ j < k
      BY <1>1, <2>3
    <3>2. seq[j].start <= seq[k].start /\ seq[j].start \in Int /\ seq[k].start \in Int
      BY <1>1, <1>2, <3>1
    <3> QED BY <1>3, <2>2, <3>2
  <2> QED BY <2>1, <2>3, <2>4 DEF Hits
<1> QED BY <1>4, <1>5

LEMMA RoundIsRight ==
  ASSUME NEW S, S \subseteq Interval, NEW taken, Sorts(taken, S),
         NEW R, R \subseteq Interval, NEW away, Sorts(away, R),
         NEW rests, Ordered(rests), NEW m \in Int, NEW st,
         Behind(taken, st.a, m), Behind(away, st.o, m), Behind(rests, st.b, m),
         NEW next, next = Round(taken, away, rests, st, m)
  PROVE  /\ Behind(taken, next.a, m) /\ Behind(away, next.o, m) /\ Behind(rests, next.b, m)
         /\ next.out = IF Blocked(taken, m) \/ Blocked(away, m) \/ Blocked(rests, m)
                         THEN st.out ELSE st.out \cup {m}
<1> DEFINE b == Advance(rests, st.b, m)
           o == IF HitsBreak(rests, b, m) THEN st.o ELSE Advance(away, st.o, m)
           isOff == HitsBreak(rests, b, m) \/ Hits(away, o, m)
           a == IF isOff THEN st.a ELSE Advance(taken, st.a, m)
<1>1. taken \in Seq(Interval) /\ away \in Seq(Interval) /\ rests \in Seq(Interval)
  BY DEF Sorts, Ordered
<1>2. /\ Behind(away, Advance(away, st.o, m), m) /\ Behind(taken, Advance(taken, st.a, m), m)
      /\ Behind(rests, b, m) /\ (b <= Len(rests) => m < rests[b].end)
  BY <1>1, AdvanceLeavesBehind
<1>3. HitsBreak(rests, b, m) <=> Blocked(rests, m)
  <2> HIDE DEF b
  <2> QED BY <1>2, BreakIsBlocked
<1>4. Behind(away, o, m)
  <2> HIDE DEF b
  <2> QED BY <1>2
<1>5. Behind(taken, a, m)
  <2> HIDE DEF isOff
  <2> QED BY <1>2
<1>6. /\ next.b = b /\ next.o = o /\ next.a = a
      /\ next.out = IF isOff \/ Hits(taken, a, m) THEN st.out ELSE st.out \cup {m}
  BY DEF Round
<1>7. isOff <=> Blocked(rests, m) \/ Hits(away, o, m)
  BY <1>3
<1> HIDE DEF b, o, isOff, a
<1>8. (Hits(away, o, m) <=> Blocked(away, m)) /\ (Hits(taken, a, m) <=> Blocked(taken, m))
  BY <1>4, <1>5, HitsAreBlocked
<1>9. next.out = IF Blocked(taken, m) \/ Blocked(away, m) \/ Blocked(rests, m)
                   THEN st.out ELSE st.out \cup {m}
  BY <1>6, <1>7, <1>8
<1> QED BY <1>2, <1>4, <1>5, <1>6, <1>9

-----------------------------------------------------------------------------

Start == [b |-> 1, o |-> 1, a |-> 1, out |-> {}]

\* The rounds of the loop, from the time at.
Scanning(f, taken, away, rests, at, n) ==
  f = [k \in 0..n |-> IF k = 0 THEN Start ELSE Round(taken, away, rests, f[k - 1], at + (k - 1) * Step)]

LEMMA ScanningExists ==
  ASSUME NEW taken, NEW away, NEW rests, NEW at, NEW n \in Nat
  PROVE  \E f : Scanning(f, taken, away, rests, at, n)
<1> DEFINE NextRound(st, i) == Round(taken, away, rests, st, at + (i - 1) * Step)
           T == {k \in Nat : \E f : Scanning(f, taken, away, rests, at, k)}
<1>1. 0 \in T
  <2> DEFINE f == [k \in 0..0 |-> Start]
  <2>1. Scanning(f, taken, away, rests, at, 0)
    BY DEF Scanning
  <2> QED BY <2>1
<1>2. ASSUME NEW k \in Nat, k \in T PROVE k + 1 \in T
  <2>1. PICK f : Scanning(f, taken, away, rests, at, k)
    BY <1>2
  <2>2. \A i \in 0..k : f[i] = IF i = 0 THEN Start ELSE NextRound(f[i - 1], i)
    BY <2>1 DEF Scanning
  <2> DEFINE h == [i \in 0..k + 1 |-> IF i = k + 1 THEN NextRound(f[k], k + 1) ELSE f[i]]
  <2>3. h = [i \in 0..k + 1 |-> h[i]] /\ h[k + 1] = NextRound(f[k], k + 1)
        /\ \A i \in 0..k : h[i] = f[i]
    <3> HIDE DEF NextRound
    <3> QED OBVIOUS
  <2> HIDE DEF h, NextRound
  <2>4. ASSUME NEW i \in 0..k + 1 PROVE h[i] = IF i = 0 THEN Start ELSE NextRound(h[i - 1], i)
    <3>1. CASE i = k + 1
      <4>1. k \in 0..k /\ i - 1 = k /\ i # 0
        BY <3>1
      <4> QED BY <2>3, <3>1, <4>1
    <3>2. CASE i # k + 1 /\ i # 0
      <4>1. i \in 0..k /\ i - 1 \in 0..k
        BY <3>2
      <4> QED BY <2>2, <2>3, <3>2, <4>1
    <3>3. CASE i = 0
      <4>1. 0 \in 0..k
        OBVIOUS
      <4> QED BY <2>2, <2>3, <3>3, <4>1
    <3> QED BY <3>1, <3>2, <3>3
  <2>5. h = [i \in 0..k + 1 |-> IF i = 0 THEN Start ELSE NextRound(h[i - 1], i)]
    BY <2>3, <2>4
  <2>6. Scanning(h, taken, away, rests, at, k + 1)
    BY <2>5 DEF Scanning, NextRound
  <2> QED BY <2>6
<1>3. Nat \subseteq T
  <2> HIDE DEF T
  <2> QED BY <1>1, <1>2, NaturalsAreIn
<1> QED BY <1>3

\* After k rounds: the first k times of the grid that nothing is in the way of.
LEMMA ScanningIsRight ==
  ASSUME NEW S, S \subseteq Interval, NEW taken, Sorts(taken, S),
         NEW R, R \subseteq Interval, NEW away, Sorts(away, R), NEW rests, Ordered(rests),
         NEW at \in Int, NEW n \in Nat, NEW f, Scanning(f, taken, away, rests, at, n)
  PROVE  /\ f[n].out \subseteq Int
         /\ \A m \in Int : m \in f[n].out <=> /\ \E j \in 0..n - 1 : m = at + j * Step
                                            /\ ~Blocked(taken, m) /\ ~Blocked(away, m) /\ ~Blocked(rests, m)
<1>0. ASSUME NEW st, NEW m \in Int, NEW next, next = Round(taken, away, rests, st, m),
             Behind(taken, st.a, m), Behind(away, st.o, m), Behind(rests, st.b, m)
      PROVE  /\ Behind(taken, next.a, m) /\ Behind(away, next.o, m) /\ Behind(rests, next.b, m)
             /\ next.out = IF Blocked(taken, m) \/ Blocked(away, m) \/ Blocked(rests, m)
                             THEN st.out ELSE st.out \cup {m}
  BY <1>0, RoundIsRight
<1> DEFINE At(j) == at + j * Step
           Open(m) == ~Blocked(taken, m) /\ ~Blocked(away, m) /\ ~Blocked(rests, m)
           Found(k) == {m \in Int : (\E j \in 0..k - 1 : m = At(j)) /\ Open(m)}
           Right(k) ==
             /\ f[k].out = Found(k)
             /\ Behind(taken, f[k].a, At(k)) /\ Behind(away, f[k].o, At(k)) /\ Behind(rests, f[k].b, At(k))
           T == {k \in Nat : k <= n => Right(k)}
<1>1. Step \in Nat /\ Len(taken) \in Nat /\ Len(away) \in Nat /\ Len(rests) \in Nat
  BY AvailabilityAssumption DEF Sorts, Ordered
<1>2. \A k \in 0..n : f[k] = IF k = 0 THEN Start ELSE Round(taken, away, rests, f[k - 1], At(k - 1))
  BY DEF Scanning
<1>3. ASSUME NEW j \in Nat PROVE At(j) \in Int /\ At(j + 1) \in Int /\ At(j) <= At(j + 1)
  <2>1. PICK p \in Int : p = j * Step
    BY <1>1
  <2>2. (j + 1) * Step = p + Step
    BY <1>1, <2>1
  <2> QED BY <1>1, <2>1, <2>2
<1> HIDE DEF At
<1>4. ASSUME NEW seq, seq \in Seq(Interval), NEW m \in Int, NEW m2 \in Int,
             m <= m2, NEW i, Behind(seq, i, m)
      PROVE  Behind(seq, i, m2)
  <2>1. /\ i \in 1..Len(seq) + 1 /\ Len(seq) \in Nat
        /\ \A k \in 1..i - 1 : seq[k].end <= m
        /\ \A k \in 1..Len(seq) : seq[k] \in Interval
    BY <1>4 DEF Behind
  <2>2. \A k \in 1..i - 1 : seq[k].end \in Int /\ seq[k].end <= m
    <3>1. \A k \in 1..i - 1 : k \in 1..Len(seq)
      BY <2>1
    <3> QED BY <2>1, <3>1, TimesAreIntegers
  <2>3. \A k \in 1..i - 1 : seq[k].end <= m2
    BY <1>4, <2>2
  <2> QED BY <2>1, <2>3 DEF Behind
<1>5. 0 \in T
  <2>1. 0 \in 0..n
    OBVIOUS
  <2>2. f[0] = Start
    BY <1>2, <2>1
  <2>3. Behind(taken, 1, At(0)) /\ Behind(away, 1, At(0)) /\ Behind(rests, 1, At(0))
    BY <1>1 DEF Behind
  <2>4. Found(0) = {}
    OBVIOUS
  <2> HIDE DEF Found
  <2> QED BY <2>2, <2>3, <2>4 DEF Start
<1>6. ASSUME NEW k \in Nat, k \in T PROVE k + 1 \in T
  <2> SUFFICES ASSUME k + 1 <= n PROVE Right(k + 1)
    OBVIOUS
  <2>1. k + 1 \in 0..n /\ k <= n /\ k + 1 # 0 /\ (k + 1) - 1 = k
    OBVIOUS
  <2>2. Right(k)
    BY <1>6, <2>1
  <2>3. f[k + 1] = Round(taken, away, rests, f[k], At(k))
    BY <1>2, <2>1
  <2>4. At(k) \in Int /\ At(k + 1) \in Int /\ At(k) <= At(k + 1)
    BY <1>3
  <2>5. /\ Behind(taken, f[k].a, At(k)) /\ Behind(away, f[k].o, At(k)) /\ Behind(rests, f[k].b, At(k))
        /\ f[k].out = Found(k)
    BY <2>2
  <2>6. /\ Behind(taken, f[k + 1].a, At(k)) /\ Behind(away, f[k + 1].o, At(k))
        /\ Behind(rests, f[k + 1].b, At(k))
        /\ f[k + 1].out = IF Blocked(taken, At(k)) \/ Blocked(away, At(k)) \/ Blocked(rests, At(k))
                            THEN f[k].out ELSE f[k].out \cup {At(k)}
    <3> HIDE DEF Found
    <3>1. PICK st : st = f[k]
      OBVIOUS
    <3>2. PICK m \in Int : m = At(k)
      BY <2>4
    <3>3. Behind(taken, st.a, m) /\ Behind(away, st.o, m) /\ Behind(rests, st.b, m)
      BY <2>5, <3>1, <3>2
    <3>4. PICK next : next = Round(taken, away, rests, st, m)
      OBVIOUS
    <3>5. /\ Behind(taken, next.a, m) /\ Behind(away, next.o, m) /\ Behind(rests, next.b, m)
          /\ next.out = IF Blocked(taken, m) \/ Blocked(away, m) \/ Blocked(rests, m)
                           THEN st.out ELSE st.out \cup {m}
      BY <3>3, <3>4, <1>0
    <3>6. next = f[k + 1]
      BY <2>3, <3>1, <3>2, <3>4
    <3> QED BY <3>1, <3>2, <3>5, <3>6
  <2>7. /\ Behind(taken, f[k + 1].a, At(k + 1)) /\ Behind(away, f[k + 1].o, At(k + 1))
        /\ Behind(rests, f[k + 1].b, At(k + 1))
    <3>1. taken \in Seq(Interval) /\ away \in Seq(Interval) /\ rests \in Seq(Interval)
      BY DEF Sorts, Ordered
    <3> QED BY <1>4, <2>4, <2>6, <3>1
  <2>8. f[k + 1].out = Found(k + 1)
    <3>1. \A j : j \in 0..(k + 1) - 1 <=> j = k \/ j \in 0..k - 1
      OBVIOUS
    <3>2. \A m : m \in Found(k + 1) <=> m \in Found(k) \/ (m = At(k) /\ Open(m))
      <4> HIDE DEF Open
      <4> QED BY <2>4, <3>1
    <3>3. \A m : m \in f[k + 1].out <=> m \in Found(k) \/ (m = At(k) /\ Open(m))
      <4> HIDE DEF Found
      <4> QED BY <2>5, <2>6
    <3> HIDE DEF Found, Open
    <3>4. f[k + 1].out \in SUBSET Int /\ Found(k + 1) \in SUBSET Int
      BY <2>4, <2>5, <2>6 DEF Found
    <3> QED BY <3>2, <3>3, <3>4
  <2> HIDE DEF Found
  <2> QED BY <2>7, <2>8
<1>7. Nat \subseteq T
  <2> HIDE DEF T
  <2> QED BY <1>5, <1>6, NaturalsAreIn
<1>8. Right(n)
  <2>1. n \in T /\ n <= n
    BY <1>7
  <2> HIDE DEF Right
  <2> QED BY <2>1
<1>9. f[n].out = Found(n)
  <2> HIDE DEF Found
  <2> QED BY <1>8
<1> QED BY <1>9 DEF At

\* The times that the loop visits are those of the grid that leave room.
LEMMA RoundsAreTheGrid ==
  ASSUME NEW from \in Int, NEW last \in Int, from <= last, NEW m \in Int
  PROVE  /\ (last - from) \div Step + 1 \in Nat
         /\ (\E j \in 0..(last - from) \div Step : m = from + j * Step)
              <=> m \in from..last /\ (m - from) % Step = 0
<1>1. Step \in Nat \ {0}
  BY AvailabilityAssumption
<1>2. PICK d \in Nat : d = last - from
  OBVIOUS
<1>3. PICK q \in Int, r \in 0..Step - 1 : q = d \div Step /\ d = Step * q + r
  BY DivisionWithRest
<1>4. q >= 0
  <2> SUFFICES ASSUME q <= -1 PROVE FALSE
    OBVIOUS
  <2>1. Step * q <= Step * (-1) /\ Step * q \in Int /\ Step * (-1) = -Step
    BY <1>1
  <2> QED BY <1>1, <1>3, <2>1
<1>5. ASSUME NEW j \in 0..q, m = from + j * Step PROVE m \in from..last /\ (m - from) % Step = 0
  <2>1. j * Step = Step * j /\ Step * j \in Int /\ Step * j >= 0 /\ Step * j <= Step * q /\ Step * q \in Int
    BY <1>1, <1>4
  <2>2. m - from = Step * j
    BY <1>5, <2>1
  <2>3. Step * j <= d
    BY <1>1, <1>3, <2>1
  <2>4. (m - from) % Step = 0
    BY <2>2, Multiples
  <2> QED BY <1>2, <2>1, <2>2, <2>3, <2>4
<1>6. ASSUME m \in from..last, (m - from) % Step = 0 PROVE \E j \in 0..q : m = from + j * Step
  <2>1. PICK k \in Int : m - from = Step * k
    BY <1>6, Multiples
  <2>2. PICK p \in Int : p = Step * k /\ p = k * Step
    BY <1>1
  <2>3. 0 <= p /\ p <= d /\ m = from + p
    BY <1>2, <1>6, <2>1, <2>2
  <2>4. k >= 0
    <3> SUFFICES ASSUME k <= -1 PROVE FALSE
      OBVIOUS
    <3>1. Step * k <= Step * (-1) /\ Step * (-1) = -Step
      BY <1>1
    <3> QED BY <1>1, <2>2, <2>3, <3>1
  <2>5. k <= q
    <3> SUFFICES ASSUME k >= q + 1 PROVE FALSE
      OBVIOUS
    <3>1. PICK t \in Int : t = Step * q
      BY <1>1
    <3>2. Step * k >= Step * (q + 1) /\ Step * (q + 1) = t + Step
      BY <1>1, <3>1
    <3> QED BY <1>1, <1>3, <2>2, <2>3, <3>1, <3>2
  <2> QED BY <2>2, <2>3, <2>4, <2>5
<1> QED BY <1>2, <1>3, <1>4, <1>5, <1>6

LEMMA EngineFindsFree ==
  ASSUME AgendaInv, NEW w \in weekly
  PROVE  EngineSlots(w) = {m \in w.start..w.end - Block :
                             /\ (m - w.start) % Step = 0
                             /\ \A v \in visits \cup off \cup w.breaks : ~Overlap(Slot(m), v)}
<1> DEFINE V == {[start |-> v.start, end |-> v.end] : v \in visits}
           taken == ByStart(V)
           away == ByStart(off)
           rests == MergeSorted(ByStart(w.breaks))
           from == w.start
           last == w.end - Block
           rounds == (last - from) \div Step + 1
           scan == CHOOSE f : Scanning(f, taken, away, rests, from, rounds)
           Free(m) == \A v \in visits \cup off \cup w.breaks : ~Overlap(Slot(m), v)
<1>1. from \in Int /\ last \in Int /\ Block \in Nat /\ (w.start + Block > w.end <=> from > last)
  <2>1. w \in WorkingWindows
    BY AvailabilityAssumption DEF AgendaInv, AvailabilityTypeOK
  <2>2. w.start \in 0..Day /\ w.end \in 0..Day
    BY <2>1 DEF WorkingWindows
  <2> QED BY <2>2, AvailabilityAssumption
<1>2. EngineSlots(w) = IF w.start + Block > w.end THEN {} ELSE scan[rounds].out
  BY DEF EngineSlots, Scanning, Start
<1>3. CASE w.start + Block > w.end
  <2>1. from..last = {}
    BY <1>1, <1>3
  <2>2. {m \in from..last : (m - from) % Step = 0 /\ Free(m)} = {}
    <3> HIDE DEF from, last, Free
    <3> QED BY <2>1
  <2>3. EngineSlots(w) = {}
    BY <1>2, <1>3
  <2> QED BY <2>2, <2>3
<1>4. CASE ~(w.start + Block > w.end)
  <2>1. from <= last
    BY <1>1, <1>4
  <2>2. V \subseteq Interval /\ off \subseteq Interval /\ w.breaks \subseteq Interval
    <3>1. w.breaks \subseteq [start : 0..Day, end : 0..Day]
      BY AvailabilityAssumption DEF AgendaInv, AvailabilityTypeOK, WorkingWindows
    <3>2. w.breaks \subseteq Interval
      BY <3>1, AvailabilityAssumption DEF Interval
    <3> QED BY <3>2 DEF AgendaInv, AvailabilityTypeOK, Interval
  <2>3. Sorts(taken, V) /\ Sorts(away, off)
    <3> HIDE DEF V
    <3> QED BY <2>2, ByStartSorts
  <2>4. \A m : Blocked(taken, m) <=> \E v \in V : Overlap(Slot(m), v)
    <3>1. /\ \A i \in 1..Len(taken) : taken[i] \in V
          /\ \A v \in V : \E i \in 1..Len(taken) : taken[i] = v
      <4> HIDE DEF V, taken
      <4> QED BY <2>3 DEF Sorts
    <3> HIDE DEF V, taken
    <3> QED BY <3>1 DEF Blocked
  <2>5. \A m : Blocked(away, m) <=> \E v \in off : Overlap(Slot(m), v)
    <3>1. /\ \A i \in 1..Len(away) : away[i] \in off
          /\ \A v \in off : \E i \in 1..Len(away) : away[i] = v
      <4> HIDE DEF away
      <4> QED BY <2>3 DEF Sorts
    <3> HIDE DEF away
    <3> QED BY <3>1 DEF Blocked
  <2>0. /\ Ordered(rests)
        /\ \A m \in Int : Blocked(rests, m) <=> \E v \in w.breaks : Overlap(Slot(m), v)
    BY <2>2, MergedAreThey
  <2>6. \A m : (\E v \in V : Overlap(Slot(m), v)) <=> \E v \in visits : Overlap(Slot(m), v)
    <3> DEFINE Bare(v) == [start |-> v.start, end |-> v.end]
    <3>1. \A m, v : Overlap(Slot(m), Bare(v)) <=> Overlap(Slot(m), v)
      BY DEF Overlap
    <3>2. V = {Bare(v) : v \in visits}
      OBVIOUS
    <3> HIDE DEF Bare, V
    <3> QED BY <3>1, <3>2
  <2>7. \A m \in Int : ~Blocked(taken, m) /\ ~Blocked(away, m) /\ ~Blocked(rests, m) <=> Free(m)
    <3> HIDE DEF V, taken, away, rests
    <3> QED BY <2>0, <2>4, <2>5, <2>6
  <2> HIDE DEF V, taken, away, rests, from, last, Free
  <2>8. rounds \in Nat /\ rounds - 1 = (last - from) \div Step
    <3>1. (last - from) \div Step \in Int
      BY <1>1, DivisionWithRest
    <3>2. rounds \in Nat
      BY <1>1, <2>1, RoundsAreTheGrid
    <3> QED BY <3>1, <3>2
  <2> HIDE DEF rounds
  <2>9. Scanning(scan, taken, away, rests, from, rounds)
    BY <2>8, ScanningExists
  <2> HIDE DEF scan
  <2>10. /\ scan[rounds].out \subseteq Int
         /\ \A m \in Int : m \in scan[rounds].out <=> /\ \E j \in 0..rounds - 1 : m = from + j * Step
                                                     /\ ~Blocked(taken, m) /\ ~Blocked(away, m) /\ ~Blocked(rests, m)
    <3>1. PICK at \in Int, n \in Nat : at = from /\ n = rounds
      BY <1>1, <2>8
    <3>2. PICK f : f = scan
      OBVIOUS
    <3>3. Scanning(f, taken, away, rests, at, n)
      BY <2>9, <3>1, <3>2
    <3>4. /\ f[n].out \subseteq Int
          /\ \A m \in Int : m \in f[n].out <=> /\ \E j \in 0..n - 1 : m = at + j * Step
                                             /\ ~Blocked(taken, m) /\ ~Blocked(away, m) /\ ~Blocked(rests, m)
      BY <2>0, <2>2, <2>3, <3>3, ScanningIsRight
    <3> QED BY <3>1, <3>2, <3>4
  <2>11. \A m \in Int : (\E j \in 0..rounds - 1 : m = from + j * Step)
                           <=> m \in from..last /\ (m - from) % Step = 0
    <3>1. \A m \in Int : (\E j \in 0..(last - from) \div Step : m = from + j * Step)
                            <=> m \in from..last /\ (m - from) % Step = 0
      BY <1>1, <2>1, RoundsAreTheGrid
    <3>2. PICK q : q = (last - from) \div Step
      OBVIOUS
    <3> QED BY <2>8, <3>1, <3>2
  <2>12. scan[rounds].out = {m \in from..last : (m - from) % Step = 0 /\ Free(m)}
    <3>1. from..last \subseteq Int
      BY <1>1
    <3> QED BY <2>7, <2>10, <2>11, <3>1
  <2> QED BY <1>2, <1>4, <2>12 DEF Free, from, last
<1> QED BY <1>3, <1>4

LEMMA SlotsFollow == ASSUME AgendaInv PROVE SlotsAreRight
BY OffersAreFree, OverlapsAreEarly, EndpointsAgree, EngineFindsFree DEF SlotsAreRight, EngineIsExact

-----------------------------------------------------------------------------

LEMMA AgendaStarts == AvailabilityInit => AgendaInv
BY AgendaStartsTyped DEF AvailabilityInit, AgendaInv

LEMMA AgendaKeeps == AgendaInv /\ [AvailabilityNext]_agendaVars => AgendaInv'
<1> SUFFICES ASSUME AgendaInv, [AvailabilityNext]_agendaVars PROVE AgendaInv'
  OBVIOUS
<1>1. /\ AvailabilityTypeOK'
      /\ visits \subseteq AgendaVisits
      /\ \A v \in visits : v.start < v.end
      /\ \A o \in off : o.start < o.end
  BY AgendaTypesKeep DEF AgendaInv, AvailabilityTypeOK, AgendaVisits
<1>2. ASSUME \A v \in visits' : v.start < v.end, off' = off PROVE AgendaInv'
  BY <1>1, <1>2 DEF AgendaInv
<1>3. ASSUME \A o \in off' : o.start < o.end, visits' = visits PROVE AgendaInv'
  BY <1>1, <1>3 DEF AgendaInv
<1>4. ASSUME NEW start \in -Step..Day-1, NEW length \in Lengths, BookVisit(start, length)
      PROVE  AgendaInv'
  <2>1. start \in Int /\ length \in Int /\ length > 0
    BY AvailabilityAssumption
  <2>2. start < start + length
    BY <2>1
  <2> QED BY <1>1, <1>2, <1>4, <2>2 DEF BookVisit
<1>5. ASSUME NEW v \in visits, GiveUp(v) PROVE AgendaInv'
  <2>1. [v EXCEPT !.gone = TRUE].start = v.start /\ [v EXCEPT !.gone = TRUE].end = v.end
    BY <1>1 DEF AgendaVisits
  <2> QED BY <1>1, <1>2, <1>5, <2>1 DEF GiveUp
<1>6. ASSUME NEW a, NEW b, a < b, AddTimeOff([start |-> a, end |-> b]) PROVE AgendaInv'
  BY <1>1, <1>3, <1>6 DEF AddTimeOff
<1>7. ASSUME RemoveTimeOff PROVE AgendaInv'
  BY <1>1, <1>3, <1>7 DEF RemoveTimeOff
<1>8. ASSUME visits' = visits, off' = off PROVE AgendaInv'
  BY <1>1, <1>8 DEF AgendaInv
<1> QED BY <1>4, <1>5, <1>6, <1>7, <1>8
    DEF AvailabilityNext, SetWorkingHours, SetCustomSchedule, DayPasses, agendaVars

\* Every answer about free times is right, however the agenda changes: what the
\* planner offers after clamping, merging and rounding is what is free of what
\* the route has fetched, both endpoints of routes/slots.js agree on a day
\* without early appointments, and the pointers of slotEngine.js skip nothing.
THEOREM FreeTimesAreRight == AvailabilitySpec => []SlotsAreRight
<1>1. AgendaInv => SlotsAreRight
  BY SlotsFollow
<1> QED BY <1>1, AgendaStarts, AgendaKeeps, PTL DEF AvailabilitySpec
=============================================================================
