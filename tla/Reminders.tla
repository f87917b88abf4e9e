----------------------------- MODULE Reminders ------------------------------
(***************************************************************************)
(* The reminder of one appointment: services/reminderService.js, and what  *)
(* routes/client.js and routes/appointments.js do to its start.            *)
(*                                                                         *)
(* Time is in half days: the even ones are nights, in which no reminder is *)
(* sent, and 24 hours are two of them.  The cron job starts a run every    *)
(* hour and does not ask whether the last one has ended; every server has  *)
(* one.  `appointment.reminder = ...` is written by save() without regard  *)
(* to what became of the appointment since the run has found it.           *)
(***************************************************************************)
EXTENDS Integers

CONSTANTS
  Runs,     \* runs of the cron job that may be under way at once
  Movers,   \* requests of the client and of the salon
  LastHour  \* bound on time

ASSUME ReminderAssumption == LastHour \in Nat

VARIABLES
  clock,        \* the time
  appt,         \* the appointment: status, start, reminder.sent
  run,          \* run -> where it waits, and the start it has read
  mover,        \* request -> where it waits, the old and the new start
  told,         \* history: starts the client was reminded of since the last reset
  toldTwice,    \* history: reminded twice of one start
  overlap,      \* history: two runs had the appointment, or one died with it
  movedAcross,  \* history: moved to another day while a run had it, or by two
                \* requests, or by one that died before the reset
  byAdmin       \* history: moved to another day by PATCH /appointments/:id

reminderVars == <<clock, appt, run, mover, told, toldTwice, overlap, movedAcross, byAdmin>>

Hours == 0..LastHour

DayOf(t) == t \div 2

ReminderTypeOK ==
  /\ clock \in Hours
  /\ appt \in [status : {"confirmed", "cancelled"}, start : Hours, sent : BOOLEAN]
  /\ run \in [Runs -> [step : {"idle", "found", "mailed"}, start : Hours]]
  /\ mover \in [Movers -> [step : {"idle", "read", "saved"}, old : Hours, new : Hours]]
  /\ told \subseteq Hours
  /\ {toldTwice, overlap, movedAcross, byAdmin} \subseteq BOOLEAN

IdleRun == [step |-> "idle", start |-> 0]

IdleMover == [step |-> "idle", old |-> 0, new |-> 0]

ReminderInit ==
  /\ clock = 0
  /\ appt \in [status : {"confirmed"}, start : Hours, sent : {FALSE}]
  /\ run = [r \in Runs |-> IdleRun]
  /\ mover = [m \in Movers |-> IdleMover]
  /\ told = {}
  /\ toldTwice = FALSE /\ overlap = FALSE /\ movedAcross = FALSE /\ byAdmin = FALSE

TimePasses ==
  /\ clock < LastHour
  /\ clock' = clock + 1
  /\ UNCHANGED <<appt, run, mover, told, toldTwice, overlap, movedAcross, byAdmin>>

InHand == {r \in Runs : run[r].step # "idle"}

-----------------------------------------------------------------------------
(* processReminders                                                        *)

\* isWithinAllowedHours
AllowedHours == clock % 2 = 1

\* Mutant: a reminder that was sent does not keep the next run away.
DueAgain == appt.status = "confirmed" /\ clock < appt.start /\ appt.start <= clock + 2

\* The filter of the run.
IsDue ==
  /\ appt.status = "confirmed" /\ ~appt.sent
  /\ clock < appt.start /\ appt.start <= clock + 2

FindDue(r) ==
  /\ run[r].step = "idle"
  /\ AllowedHours /\ IsDue
  /\ run' = [run EXCEPT ![r] = [step |-> "found", start |-> appt.start]]
  /\ overlap' = (overlap \/ InHand # {})
  /\ UNCHANGED <<clock, appt, mover, told, toldTwice, movedAcross, byAdmin>>

\* The SMS is accepted.
SendSms(r) ==
  /\ run' = [run EXCEPT ![r].step = "mailed"]
  /\ told' = told \cup {run[r].start}
  /\ toldTwice' = (toldTwice \/ run[r].start \in told)

\* sendReminderEmail calls ensureMailer, which is not defined: it throws, the
\* caller logs it, and the appointment is not reminded of.
SendEmail(r) ==
  /\ run' = [run EXCEPT ![r] = IdleRun]
  /\ UNCHANGED <<told, toldTwice>>

\* processAppointment: SMS first, e-mail when none was sent.
SendReminder(r) ==
  /\ run[r].step = "found"
  /\ SendSms(r) \/ SendEmail(r)
  /\ UNCHANGED <<clock, appt, mover, overlap, movedAcross, byAdmin>>

MarkSent(r) ==
  /\ run[r].step = "mailed"
  /\ appt' = [appt EXCEPT !.sent = TRUE]
  /\ run' = [run EXCEPT ![r] = IdleRun]
  /\ UNCHANGED <<clock, mover, told, toldTwice, overlap, movedAcross, byAdmin>>

RunFails(r) ==
  /\ run[r].step # "idle"
  /\ run' = [run EXCEPT ![r] = IdleRun]
  /\ overlap' = TRUE
  /\ UNCHANGED <<clock, appt, mover, told, toldTwice, movedAcross, byAdmin>>

-----------------------------------------------------------------------------
(* PATCH /client/bookings/:id/reschedule, and the other ways to change it  *)

ReadToMove(m, t) ==
  /\ mover[m].step = "idle"
  /\ appt.status = "confirmed" /\ clock < appt.start
  /\ t >= clock /\ t # appt.start
  /\ mover' = [mover EXCEPT ![m] = [step |-> "read", old |-> appt.start, new |-> t]]
  /\ UNCHANGED <<clock, appt, run, told, toldTwice, overlap, movedAcross, byAdmin>>

SaveMove(m) ==
  /\ mover[m].step = "read"
  /\ appt' = [appt EXCEPT !.start = mover[m].new]
  /\ mover' = [mover EXCEPT ![m].step = "saved"]
  /\ movedAcross' = (movedAcross \/ InHand # {} \/ \E g \in Movers \ {m} : mover[g].step # "idle")
  /\ UNCHANGED <<clock, run, told, toldTwice, overlap, byAdmin>>

\* Mutant: the reminder is reset when the hour changes within the day.
ResetWithinDay(m) ==
  /\ mover[m].step = "saved"
  /\ appt' = IF DayOf(mover[m].old) = DayOf(mover[m].new) THEN [appt EXCEPT !.sent = FALSE]
              ELSE appt
  /\ mover' = [mover EXCEPT ![m] = IdleMover]
  /\ UNCHANGED <<clock, run, told, toldTwice, overlap, movedAcross, byAdmin>>

\* resetReminderOnReschedule
ResetReminder(m) ==
  /\ mover[m].step = "saved"
  /\ IF DayOf(mover[m].old) # DayOf(mover[m].new)
       THEN appt' = [appt EXCEPT !.sent = FALSE] /\ told' = {}
       ELSE UNCHANGED <<appt, told>>
  /\ movedAcross' = (movedAcross \/ InHand # {})
  /\ mover' = [mover EXCEPT ![m] = IdleMover]
  /\ UNCHANGED <<clock, run, toldTwice, overlap, byAdmin>>

MoverFails(m) ==
  /\ mover[m].step # "idle"
  /\ mover' = [mover EXCEPT ![m] = IdleMover]
  /\ movedAcross' = (movedAcross \/ mover[m].step = "saved")
  /\ UNCHANGED <<clock, appt, run, told, toldTwice, overlap, byAdmin>>

\* PATCH /appointments/:id: a new start, and no reset.
AdminMoves(t) ==
  /\ appt' = [appt EXCEPT !.start = t]
  /\ byAdmin' = (byAdmin \/ DayOf(t) # DayOf(appt.start))
  /\ movedAcross' = (movedAcross \/ InHand # {} \/ \E m \in Movers : mover[m].step # "idle")
  /\ UNCHANGED <<clock, run, mover, told, toldTwice, overlap>>

CancelVisit ==
  /\ appt.status = "confirmed"
  /\ appt' = [appt EXCEPT !.status = "cancelled"]
  /\ UNCHANGED <<clock, run, mover, told, toldTwice, overlap, movedAcross, byAdmin>>

ReminderNext ==
  \/ TimePasses \/ CancelVisit
  \/ \E r \in Runs : FindDue(r) \/ SendReminder(r) \/ MarkSent(r) \/ RunFails(r)
  \/ \E m \in Movers :
       \/ \E t \in Hours : ReadToMove(m, t)
       \/ SaveMove(m) \/ ResetReminder(m) \/ MoverFails(m)
  \/ \E t \in Hours : AdminMoves(t)

ReminderSpec == ReminderInit /\ [][ReminderNext]_reminderVars

-----------------------------------------------------------------------------
(* Properties                                                              *)

Settling == InHand # {} \/ \E m \in Movers : mover[m].step = "saved"

\* When nothing is under way, an appointment that is marked as reminded was
\* reminded of on the day it now has, unless the salon moved it, or a move came
\* between the run that found it and its save.
SentIsForItsDay ==
  appt.sent /\ ~Settling /\ ~byAdmin /\ ~movedAcross =>
    \E t \in told : DayOf(t) = DayOf(appt.start)

\* Nobody is reminded twice of the same start unless two runs overlapped, or
\* one died with the reminder sent and not marked.
ToldOnce == toldTwice => overlap

\* Both: a reminder goes out once for the day of the visit.
RemindersStand == SentIsForItsDay /\ ToldOnce
=============================================================================
