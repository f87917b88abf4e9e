----------------------------- MODULE MCVisits -------------------------------
(* Around an appointment: its refund, the waitlist, the reminder, the free *)
(* slots, the client's record, and the seats of a seminar.  The components *)
(* share no state; `focus` says which one a behaviour is about, so that    *)
(* their states add up instead of multiplying.                             *)
EXTENDS Cancellation, Waitlist, Seminar, Reminders, Availability,
        ClientBook, TLC

CONSTANTS h1, h2, x1, x2, s1, s2, c1, c2

VARIABLE focus  \* the component a behaviour is about

\* Two specialists' slots at one time; both entries want the first.
MCSuits == [e \in Entries |-> {s1}]
MCTimeOf == [s \in WaitSlots |-> 1]
MCClientOf == [e \in Entries |-> IF e = 1 THEN c1 ELSE c2]

\* Closed, open all day with two breaks, two shifts, or breaks that overlap.
MCWindow(start, end, breaks) == [start |-> start, end |-> end, breaks |-> breaks]

MCSchedules ==
  {{}, {MCWindow(1, 8, {[start |-> 1, end |-> 2], [start |-> 3, end |-> 4]})},
   {MCWindow(0, 4, {}), MCWindow(5, 8, {})},
   {MCWindow(0, 8, {[start |-> 0, end |-> 2], [start |-> 1, end |-> 3], [start |-> 8, end |-> 8]})}}

MCSymmetry == Permutations({h1, h2}) \cup Permutations({x1, x2})

Components == {"Cancellation", "Waitlist", "Seminar", "Reminders",
               "Availability", "ClientBook"}

Init ==
  /\ focus \in Components
  /\ CancellationInit /\ (focus # "Cancellation" => doc = NewAppt("confirmed", TRUE))
  /\ WaitlistInit
  /\ SeminarInit
  /\ ReminderInit /\ (focus # "Reminders" => appt.start = 0)
  /\ AvailabilityInit /\ (focus # "Availability" => weekly = {})
  /\ ClientInit

Next ==
  \/ focus = "Cancellation" /\ CancellationNext /\ UNCHANGED <<focus,
       waitlistVars, seminarVars, reminderVars, agendaVars, clientVars>>
  \/ focus = "Waitlist" /\ WaitlistNext /\ UNCHANGED <<focus,
       cancellationVars, seminarVars, reminderVars, agendaVars, clientVars>>
  \/ focus = "Seminar" /\ SeminarNext /\ UNCHANGED <<focus, cancellationVars,
       waitlistVars, reminderVars, agendaVars, clientVars>>
  \/ focus = "Reminders" /\ ReminderNext /\ UNCHANGED <<focus,
       cancellationVars, waitlistVars, seminarVars, agendaVars, clientVars>>
  \/ focus = "Availability" /\ AvailabilityNext /\ UNCHANGED <<focus,
       cancellationVars, waitlistVars, seminarVars, reminderVars, clientVars>>
  \/ focus = "ClientBook" /\ ClientNext /\ UNCHANGED <<focus,
       cancellationVars, waitlistVars, seminarVars, reminderVars, agendaVars>>

Spec == Init /\ [][Next]_<<focus, cancellationVars, waitlistVars,
                          seminarVars, reminderVars, agendaVars,
                          clientVars>>

\* The type invariants of the components.
TypeOK ==
  /\ CancellationTypeOK
  /\ WaitlistTypeOK
  /\ SeminarTypeOK
  /\ ReminderTypeOK
  /\ AvailabilityTypeOK
  /\ ClientTypeOK
=============================================================================
