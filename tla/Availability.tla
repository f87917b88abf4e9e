---------------------------- MODULE Availability ----------------------------
(***************************************************************************)
(* The slots of one specialist and one service on one day: routes/slots.js *)
(* over utils/slotPlanner.js, and the second implementation of the same    *)
(* question in utils/slotEngine.js.  The agenda changes underneath:        *)
(* appointments are made anywhere (routes/appointments.js and the race of  *)
(* two requests allow overlaps) and cancelled, days off and schedules are  *)
(* edited (routes/timeoff.js, routes/specialists.js).                      *)
(*                                                                         *)
(* Time is in ticks of the salon's day, which is 0..Day; the two days it   *)
(* borders are there for what crosses midnight.  GET /slots fetches the    *)
(* appointments that start on the UTC day, which begins Shift ticks after  *)
(* the salon's.  The offset is taken to be the same all day: the two days  *)
(* of the year on which the clocks change are left out.                    *)
(*                                                                         *)
(* A working window has breaks when the hours are in the legacy form, one  *)
(* window a weekday; the schemas of the array form and of the schedule for *)
(* a date strip them.                                                      *)
(***************************************************************************)
EXTENDS Integers, FiniteSets, SequencesExt, FiniteSetsExt

CONSTANTS
  Day,        \* ticks of a day
  Step,       \* stepMin
  Block,      \* totalBlockMin: duration and both buffers
  Shift,      \* offset of the UTC day
  Schedules,  \* working windows that may be set: sets of [start, end, breaks]
  Lengths,    \* lengths of appointments
  MaxVisits   \* bound on the appointments

\* Breaks may touch, overlap, or lie outside their window: nothing looks at that.
WorkingWindows ==
  [start : 0..Day, end : 0..Day, breaks : SUBSET [start : 0..Day, end : 0..Day]]

ASSUME AvailabilityAssumption ==
  /\ {Day, Step, Block} \subseteq Nat \ {0} /\ {Shift, MaxVisits} \subseteq Nat
  /\ Step <= Day /\ Lengths \subseteq 1..Day
  /\ Schedules \subseteq SUBSET WorkingWindows

VARIABLES
  visits,   \* appointments: interval and whether it is cancelled
  off,      \* time off: intervals
  weekly,   \* working hours of the weekday
  custom,   \* the schedule for the date, in a set of its own; {} if there is none
  now       \* the time of day if the day is today, else -1

agendaVars == <<visits, off, weekly, custom, now>>

Interval == [start : -Day..2*Day, end : -Day..2*Day]

AvailabilityTypeOK ==
  /\ visits \subseteq [start : -Day..2*Day, end : -Day..2*Day, gone : BOOLEAN]
  /\ off \subseteq Interval
  /\ weekly \in Schedules /\ custom \subseteq SUBSET WorkingWindows /\ Cardinality(custom) <= 1
  /\ now \in -1..Day

AvailabilityInit ==
  /\ visits = {} /\ off = {}
  /\ weekly \in Schedules /\ custom = {}
  /\ now = -1

-----------------------------------------------------------------------------
(* Changes of the agenda                                                   *)

BookVisit(start, length) ==
  /\ Cardinality(visits) < MaxVisits
  /\ visits' = visits \cup {[start |-> start, end |-> start + length, gone |-> FALSE]}
  /\ UNCHANGED <<off, weekly, custom, now>>

GiveUp(v) ==
  /\ ~v.gone
  /\ visits' = (visits \ {v}) \cup {[v EXCEPT !.gone = TRUE]}
  /\ UNCHANGED <<off, weekly, custom, now>>

\* POST /timeoff: whole days; other times of day come from imports and scripts.
AddTimeOff(iv) ==
  /\ off = {}
  /\ off' = {iv}
  /\ UNCHANGED <<visits, weekly, custom, now>>

RemoveTimeOff ==
  /\ off # {}
  /\ off' = {}
  /\ UNCHANGED <<visits, weekly, custom, now>>

SetWorkingHours(s) ==
  /\ weekly' = s
  /\ UNCHANGED <<visits, off, custom, now>>

\* What is left of a schedule for the date behind its schema has no breaks.
SetCustomSchedule(s) ==
  /\ custom' = {{[w EXCEPT !.breaks = {}] : w \in s}}
  /\ UNCHANGED <<visits, off, weekly, now>>

DayPasses ==
  /\ now + Step <= Day
  /\ now' = now + Step
  /\ UNCHANGED <<visits, off, weekly, custom>>

AvailabilityNext ==
  \/ \E start \in -Step..Day-1, length \in Lengths : BookVisit(start, length)
  \/ \E v \in visits : GiveUp(v)
  \/ \E a, b \in {0, Step + 1, Day} : a < b /\ AddTimeOff([start |-> a, end |-> b])
  \/ RemoveTimeOff
  \/ \E s \in Schedules : SetWorkingHours(s) \/ SetCustomSchedule(s)
  \/ DayPasses

AvailabilitySpec == AvailabilityInit /\ [][AvailabilityNext]_agendaVars

-----------------------------------------------------------------------------
(* slotPlanner.js                                                          *)

\* intervalsOverlap
Overlap(a, b) == a.start < b.end /\ b.start < a.end

Slot(m) == [start |-> m, end |-> m + Block]

\* buildWorkingWindows
Windows ==
  {w \in IF custom # {} THEN UNION custom ELSE weekly : w.start < w.end}

\* Sorted by start; equal starts in any order.
ByStart(S) ==
  CHOOSE seq \in SetToSeqs(S) :
    \A i, j \in DOMAIN seq : i < j => seq[i].start <= seq[j].start

\* Mutant: an interval that begins inside the last one replaces its end.
MergeShort(out, iv) ==
  IF out = <<>> \/ iv.start > Last(out).end THEN Append(out, iv)
  ELSE Append(Front(out), [Last(out) EXCEPT !.end = iv.end])

\* One interval goes to the merged ones, in slotPlanner as in slotEngine.
Merge(out, iv) ==
  IF out = <<>> \/ iv.start > Last(out).end THEN Append(out, iv)
  ELSE IF iv.end > Last(out).end THEN Append(Front(out), [Last(out) EXCEPT !.end = iv.end])
  ELSE out

MergeSorted(seq) ==
  LET merged[n \in 0..Len(seq)] == IF n = 0 THEN <<>> ELSE Merge(merged[n - 1], seq[n])
  IN  merged[Len(seq)]

\* mergeOverlaps
MergeOverlaps(S) == MergeSorted(ByStart({iv \in S : iv.start < iv.end}))

\* clampToDay
ClampToDay(iv) == [start |-> Max({iv.start, 0}), end |-> Min({iv.end, Day})]

\* buildBlockingIntervals
BlockingIntervals(V) ==
  MergeOverlaps({ClampToDay([start |-> v.start, end |-> v.end]) : v \in {u \in V : ~u.gone}}
                \cup {ClampToDay(o) : o \in off})

\* roundUpToStep
RoundUp(m) == IF m % Step = 0 THEN m ELSE m + Step - (m % Step)

\* Mutant: only the first break is looked at.
FirstBreak(w, m) ==
  \E b \in w.breaks : (\A c \in w.breaks : b.start <= c.start) /\ Overlap(Slot(m), b)

\* `overlapsBreak`
InBreak(w, m) == \E b \in w.breaks : Overlap(Slot(m), b)

\* computeSlotsForBeautician, for an active specialist: the starts it returns.
PlannedSlots(V) ==
  LET blocks == ToSet(BlockingIntervals(V)) IN
  {m \in 0..Day :
     /\ \E w \in Windows : /\ m >= RoundUp(w.start) /\ m <= w.end - Block
                           /\ (m - RoundUp(w.start)) % Step = 0
                           /\ ~InBreak(w, m)
     /\ m > now
     /\ \A b \in blocks : ~Overlap(Slot(m), b)}

-----------------------------------------------------------------------------
(* routes/slots.js                                                         *)

\* Mutant: the appointments of the salon's day after the first tick only.
FetchedLate == {v \in visits : ~v.gone /\ v.start > Shift /\ v.start < Shift + Day}

\* The query of GET /slots ...
FetchedVisits == {v \in visits : ~v.gone /\ v.start >= Shift /\ v.start < Shift + Day}

OfferedSlots == PlannedSlots(FetchedVisits)

\* ... and of GET /slots/fully-booked, by the salon's date of the start.
MonthVisits == {v \in visits : ~v.gone /\ v.start >= 0 /\ v.start < Day}

\* A day without weekly hours is full, whatever the schedule for the date says.
FullyBooked == weekly = {} \/ PlannedSlots(MonthVisits) = {}

-----------------------------------------------------------------------------
(* slotEngine.js.  Appointments with the status "cancelled" are left out of *)
(* it; the statuses of cancelled appointments are longer, so none is.        *)

\* Mutant: the pointer moves past appointments that end with the slot.
PassedEarly(end, m) == end <= m + Block

\* The pointer into a sorted list moves past what ends before the slot.
Passed(end, m) == end <= m

\* The first index from i on that is not passed.
Advance(seq, i, m) ==
  CHOOSE j \in i..Len(seq)+1 :
    /\ \A k \in i..j-1 : Passed(seq[k].end, m)
    /\ j <= Len(seq) => ~Passed(seq[j].end, m)

\* Scanning stops at the first that begins behind the slot.
Hits(seq, i, m) ==
  \E k \in i..Len(seq) :
    /\ \A j \in i..k-1 : seq[j].start < m + Block
    /\ Overlap(Slot(m), seq[k])

\* The current break alone is looked at.
HitsBreak(rests, b, m) == b <= Len(rests) /\ Overlap(Slot(m), rests[b])

\* One round of the loop of computeSlots, at the time m: a slot inside a break
\* leaves the pointer into time off, and one inside time off the pointer into
\* the appointments.
Round(taken, away, rests, st, m) ==
  LET b == Advance(rests, st.b, m)
      o == IF HitsBreak(rests, b, m) THEN st.o ELSE Advance(away, st.o, m)
      isOff == HitsBreak(rests, b, m) \/ Hits(away, o, m)
      a == IF isOff THEN st.a ELSE Advance(taken, st.a, m)
  IN  [b |-> b, o |-> o, a |-> a,
       out |-> IF isOff \/ Hits(taken, a, m) THEN st.out ELSE st.out \cup {m}]

\* computeSlots for one window: the loop, with the pointers it carries along.
EngineSlots(w) ==
  LET taken == ByStart({[start |-> v.start, end |-> v.end] : v \in visits})
      away  == ByStart(off)
      rests == MergeSorted(ByStart(w.breaks))
      rounds == (w.end - Block - w.start) \div Step + 1
      scan[k \in 0..rounds] ==
        IF k = 0 THEN [b |-> 1, o |-> 1, a |-> 1, out |-> {}]
        ELSE Round(taken, away, rests, scan[k - 1], w.start + (k - 1) * Step)
  IN  IF w.start + Block > w.end THEN {} ELSE scan[rounds].out

-----------------------------------------------------------------------------
(* Properties                                                              *)

\* What is free, said without loops: aligned, inside a window and outside its
\* breaks, ahead, and in nobody's way.
FreeStarts(aligned(_), V) ==
  {m \in 0..Day : /\ aligned(m) /\ m > now
                  /\ \E w \in Windows : /\ w.start <= m /\ m + Block <= w.end
                                        /\ \A b \in w.breaks : ~Overlap(Slot(m), b)
                  /\ \A v \in V \cup off : ~Overlap(Slot(m), v)}

OnGrid(m) == m % Step = 0

\* GET /slots offers exactly the aligned starts at which no break and nothing
\* that it has fetched is in the way: clamping and merging lose and add nothing.
OfferedIsFree == OfferedSlots = FreeStarts(OnGrid, FetchedVisits)

\* What it has not fetched is in the way only of the first slots of the day:
\* an offered slot that overlaps an appointment overlaps one that began before
\* the UTC day.
OverlapsBeforeDawn ==
  \A m \in OfferedSlots, v \in visits :
    ~v.gone /\ Overlap(Slot(m), v) => v.start < Shift

\* The scan with its three pointers, over merged breaks, loses and adds nothing:
\* it finds the starts at which no break, no time off and no appointment is in
\* the way, a cancelled appointment like any other (CancelledTimesAreFree says
\* what slotEngine.js:157 means to do).
EngineIsExact ==
  \A w \in weekly :
    EngineSlots(w) =
      {m \in w.start..w.end - Block :
         /\ (m - w.start) % Step = 0
         /\ \A v \in visits \cup off \cup w.breaks : ~Overlap(Slot(m), v)}

\* The two endpoints agree on a day with weekly hours, when no appointment
\* starts before the UTC day.
FullyBookedAgrees ==
  weekly # {} /\ (\A v \in visits : v.gone \/ v.start >= Shift) =>
    (FullyBooked <=> OfferedSlots = {})

\* All four: each engine computes the times of the day it is asked about that
\* are free of what it takes into account.
SlotsAreRight ==
  OfferedIsFree /\ OverlapsBeforeDawn /\ FullyBookedAgrees /\ EngineIsExact

\* "Filter out cancelled appointments (parity with slotPlanner)",
\* slotEngine.js:157: with the same appointments, hours and grid, the engine
\* finds every time that the planner finds.
CancelledTimesAreFree ==
  custom = {} =>
    \A w \in weekly :
      w.start % Step = 0 =>
        {m \in PlannedSlots(visits) : w.start <= m /\ m + Block <= w.end}
          \subseteq EngineSlots(w)
=============================================================================
