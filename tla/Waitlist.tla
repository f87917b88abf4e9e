------------------------------ MODULE Waitlist ------------------------------
(***************************************************************************)
(* The waitlist: routes/waitlist.js, models/WaitlistEntry.js and the       *)
(* filler services/waitlistAutoFillService.js, which books a waiting       *)
(* client into a slot that a cancellation has just freed.                  *)
(*                                                                         *)
(* The filler is a loop of queries over the list of candidates it read     *)
(* first; nothing it read is protected against other fillers, bookings or  *)
(* the staff.  (An appointment that is revived while its slot is filled:   *)
(* see Booking.)  Whether an entry suits a slot (service, variant,         *)
(* specialist, date, time of day) is a constant; entries are numbered by   *)
(* their rank, priority first and then age.  An entry without e-mail       *)
(* (impossible through the route) is left out.                             *)
(***************************************************************************)
EXTENDS Integers, FiniteSetsExt

CONSTANTS
  Fillers,       \* cancellations whose slot is being filled
  EntryCount,    \* entries, by rank: 1 is the first in the queue
  WaitSlots,     \* slots: a specialist and a time
  TimeOf,        \* slot -> its time
  Guests,        \* e-mail addresses
  Bookers,       \* bound: the guests that book without the waitlist
  Suits,         \* entry -> the slots it suits
  ClientOf,      \* entry -> its client
  Bookings,      \* appointment ids
  NoBooking, NoWaitSlot, NoGuest

Entries == 1..EntryCount

ASSUME WaitlistAssumption ==
  /\ EntryCount \in Nat
  /\ Suits \in [Entries -> SUBSET WaitSlots] /\ ClientOf \in [Entries -> Guests]
  /\ Bookers \subseteq Guests
  /\ TimeOf \in [WaitSlots -> Nat]
  /\ NoBooking \notin Bookings /\ NoWaitSlot \notin WaitSlots /\ NoGuest \notin Guests

VARIABLES
  entries,   \* entry -> its document
  bookings,  \* appointment id -> slot, client, whether it is active
  filler,    \* filler -> where it waits and what it has read
  madeFor,   \* history: appointment id -> the entry the filler booked it for, or 0
  excusedTwice  \* history: entries that a second booking could not know of

waitlistVars == <<entries, bookings, filler, madeFor, excusedTwice>>

\* "closed" stands for "converted", "expired" and "removed"; an entry the filler
\* has converted names its appointment.
EntryStatuses == {"none", "active", "closed"}

EntryDocs == [status : EntryStatuses, converted : Bookings \cup {NoBooking}]

BookingDocs == [slot : WaitSlots \cup {NoWaitSlot}, client : Guests \cup {NoGuest},
                state : {"none", "active", "cancelled"}]

FillSteps == {"idle", "read", "client", "conflict", "create", "convert"}

FillerStates ==
  [ step    : FillSteps,
    from    : Bookings \cup {NoBooking},  \* the cancelled appointment
    todo    : SUBSET Entries,             \* candidates not tried yet
    made    : Bookings \cup {NoBooking},
    passed  : SUBSET Entries,  \* history: candidates found busy at that time
    missed  : SUBSET Entries,  \* history: became active behind its list
    unknown : SUBSET Entries ]  \* history: booked by others too late for its list

WaitlistTypeOK ==
  /\ entries \in [Entries -> EntryDocs]
  /\ bookings \in [Bookings -> BookingDocs]
  /\ filler \in [Fillers -> FillerStates]
  /\ madeFor \in [Bookings -> 0..EntryCount]
  /\ excusedTwice \in SUBSET Entries

NoFill == [step |-> "idle", from |-> NoBooking, todo |-> {}, made |-> NoBooking,
           passed |-> {}, missed |-> {}, unknown |-> {}]

WaitlistInit ==
  /\ entries = [e \in Entries |-> [status |-> "none", converted |-> NoBooking]]
  /\ bookings = [b \in Bookings |-> [slot |-> NoWaitSlot, client |-> NoGuest, state |-> "none"]]
  /\ filler = [f \in Fillers |-> NoFill]
  /\ madeFor = [b \in Bookings |-> 0]
  /\ excusedTwice = {}

-----------------------------------------------------------------------------
(* Helpers                                                                 *)

\* An id that was not used before; in which order they are taken is the same.
Unused(b) ==
  /\ bookings[b].state = "none"
  /\ b = CHOOSE d \in Bookings : bookings[d].state = "none"

\* buildActiveAppointmentFilter for a slot.
ActiveIn(s) == {b \in Bookings : bookings[b].state = "active" /\ bookings[b].slot = s}

SlotOf(f) == bookings[filler[f].from].slot

\* Mutant: sort({priority: 1, createdAt: -1}).
LastOf(candidates) == CHOOSE e \in candidates : \A d \in candidates : d <= e

\* sort({priority: -1, createdAt: 1}): the candidate the loop is at.
FirstOf(candidates) == CHOOSE e \in candidates : \A d \in candidates : e <= d

Current(f) == FirstOf(filler[f].todo)

FillGoes(f, step) == filler' = [filler EXCEPT ![f].step = step]

FillEnds(f) == filler' = [filler EXCEPT ![f] = NoFill]

\* Entries whose filler has booked them and not yet marked them converted.
Converting == {madeFor[filler[f].made] : f \in {g \in Fillers : filler[g].step = "convert"}}

\* e is on the waitlist from now on; a filler that has its list does not see it.
Appears(e) ==
  filler' = [f \in Fillers |-> IF filler[f].todo = {} THEN filler[f]
                               ELSE [filler[f] EXCEPT !.missed = @ \cup {e}]]

Booked(e) == \E b \in Bookings : madeFor[b] = e

-----------------------------------------------------------------------------
(* Guests and staff                                                       *)

\* POST /waitlist.  (The look-up of a duplicate is by client and wish: ranks are
\* distinct entries here.)
Join(e) ==
  /\ entries[e].status = "none"
  /\ entries' = [entries EXCEPT ![e].status = "active"]
  /\ Appears(e)
  /\ UNCHANGED <<bookings, madeFor, excusedTwice>>

\* Mutant: a status the schema does not know.
UnknownStatus(d, status) == [status |-> "waiting", converted |-> d.converted]

\* buildStatusUpdatePayload: back to "active" forgets the conversion.
StatusUpdate(d, status) ==
  [status |-> status, converted |-> IF status = "active" THEN NoBooking ELSE d.converted]

\* PATCH /:id/status, POST /bulk-status: any status, whatever the present one is.
StaffSets(e, status) ==
  /\ entries[e].status # "none"
  /\ entries' = [entries EXCEPT ![e] = StatusUpdate(@, status)]
  /\ excusedTwice' = IF status = "active" /\ entries[e].status # "active" /\ Booked(e)
                       THEN excusedTwice \cup {e} ELSE excusedTwice
  /\ IF status = "active" /\ entries[e].status # "active" THEN Appears(e) ELSE UNCHANGED filler
  /\ UNCHANGED <<bookings, madeFor>>

\* Somebody books a free slot (see Booking for the races of that).
BookFreeSlot(b, s, c) ==
  /\ Unused(b)
  /\ ActiveIn(s) = {}
  /\ bookings' = [bookings EXCEPT ![b] = [slot |-> s, client |-> c, state |-> "active"]]
  /\ UNCHANGED <<entries, filler, madeFor, excusedTwice>>

\* A cancellation is written and its request calls autoFillCancelledSlot.
CancelAndFill(f, b) ==
  /\ filler[f].step = "idle"
  /\ bookings[b].state = "active"
  /\ bookings' = [bookings EXCEPT ![b].state = "cancelled"]
  /\ filler' = [filler EXCEPT ![f] = [NoFill EXCEPT !.step = "read", !.from = b]]
  /\ UNCHANGED <<entries, madeFor, excusedTwice>>

-----------------------------------------------------------------------------
(* autoFillCancelledSlot                                                   *)

\* The list of candidates.
ReadCandidates(f) ==
  LET list == {e \in Entries : entries[e].status = "active" /\ SlotOf(f) \in Suits[e]} IN
  /\ filler[f].step = "read"
  /\ filler' = [filler EXCEPT ![f].step = IF list = {} THEN "idle" ELSE "client",
                              ![f].from = IF list = {} THEN NoBooking ELSE @,
                              ![f].todo = list,
                              ![f].unknown = IF list = {} THEN {} ELSE Converting]
  /\ UNCHANGED <<entries, bookings, madeFor, excusedTwice>>

\* A client who has a booking at that time already is passed over.
CheckClient(f) ==
  LET e == Current(f)
      busy == \E s \in WaitSlots : /\ TimeOf[s] = TimeOf[SlotOf(f)]
                                   /\ \E b \in ActiveIn(s) : bookings[b].client = ClientOf[e]
  IN
  /\ filler[f].step = "client"
  /\ IF ~busy THEN FillGoes(f, "conflict")
     ELSE IF filler[f].todo = {e} THEN FillEnds(f)
     ELSE filler' = [filler EXCEPT ![f].todo = @ \ {e}, ![f].passed = @ \cup {e}]
  /\ UNCHANGED <<entries, bookings, madeFor, excusedTwice>>

\* The slot may have been taken meanwhile.
CheckConflict(f) ==
  /\ filler[f].step = "conflict"
  /\ IF ActiveIn(SlotOf(f)) = {} THEN FillGoes(f, "create") ELSE FillEnds(f)
  /\ UNCHANGED <<entries, bookings, madeFor, excusedTwice>>

\* A confirmed appointment for the candidate.
CreateForEntry(f, b) ==
  LET e == Current(f) IN
  /\ filler[f].step = "create"
  /\ Unused(b)
  /\ bookings' = [bookings EXCEPT ![b] =
       [slot |-> SlotOf(f), client |-> ClientOf[e], state |-> "active"]]
  /\ madeFor' = [madeFor EXCEPT ![b] = e]
  /\ filler' = [g \in Fillers |->
       IF g = f THEN [filler[f] EXCEPT !.step = "convert", !.made = b]
       ELSE IF filler[g].todo = {} THEN filler[g]
       ELSE [filler[g] EXCEPT !.unknown = @ \cup {e}]]
  /\ excusedTwice' = IF Booked(e) /\ e \in filler[f].unknown THEN excusedTwice \cup {e}
                     ELSE excusedTwice
  /\ UNCHANGED entries

\* Mutant: the entry names the cancelled appointment.
ConvertToCancelled(f) ==
  LET e == Current(f) IN
  /\ filler[f].step = "convert"
  /\ entries' = IF entries[e].status = "active"
                  THEN [entries EXCEPT ![e] = [status |-> "closed", converted |-> filler[f].from]]
                  ELSE entries
  /\ FillEnds(f)
  /\ UNCHANGED <<bookings, madeFor, excusedTwice>>

\* Mutant: the status of the entry is not looked at, and not changed.
ConvertForgotten(f) ==
  /\ filler[f].step = "convert"
  /\ FillEnds(f)
  /\ UNCHANGED <<entries, bookings, madeFor, excusedTwice>>

\* findOneAndUpdate with status "active" in the filter; the result is ignored.
Convert(f) ==
  LET e == Current(f) IN
  /\ filler[f].step = "convert"
  /\ entries' = IF entries[e].status = "active"
                  THEN [entries EXCEPT ![e] = [status |-> "closed", converted |-> filler[f].made]]
                  ELSE entries
  /\ FillEnds(f)
  /\ UNCHANGED <<bookings, madeFor, excusedTwice>>

\* The server dies or a query throws: the loop is over.
FillFails(f) ==
  /\ filler[f].step # "idle"
  /\ FillEnds(f)
  /\ excusedTwice' = IF filler[f].step = "convert" THEN excusedTwice \cup {Current(f)}
                     ELSE excusedTwice
  /\ UNCHANGED <<entries, bookings, madeFor>>

Fill(f) ==
  \/ ReadCandidates(f) \/ CheckClient(f) \/ CheckConflict(f) \/ Convert(f) \/ FillFails(f)
  \/ \E b \in Bookings : CancelAndFill(f, b) \/ CreateForEntry(f, b)

WaitlistNext ==
  \/ \E e \in Entries :
       Join(e) \/ \E status \in EntryStatuses \ {"none"} : StaffSets(e, status)
  \/ \E b \in Bookings, s \in WaitSlots, c \in Bookers : BookFreeSlot(b, s, c)
  \/ \E f \in Fillers : Fill(f)

WaitlistSpec == WaitlistInit /\ [][WaitlistNext]_waitlistVars

-----------------------------------------------------------------------------
(* Properties                                                              *)

\* A waiting client is booked a second time for one entry only when that filler
\* had its list before the first booking was marked, when the marking was cut
\* off by a crash, or when staff had made the entry active again.
BookedTwiceIsExplained ==
  \A b, d \in Bookings : b # d /\ madeFor[b] = madeFor[d] /\ madeFor[b] # 0
    => madeFor[b] \in excusedTwice

\* A conversion names an appointment that was made for this very entry, and an
\* entry that waits names none, also after staff changed the status between the
\* steps of a filler and other fillers ran.
ConversionIsTrue ==
  \A e \in Entries : entries[e].converted # NoBooking =>
    madeFor[entries[e].converted] = e /\ entries[e].status # "active"

\* The queue is kept: a filler books an entry only when it found the client of
\* every better one on its list busy at that time.
NobodyIsOvertaken ==
  [][\A f \in Fillers : filler[f].step = "create" /\ filler'[f].step = "convert" =>
       \A e \in Entries :
         entries[e].status = "active" /\ SlotOf(f) \in Suits[e] /\ e < Current(f)
           => e \in filler[f].passed \cup filler[f].missed]_waitlistVars

\* Both: an entry is turned into one appointment, its own.
BookingsAreTheirs == BookedTwiceIsExplained /\ ConversionIsTrue
=============================================================================
