--------------------------- MODULE WaitlistProofs ----------------------------
(***************************************************************************)
(* The waitlist for any number of fillers, entries, slots and bookings.    *)
(*                                                                         *)
(* Filling says what a filler has in hand: the slot it fills cannot change *)
(* (ids are used once), its candidate is the first of those not tried yet. *)
(* Known: a filler that still has a booked entry on its list either marks  *)
(* it just now or read the list too early.  Marked: a booked entry that    *)
(* waits is being marked, or there is an excuse for it.  InOrder: what a   *)
(* filler does not have on its list it has passed over or never seen.      *)
(***************************************************************************)
EXTENDS Waitlist, WellFoundedInduction, TLAPS

Waits(f) == filler[f].step \in {"client", "conflict", "create", "convert"}

Filling == \A f \in Fillers :
  /\ filler[f].step # "idle" =>
       filler[f].from \in Bookings /\ bookings[filler[f].from].state # "none"
  /\ filler[f].todo # {} <=> Waits(f)
  /\ filler[f].step = "convert" =>
       filler[f].made \in Bookings /\ madeFor[filler[f].made] = Current(f)
  /\ \A e \in filler[f].todo : entries[e].status # "none"

MadeIsTaken == \A b \in Bookings : madeFor[b] # 0 =>
  bookings[b].state # "none" /\ entries[madeFor[b]].status # "none"

Known == \A f \in Fillers : \A e \in filler[f].todo \ filler[f].unknown :
  Booked(e) => e \in excusedTwice \/ (filler[f].step = "convert" /\ Current(f) = e)

Marked == \A e \in Entries :
  Booked(e) /\ entries[e].status = "active" => e \in excusedTwice \/ e \in Converting

InOrder == \A f \in Fillers : Waits(f) =>
  \A e \in Entries : entries[e].status = "active" /\ SlotOf(f) \in Suits[e]
    => e \in filler[f].todo \cup filler[f].passed \cup filler[f].missed

WaitlistInv ==
  /\ WaitlistTypeOK
  /\ Filling
  /\ MadeIsTaken
  /\ Known
  /\ Marked
  /\ InOrder
  /\ BookedTwiceIsExplained
  /\ ConversionIsTrue

-----------------------------------------------------------------------------
(* The order of the candidates                                             *)

LEMMA FirstIsLeast ==
  ASSUME NEW T \in SUBSET Entries, T # {}
  PROVE  FirstOf(T) \in T /\ \A d \in T : FirstOf(T) <= d
<1>1. T \subseteq Nat
  BY WaitlistAssumption DEF Entries
<1>2. PICK x \in T : \A y \in T : ~(<<y, x>> \in OpToRel(<, Nat))
  BY <1>1, NatLessThanWellFounded, WFMin
<1>3. \A y \in T : ~(y < x)
  BY <1>1, <1>2 DEF OpToRel
<1>4. \A y \in T : x <= y
  BY <1>1, <1>3
<1> QED BY <1>4 DEF FirstOf

LEMMA CurrentIsFirst ==
  ASSUME WaitlistInv, NEW f \in Fillers, Waits(f)
  PROVE  /\ Current(f) \in Entries /\ Current(f) \in filler[f].todo
         /\ Current(f) # 0
         /\ \A e \in filler[f].todo : Current(f) <= e
<1>1. filler[f].todo \in SUBSET Entries /\ filler[f].todo # {}
  BY DEF WaitlistInv, WaitlistTypeOK, FillerStates, Filling
<1>2. Current(f) \in filler[f].todo /\ \A e \in filler[f].todo : Current(f) <= e
  BY <1>1, FirstIsLeast DEF Current
<1> QED BY <1>1, <1>2, WaitlistAssumption DEF Entries

LEMMA NoFillTyped == NoFill \in FillerStates /\ NoFill.step = "idle" /\ NoFill.todo = {}
  BY DEF NoFill, FillerStates, FillSteps

LEMMA WaitlistStarts == WaitlistInit => WaitlistInv
<1> SUFFICES ASSUME WaitlistInit PROVE WaitlistInv
  OBVIOUS
<1>1. WaitlistTypeOK
  BY NoFillTyped, WaitlistAssumption DEF WaitlistInit, WaitlistTypeOK, EntryDocs, EntryStatuses, BookingDocs
<1>2. \A e \in Entries : ~Booked(e)
  BY WaitlistAssumption DEF WaitlistInit, Booked, Entries
<1> QED
  BY <1>1, <1>2, NoFillTyped DEF WaitlistInv, WaitlistInit, Filling, MadeIsTaken, Known, Marked, InOrder,
     BookedTwiceIsExplained, ConversionIsTrue, Waits

-----------------------------------------------------------------------------
(* Steps                                                                   *)

\* A filler is done, or dies.
LEMMA EndKeeps ==
  ASSUME WaitlistInv, NEW f \in Fillers, FillEnds(f), UNCHANGED <<entries, bookings, madeFor>>,
         excusedTwice \subseteq excusedTwice', excusedTwice' \in SUBSET Entries,
         filler[f].step = "convert" => Current(f) \in excusedTwice'
  PROVE  WaitlistInv'
<1>1. filler' = [filler EXCEPT ![f] = NoFill] /\ filler'[f] = NoFill
      /\ \A g \in Fillers : g # f => filler'[g] = filler[g]
  BY DEF FillEnds, WaitlistInv, WaitlistTypeOK
<1>2. WaitlistTypeOK'
  BY <1>1, NoFillTyped DEF WaitlistInv, WaitlistTypeOK
<1>3. Filling' /\ MadeIsTaken'
  BY <1>1, NoFillTyped DEF WaitlistInv, Filling, MadeIsTaken, Waits, Current
<1>4. Known' /\ InOrder'
  BY <1>1, NoFillTyped DEF WaitlistInv, Known, InOrder, Waits, Current, Booked, SlotOf
<1>5. Marked'
  <2> SUFFICES ASSUME NEW e \in Entries, Booked(e), entries[e].status = "active",
                      e \notin excusedTwice'
               PROVE  e \in Converting'
    BY DEF Marked, Booked
  <2>1. PICK g \in Fillers : filler[g].step = "convert" /\ e = madeFor[filler[g].made]
    BY DEF WaitlistInv, Marked, Converting
  <2>2. g # f
    BY <2>1 DEF WaitlistInv, Filling
  <2> QED BY <1>1, <2>1, <2>2 DEF Converting
<1>6. BookedTwiceIsExplained' /\ ConversionIsTrue'
  BY DEF WaitlistInv, BookedTwiceIsExplained, ConversionIsTrue
<1> QED BY <1>2, <1>3, <1>4, <1>5, <1>6 DEF WaitlistInv

\* A filler goes on with a part of its list.
LEMMA GoOnKeeps ==
  ASSUME WaitlistInv, NEW f \in Fillers, NEW r \in FillerStates, filler' = [filler EXCEPT ![f] = r],
         UNCHANGED <<entries, bookings, madeFor, excusedTwice>>,
         filler[f].step \in {"client", "conflict"}, r.step \in {"client", "conflict", "create"},
         r.from = filler[f].from, r.unknown = filler[f].unknown, r.missed = filler[f].missed,
         r.todo # {}, r.todo \subseteq filler[f].todo,
         filler[f].todo \cup filler[f].passed \subseteq r.todo \cup r.passed
  PROVE  WaitlistInv'
<1>1. filler'[f] = r /\ \A g \in Fillers : g # f => filler'[g] = filler[g]
  BY DEF WaitlistInv, WaitlistTypeOK
<1>2. WaitlistTypeOK'
  BY DEF WaitlistInv, WaitlistTypeOK
<1>3. Filling' /\ MadeIsTaken'
  BY <1>1 DEF WaitlistInv, Filling, MadeIsTaken, Waits, Current
<1>4. Known'
  BY <1>1 DEF WaitlistInv, Known, Current, Booked
<1>5. InOrder'
  BY <1>1 DEF WaitlistInv, InOrder, Waits, SlotOf
<1>6. Marked'
  BY <1>1 DEF WaitlistInv, Marked, Booked, Converting
<1>7. BookedTwiceIsExplained' /\ ConversionIsTrue'
  BY DEF WaitlistInv, BookedTwiceIsExplained, ConversionIsTrue
<1> QED BY <1>2, <1>3, <1>4, <1>5, <1>6, <1>7 DEF WaitlistInv

\* An appointment with an id that was not used before changes nothing in hand.
LEMMA TakenKeeps ==
  ASSUME WaitlistInv, NEW b \in Bookings, bookings[b].state = "none"
  PROVE  /\ madeFor[b] = 0
         /\ \A e \in Entries : entries[e].converted # b
         /\ \A f \in Fillers : /\ filler[f].step # "idle" => filler[f].from # b
                               /\ filler[f].step = "convert" => filler[f].made # b
<1>1. madeFor[b] = 0
  BY DEF WaitlistInv, MadeIsTaken
<1>2. \A e \in Entries : e # 0
  BY WaitlistAssumption DEF Entries
<1>3. \A e \in Entries : entries[e].converted # b
  BY <1>1, <1>2, WaitlistAssumption DEF WaitlistInv, ConversionIsTrue
<1>4. ASSUME NEW f \in Fillers
      PROVE  /\ filler[f].step # "idle" => filler[f].from # b
             /\ filler[f].step = "convert" => filler[f].made # b
  BY <1>1, CurrentIsFirst DEF WaitlistInv, Filling, Waits
<1> QED BY <1>1, <1>3, <1>4

LEMMA BookEntryKeeps ==
  ASSUME WaitlistInv, NEW b \in Bookings, NEW s \in WaitSlots, NEW c \in Bookers, BookFreeSlot(b, s, c)
  PROVE  WaitlistInv'
<1>1. bookings' = [bookings EXCEPT ![b] = [slot |-> s, client |-> c, state |-> "active"]]
      /\ bookings[b].state = "none" /\ UNCHANGED <<entries, filler, madeFor, excusedTwice>>
  BY DEF BookFreeSlot, Unused
<1>2. WaitlistTypeOK'
  BY <1>1, WaitlistAssumption DEF WaitlistInv, WaitlistTypeOK, BookingDocs
<1>3. Filling' /\ MadeIsTaken'
  BY <1>1, TakenKeeps DEF WaitlistInv, WaitlistTypeOK, Filling, MadeIsTaken, Waits, Current
<1>4. InOrder'
  BY <1>1, TakenKeeps DEF WaitlistInv, WaitlistTypeOK, InOrder, Waits, SlotOf
<1>5. Known' /\ Marked' /\ BookedTwiceIsExplained' /\ ConversionIsTrue'
  BY <1>1 DEF WaitlistInv, Known, Marked, Booked, Converting, Current, BookedTwiceIsExplained,
     ConversionIsTrue
<1> QED BY <1>2, <1>3, <1>4, <1>5 DEF WaitlistInv

LEMMA CancelKeeps ==
  ASSUME WaitlistInv, NEW f \in Fillers, NEW b \in Bookings, CancelAndFill(f, b)
  PROVE  WaitlistInv'
<1> DEFINE r == [NoFill EXCEPT !.step = "read", !.from = b]
<1>1. bookings' = [bookings EXCEPT ![b].state = "cancelled"] /\ bookings[b].state = "active"
      /\ filler' = [filler EXCEPT ![f] = r] /\ filler[f].step = "idle"
      /\ UNCHANGED <<entries, madeFor, excusedTwice>>
  BY DEF CancelAndFill
<1>2. r \in FillerStates /\ r.todo = {} /\ r.step = "read" /\ r.from = b
  BY DEF NoFill, FillerStates, FillSteps
<1> HIDE DEF r
<1>3. WaitlistTypeOK'
  BY <1>1, <1>2 DEF WaitlistInv, WaitlistTypeOK, BookingDocs
<1>4. filler'[f] = r /\ \A g \in Fillers : g # f => filler'[g] = filler[g]
  BY <1>1 DEF WaitlistInv, WaitlistTypeOK
<1>5. \A d \in Bookings : bookings'[d].slot = bookings[d].slot
                          /\ (bookings'[d].state = "none" <=> bookings[d].state = "none")
  BY <1>1 DEF WaitlistInv, WaitlistTypeOK, BookingDocs
<1>6. Filling' /\ MadeIsTaken'
  BY <1>1, <1>2, <1>4, <1>5 DEF WaitlistInv, WaitlistTypeOK, Filling, MadeIsTaken, Waits, Current
<1>7. InOrder'
  BY <1>1, <1>2, <1>4, <1>5 DEF WaitlistInv, InOrder, Waits, SlotOf, Filling
<1>8. Known' /\ Marked' /\ BookedTwiceIsExplained' /\ ConversionIsTrue'
  BY <1>1, <1>2, <1>4 DEF WaitlistInv, Known, Marked, Booked, Converting, Current,
     BookedTwiceIsExplained, ConversionIsTrue
<1> QED BY <1>3, <1>6, <1>7, <1>8 DEF WaitlistInv

LEMMA ReadKeeps ==
  ASSUME WaitlistInv, NEW f \in Fillers, ReadCandidates(f)
  PROVE  WaitlistInv'
<1> DEFINE list == {e \in Entries : entries[e].status = "active" /\ SlotOf(f) \in Suits[e]}
<1>1. filler[f].step = "read" /\ UNCHANGED <<entries, bookings, madeFor, excusedTwice>>
  BY DEF ReadCandidates
<1>2. filler[f] \in FillerStates /\ filler[f].todo = {}
  BY <1>1 DEF WaitlistInv, WaitlistTypeOK, Filling, Waits
<1>3. Converting \in SUBSET Entries
  <2> SUFFICES ASSUME NEW g \in Fillers, filler[g].step = "convert"
               PROVE  madeFor[filler[g].made] \in Entries
    BY DEF Converting
  <2> QED BY CurrentIsFirst DEF WaitlistInv, Filling, Waits
<1> DEFINE r == [filler[f] EXCEPT !.step = IF list = {} THEN "idle" ELSE "client",
                   !.from = IF list = {} THEN NoBooking ELSE @, !.todo = list,
                   !.unknown = IF list = {} THEN {} ELSE Converting]
<1>4. r \in FillerStates /\ r.todo = list
      /\ (list = {} => r.step = "idle")
      /\ (list # {} => r.step = "client" /\ r.from = filler[f].from /\ r.unknown = Converting)
  BY <1>2, <1>3 DEF FillerStates, FillSteps
<1>5. filler' = [filler EXCEPT ![f] = r]
  BY DEF ReadCandidates, WaitlistInv, WaitlistTypeOK, FillerStates
<1>6. \A e \in list : e \in Entries /\ entries[e].status = "active"
  OBVIOUS
<1>a. \A e \in Entries : entries[e].status = "active" /\ SlotOf(f) \in Suits[e] => e \in list
  OBVIOUS
<1> HIDE DEF r, list
<1>7. filler'[f] = r /\ \A g \in Fillers : g # f => filler'[g] = filler[g]
  BY <1>5 DEF WaitlistInv, WaitlistTypeOK
<1>8. WaitlistTypeOK'
  BY <1>1, <1>4, <1>5 DEF WaitlistInv, WaitlistTypeOK
<1>9. Filling' /\ MadeIsTaken'
  BY <1>1, <1>4, <1>6, <1>7 DEF WaitlistInv, Filling, MadeIsTaken, Waits, Current
<1>10. Known'
  BY <1>1, <1>4, <1>6, <1>7 DEF WaitlistInv, Known, Marked, Booked, Current
<1>11. Marked'
  BY <1>1, <1>4, <1>7 DEF WaitlistInv, Marked, Booked, Converting
<1>12. InOrder'
  BY <1>1, <1>4, <1>7, <1>a DEF WaitlistInv, InOrder, Waits, SlotOf
<1>13. BookedTwiceIsExplained' /\ ConversionIsTrue'
  BY <1>1 DEF WaitlistInv, BookedTwiceIsExplained, ConversionIsTrue
<1> QED BY <1>8, <1>9, <1>10, <1>11, <1>12, <1>13 DEF WaitlistInv

\* The fillers as they are when an entry comes onto the waitlist.
LEMMA AppearsTyped ==
  ASSUME WaitlistInv, NEW e \in Entries, Appears(e) \/ UNCHANGED filler
  PROVE  /\ filler' \in [Fillers -> FillerStates]
         /\ \A f \in Fillers :
              /\ filler'[f].step = filler[f].step /\ filler'[f].from = filler[f].from
              /\ filler'[f].todo = filler[f].todo /\ filler'[f].made = filler[f].made
              /\ filler'[f].passed = filler[f].passed /\ filler'[f].unknown = filler[f].unknown
              /\ filler[f].missed \subseteq filler'[f].missed
              /\ Appears(e) /\ filler[f].todo # {} => e \in filler'[f].missed
<1>1. CASE UNCHANGED filler /\ ~Appears(e)
  BY <1>1 DEF WaitlistInv, WaitlistTypeOK
<1>2. CASE Appears(e)
  BY <1>2 DEF WaitlistInv, WaitlistTypeOK, Appears, FillerStates
<1> QED BY <1>1, <1>2

\* Guests and staff change an entry: it waits anew, or it waits no more.
LEMMA StatusKeeps ==
  ASSUME WaitlistInv, NEW e \in Entries, NEW d \in EntryDocs, d.status # "none",
         entries' = [entries EXCEPT ![e] = d], UNCHANGED <<bookings, madeFor>>,
         d.converted = NoBooking \/ (d.converted = entries[e].converted /\ d.status # "active"),
         Appears(e) \/ UNCHANGED filler,
         d.status = "active" /\ entries[e].status # "active" => Appears(e),
         excusedTwice' \in SUBSET Entries, excusedTwice \subseteq excusedTwice',
         d.status = "active" /\ entries[e].status # "active" /\ Booked(e) => e \in excusedTwice'
  PROVE  WaitlistInv'
<1>1. WaitlistTypeOK'
  BY AppearsTyped DEF WaitlistInv, WaitlistTypeOK
<1>2. entries'[e] = d /\ \A x \in Entries : x # e => entries'[x] = entries[x]
  BY DEF WaitlistInv, WaitlistTypeOK
<1>3. \A f \in Fillers : filler[f].todo \subseteq Entries
  BY DEF WaitlistInv, WaitlistTypeOK, FillerStates
<1>4. \A x \in Entries : entries[x].status # "none" => entries'[x].status # "none"
  BY <1>2
<1>5. Filling'
  BY <1>3, <1>4, AppearsTyped DEF WaitlistInv, Filling, Waits, Current
<1>6. MadeIsTaken'
  BY <1>4, WaitlistAssumption DEF WaitlistInv, MadeIsTaken, WaitlistTypeOK, Entries
<1>7. Known'
  BY AppearsTyped DEF WaitlistInv, Known, Current, Booked
<1>8. Marked'
  BY <1>2, AppearsTyped DEF WaitlistInv, Marked, Booked, Converting
<1>9. InOrder'
  <2> SUFFICES ASSUME NEW f \in Fillers, Waits(f), NEW x \in Entries,
                      entries'[x].status = "active", SlotOf(f) \in Suits[x]
               PROVE  x \in filler'[f].todo \cup filler'[f].passed \cup filler'[f].missed
    BY AppearsTyped DEF InOrder, Waits, SlotOf
  <2>1. CASE entries[x].status = "active"
    BY <2>1, AppearsTyped DEF WaitlistInv, InOrder
  <2>2. CASE entries[x].status # "active"
    BY <1>2, <2>2, AppearsTyped DEF WaitlistInv, Filling
  <2> QED BY <2>1, <2>2
<1>10. BookedTwiceIsExplained'
  BY DEF WaitlistInv, BookedTwiceIsExplained
<1>11. ConversionIsTrue'
  BY <1>2 DEF WaitlistInv, ConversionIsTrue
<1> QED BY <1>1, <1>5, <1>6, <1>7, <1>8, <1>9, <1>10, <1>11 DEF WaitlistInv

LEMMA JoinKeeps ==
  ASSUME WaitlistInv, NEW e \in Entries, Join(e)
  PROVE  WaitlistInv'
<1> DEFINE d == [entries[e] EXCEPT !.status = "active"]
<1>1. entries[e] \in EntryDocs /\ entries[e].status = "none"
  BY DEF WaitlistInv, WaitlistTypeOK, Join
<1>2. ~Booked(e)
  BY <1>1, WaitlistAssumption DEF WaitlistInv, MadeIsTaken, Booked, Entries
<1>3. entries[e].converted = NoBooking
  <2> SUFFICES ASSUME entries[e].converted # NoBooking PROVE FALSE
    OBVIOUS
  <2>1. entries[e].converted \in Bookings /\ madeFor[entries[e].converted] = e
    BY <1>1 DEF WaitlistInv, ConversionIsTrue, EntryDocs
  <2> QED BY <1>2, <2>1 DEF Booked
<1>4. d \in EntryDocs /\ d.status = "active" /\ d.converted = NoBooking
  BY <1>1, <1>3 DEF EntryDocs, EntryStatuses
<1>5. entries' = [entries EXCEPT ![e] = d] /\ Appears(e)
      /\ UNCHANGED <<bookings, madeFor, excusedTwice>>
  BY DEF Join, WaitlistInv, WaitlistTypeOK
<1> HIDE DEF d
<1> QED BY <1>2, <1>4, <1>5, StatusKeeps DEF WaitlistInv, WaitlistTypeOK

LEMMA StaffKeeps ==
  ASSUME WaitlistInv, NEW e \in Entries, NEW status \in EntryStatuses \ {"none"}, StaffSets(e, status)
  PROVE  WaitlistInv'
<1> DEFINE d == StatusUpdate(entries[e], status)
<1>1. entries' = [entries EXCEPT ![e] = d] /\ UNCHANGED <<bookings, madeFor>>
  BY DEF StaffSets, WaitlistInv, WaitlistTypeOK
<1>2. entries[e] \in EntryDocs
  BY DEF WaitlistInv, WaitlistTypeOK
<1>3. d \in EntryDocs /\ d.status = status
      /\ (d.converted = NoBooking \/ (d.converted = entries[e].converted /\ status # "active"))
  BY <1>2 DEF StatusUpdate, EntryDocs
<1>4. /\ excusedTwice' \in SUBSET Entries /\ excusedTwice \subseteq excusedTwice'
      /\ status = "active" /\ entries[e].status # "active" /\ Booked(e) => e \in excusedTwice'
  BY DEF StaffSets, WaitlistInv, WaitlistTypeOK
<1>5. /\ Appears(e) \/ UNCHANGED filler
      /\ status = "active" /\ entries[e].status # "active" => Appears(e)
  BY DEF StaffSets
<1> HIDE DEF d
<1> QED BY <1>1, <1>3, <1>4, <1>5, StatusKeeps

LEMMA CreateKeeps ==
  ASSUME WaitlistInv, NEW f \in Fillers, NEW b \in Bookings, CreateForEntry(f, b)
  PROVE  WaitlistInv'
<1> DEFINE e == Current(f)
<1>1. filler[f].step = "create" /\ bookings[b].state = "none" /\ UNCHANGED entries
  BY DEF CreateForEntry, Unused
<1>2. e \in Entries /\ e \in filler[f].todo /\ e # 0
  BY <1>1, CurrentIsFirst DEF Waits
<1>3. /\ bookings' = [bookings EXCEPT ![b] =
            [slot |-> SlotOf(f), client |-> ClientOf[e], state |-> "active"]]
      /\ madeFor' = [madeFor EXCEPT ![b] = e]
      /\ excusedTwice' = IF Booked(e) /\ e \in filler[f].unknown THEN excusedTwice \cup {e}
                         ELSE excusedTwice
      /\ filler' = [g \in Fillers |->
           IF g = f THEN [filler[f] EXCEPT !.step = "convert", !.made = b]
           ELSE IF filler[g].todo = {} THEN filler[g]
           ELSE [filler[g] EXCEPT !.unknown = @ \cup {e}]]
  BY DEF CreateForEntry
<1> HIDE DEF e
<1>4. /\ filler' \in [Fillers -> FillerStates]
      /\ filler'[f].step = "convert" /\ filler'[f].made = b
      /\ filler'[f].unknown = filler[f].unknown
      /\ \A g \in Fillers :
           /\ filler'[g].from = filler[g].from /\ filler'[g].todo = filler[g].todo
           /\ filler'[g].passed = filler[g].passed /\ filler'[g].missed = filler[g].missed
           /\ g # f => filler'[g].step = filler[g].step /\ filler'[g].made = filler[g].made
           /\ g # f /\ filler[g].todo # {} => filler'[g].unknown = filler[g].unknown \cup {e}
           /\ g # f /\ filler[g].todo = {} => filler'[g] = filler[g]
  <2> DEFINE made == [filler[f] EXCEPT !.step = "convert", !.made = b]
             told(g) == [filler[g] EXCEPT !.unknown = @ \cup {e}]
             After(g) == IF g = f THEN made ELSE IF filler[g].todo = {} THEN filler[g] ELSE told(g)
  <2>1. filler' = [g \in Fillers |-> After(g)]
    BY <1>3
  <2>2. \A g \in Fillers : filler[g] \in FillerStates
    BY DEF WaitlistInv, WaitlistTypeOK
  <2>3. /\ made \in FillerStates /\ made.step = "convert" /\ made.made = b
        /\ made.from = filler[f].from /\ made.todo = filler[f].todo
        /\ made.passed = filler[f].passed /\ made.missed = filler[f].missed
        /\ made.unknown = filler[f].unknown
    BY <2>2 DEF FillerStates, FillSteps
  <2>4. ASSUME NEW g \in Fillers
        PROVE  /\ told(g) \in FillerStates /\ told(g).step = filler[g].step
               /\ told(g).made = filler[g].made
               /\ told(g).from = filler[g].from /\ told(g).todo = filler[g].todo
               /\ told(g).passed = filler[g].passed /\ told(g).missed = filler[g].missed
               /\ told(g).unknown = filler[g].unknown \cup {e}
    <3>1. filler[g] \in FillerStates
      BY <2>2
    <3> QED BY <1>2, <3>1 DEF FillerStates
  <2> HIDE DEF made, told
  <2>5. \A g \in Fillers : After(g) \in FillerStates
    BY <2>2, <2>3, <2>4
  <2>6. filler' \in [Fillers -> FillerStates] /\ \A g \in Fillers : filler'[g] = After(g)
    <3> HIDE DEF After
    <3> QED BY <2>1, <2>5
  <2> QED BY <2>3, <2>4, <2>6
<1>5. filler[f].from \in Bookings /\ filler[f].from # b /\ SlotOf(f) \in WaitSlots \cup {NoWaitSlot}
  BY <1>1, TakenKeeps DEF WaitlistInv, Filling, SlotOf, WaitlistTypeOK, BookingDocs
<1>7. \A d \in Bookings : /\ madeFor'[d] = IF d = b THEN e ELSE madeFor[d]
                          /\ d # b => bookings'[d] = bookings[d]
  BY <1>3 DEF WaitlistInv, WaitlistTypeOK
<1>8. bookings'[b].state = "active" /\ madeFor[b] = 0
  BY <1>1, <1>3, TakenKeeps DEF WaitlistInv, WaitlistTypeOK
<1>9. WaitlistTypeOK'
  BY <1>1, <1>2, <1>3, <1>4, <1>5, WaitlistAssumption
  DEF WaitlistInv, WaitlistTypeOK, BookingDocs, Entries
<1>10. Filling'
  <2> SUFFICES ASSUME NEW g \in Fillers
               PROVE  /\ filler'[g].step # "idle" => filler'[g].from \in Bookings
                                             /\ bookings'[filler'[g].from].state # "none"
                      /\ filler'[g].todo # {} <=> Waits(g)'
                      /\ filler'[g].step = "convert" =>
                           filler'[g].made \in Bookings
                           /\ madeFor'[filler'[g].made] = FirstOf(filler'[g].todo)
                      /\ \A x \in filler'[g].todo : entries[x].status # "none"
    BY <1>1 DEF Filling, Current
  <2>1. CASE g = f
    BY <1>1, <1>2, <1>4, <1>5, <1>7, <2>1 DEF WaitlistInv, Filling, Waits, Current, e
  <2>2. CASE g # f
    BY <1>1, <1>4, <1>7, <1>8, <2>2, TakenKeeps DEF WaitlistInv, Filling, Waits, Current
  <2> QED BY <2>1, <2>2
<1>11. MadeIsTaken'
  BY <1>1, <1>2, <1>7, <1>8 DEF WaitlistInv, MadeIsTaken, Filling
<1>12. \A x \in Entries : Booked(x)' => Booked(x) \/ x = e
  BY <1>7 DEF Booked
<1>13. Known'
  <2> SUFFICES ASSUME NEW g \in Fillers, NEW x \in filler'[g].todo \ filler'[g].unknown, Booked(x)'
               PROVE  x \in excusedTwice \/ (filler'[g].step = "convert"
                                             /\ FirstOf(filler'[g].todo) = x)
    BY <1>3 DEF Known, Current
  <2>0. x \in Entries
    BY <1>4 DEF FillerStates
  <2>1. CASE g = f
    BY <1>1, <1>4, <1>12, <2>0, <2>1 DEF WaitlistInv, Known, Current, e
  <2>2. CASE g # f
    BY <1>4, <1>12, <2>0, <2>2 DEF WaitlistInv, Known, Current
  <2> QED BY <2>1, <2>2
<1>14. Marked'
  <2> SUFFICES ASSUME NEW x \in Entries, Booked(x)', entries[x].status = "active",
                      x \notin excusedTwice'
               PROVE  \E g \in Fillers : filler'[g].step = "convert" /\ x = madeFor'[filler'[g].made]
    BY <1>1 DEF Marked, Converting
  <2>1. CASE x = e
    BY <1>4, <1>7, <2>1
  <2>2. CASE x # e
    <3>1. PICK g \in Fillers : filler[g].step = "convert" /\ x = madeFor[filler[g].made]
      BY <1>3, <1>12, <2>2 DEF WaitlistInv, Marked, Converting
    <3>2. g # f /\ filler[g].made \in Bookings /\ filler[g].made # b
      BY <1>1, <3>1, TakenKeeps DEF WaitlistInv, Filling
    <3> QED BY <1>4, <1>7, <3>1, <3>2
  <2> QED BY <2>1, <2>2
<1>15. InOrder'
  <2>1. \A g \in Fillers : Waits(g)' => Waits(g) /\ SlotOf(g)' = SlotOf(g)
    BY <1>1, <1>4, <1>7, TakenKeeps DEF Waits, SlotOf, WaitlistInv, Filling
  <2> QED BY <1>1, <1>4, <2>1 DEF WaitlistInv, InOrder
<1>16. BookedTwiceIsExplained'
  <2>1. Booked(e) => e \in excusedTwice'
    BY <1>1, <1>2, <1>3 DEF WaitlistInv, Known
  <2>2. \A d \in Bookings : d # b /\ madeFor[d] = e => e \in excusedTwice'
    BY <2>1 DEF Booked
  <2> QED BY <1>3, <1>7, <2>2 DEF WaitlistInv, BookedTwiceIsExplained
<1>17. ConversionIsTrue'
  BY <1>1, <1>7, TakenKeeps, WaitlistAssumption
  DEF WaitlistInv, ConversionIsTrue, WaitlistTypeOK, EntryDocs
<1> QED BY <1>9, <1>10, <1>11, <1>13, <1>14, <1>15, <1>16, <1>17 DEF WaitlistInv

LEMMA ConvertKeeps ==
  ASSUME WaitlistInv, NEW f \in Fillers, Convert(f)
  PROVE  WaitlistInv'
<1> DEFINE e == Current(f)
<1>1. filler[f].step = "convert" /\ UNCHANGED <<bookings, madeFor, excusedTwice>>
      /\ filler' = [filler EXCEPT ![f] = NoFill]
  BY DEF Convert, FillEnds
<1>2. e \in Entries /\ filler[f].made \in Bookings /\ madeFor[filler[f].made] = e
      /\ entries[e].status # "none"
  BY <1>1, CurrentIsFirst DEF Waits, WaitlistInv, Filling
<1>3. filler'[f] = NoFill /\ \A g \in Fillers : g # f => filler'[g] = filler[g]
  BY <1>1 DEF WaitlistInv, WaitlistTypeOK
<1>4. entries' = IF entries[e].status = "active"
        THEN [entries EXCEPT ![e] = [status |-> "closed", converted |-> filler[f].made]]
        ELSE entries
  BY DEF Convert
<1> HIDE DEF e
<1>5. entries' \in [Entries -> EntryDocs]
  BY <1>2, <1>4 DEF WaitlistInv, WaitlistTypeOK, EntryDocs, EntryStatuses
<1>6. /\ \A x \in Entries : x # e => entries'[x] = entries[x]
      /\ entries'[e].status # "active"
      /\ entries'[e].converted = filler[f].made \/ entries'[e] = entries[e]
      /\ \A x \in Entries : entries[x].status # "none" => entries'[x].status # "none"
  BY <1>2, <1>4 DEF WaitlistInv, WaitlistTypeOK
<1>7. WaitlistTypeOK'
  BY <1>1, <1>5, NoFillTyped DEF WaitlistInv, WaitlistTypeOK
<1>8. \A g \in Fillers : filler[g].todo \subseteq Entries
  BY DEF WaitlistInv, WaitlistTypeOK, FillerStates
<1>9. Filling'
  BY <1>1, <1>3, <1>6, <1>8, NoFillTyped DEF WaitlistInv, Filling, Waits, Current
<1>10. MadeIsTaken'
  BY <1>1, <1>6, WaitlistAssumption DEF WaitlistInv, MadeIsTaken, WaitlistTypeOK, Entries
<1>11. Known'
  BY <1>1, <1>3, NoFillTyped DEF WaitlistInv, Known, Booked, Current
<1>12. Marked'
  <2> SUFFICES ASSUME NEW x \in Entries, Booked(x), entries'[x].status = "active",
                      x \notin excusedTwice
               PROVE  x \in Converting'
    BY <1>1 DEF Marked, Booked
  <2>1. PICK g \in Fillers : filler[g].step = "convert" /\ x = madeFor[filler[g].made]
    BY <1>6 DEF WaitlistInv, Marked, Converting
  <2>2. g # f
    BY <1>2, <1>6, <2>1
  <2> QED BY <1>1, <1>3, <2>1, <2>2 DEF Converting
<1>13. InOrder'
  BY <1>1, <1>3, <1>6, NoFillTyped DEF WaitlistInv, InOrder, Waits, SlotOf
<1>14. BookedTwiceIsExplained' /\ ConversionIsTrue'
  BY <1>1, <1>2, <1>6 DEF WaitlistInv, BookedTwiceIsExplained, ConversionIsTrue
<1> QED BY <1>7, <1>9, <1>10, <1>11, <1>12, <1>13, <1>14 DEF WaitlistInv

LEMMA WaitlistSteps == WaitlistInv /\ [WaitlistNext]_waitlistVars => WaitlistInv'
<1> SUFFICES ASSUME WaitlistInv, [WaitlistNext]_waitlistVars PROVE WaitlistInv'
  OBVIOUS
<1>1. ASSUME NEW e \in Entries, Join(e) PROVE WaitlistInv'
  BY <1>1, JoinKeeps
<1>2. ASSUME NEW e \in Entries, NEW status \in EntryStatuses \ {"none"}, StaffSets(e, status)
      PROVE  WaitlistInv'
  BY <1>2, StaffKeeps
<1>3. ASSUME NEW b \in Bookings, NEW s \in WaitSlots, NEW c \in Bookers, BookFreeSlot(b, s, c)
      PROVE  WaitlistInv'
  BY <1>3, BookEntryKeeps
<1>4. ASSUME NEW f \in Fillers, Fill(f) PROVE WaitlistInv'
  <2>1. CASE ReadCandidates(f)
    BY <2>1, ReadKeeps
  <2>2. CASE CheckClient(f)
    <3> DEFINE r == [filler[f] EXCEPT !.step = "conflict"]
               q == [filler[f] EXCEPT !.todo = @ \ {Current(f)}, !.passed = @ \cup {Current(f)}]
    <3>1. filler[f].step = "client" /\ UNCHANGED <<entries, bookings, madeFor, excusedTwice>>
      BY <2>2 DEF CheckClient
    <3>2. filler[f] \in FillerStates /\ filler[f].todo # {} /\ Current(f) \in Entries
      BY <3>1, CurrentIsFirst DEF WaitlistInv, WaitlistTypeOK, Filling, Waits
    <3>3. r \in FillerStates /\ q \in FillerStates
      BY <3>2 DEF FillerStates, FillSteps
    <3>4. CASE FillGoes(f, "conflict")
      <4>1. filler' = [filler EXCEPT ![f] = r]
        BY <3>4 DEF FillGoes
      <4> QED BY <3>1, <3>2, <3>3, <4>1, GoOnKeeps DEF FillerStates
    <3>5. CASE FillEnds(f)
      BY <3>1, <3>5, EndKeeps DEF WaitlistInv, WaitlistTypeOK
    <3>6. CASE filler[f].todo # {Current(f)} /\ filler' = [filler EXCEPT ![f] = q]
      <4>1. q.todo # {} /\ q.todo \subseteq filler[f].todo /\ q.step = "client"
            /\ filler[f].todo \cup filler[f].passed \subseteq q.todo \cup q.passed
            /\ q.from = filler[f].from /\ q.unknown = filler[f].unknown
            /\ q.missed = filler[f].missed
        BY <3>1, <3>2, <3>6, CurrentIsFirst DEF FillerStates
      <4> HIDE DEF q
      <4> QED BY <3>1, <3>3, <3>6, <4>1, GoOnKeeps
    <3>7. \/ FillGoes(f, "conflict")
          \/ FillEnds(f)
          \/ filler[f].todo # {Current(f)} /\ filler' = [filler EXCEPT ![f] = q]
      BY <2>2, <3>2 DEF CheckClient, WaitlistInv, WaitlistTypeOK, FillerStates
    <3> QED BY <3>4, <3>5, <3>6, <3>7
  <2>3. CASE CheckConflict(f)
    <3> DEFINE r == [filler[f] EXCEPT !.step = "create"]
    <3>1. filler[f].step = "conflict" /\ UNCHANGED <<entries, bookings, madeFor, excusedTwice>>
      BY <2>3 DEF CheckConflict
    <3>2. filler[f] \in FillerStates /\ filler[f].todo # {}
      BY <3>1 DEF WaitlistInv, WaitlistTypeOK, Filling, Waits
    <3>3. CASE FillGoes(f, "create")
      <4>1. filler' = [filler EXCEPT ![f] = r] /\ r \in FillerStates
        BY <3>2, <3>3 DEF FillGoes, FillerStates, FillSteps
      <4> QED BY <3>1, <3>2, <4>1, GoOnKeeps DEF FillerStates
    <3>4. CASE FillEnds(f)
      BY <3>1, <3>4, EndKeeps DEF WaitlistInv, WaitlistTypeOK
    <3> QED BY <2>3, <3>3, <3>4 DEF CheckConflict
  <2>4. CASE Convert(f)
    BY <2>4, ConvertKeeps
  <2>5. CASE FillFails(f)
    <3>1. filler[f].step = "convert" => Current(f) \in Entries
      BY CurrentIsFirst DEF Waits
    <3> QED BY <2>5, <3>1, EndKeeps DEF FillFails, WaitlistInv, WaitlistTypeOK
  <2>6. ASSUME NEW b \in Bookings, CancelAndFill(f, b) PROVE WaitlistInv'
    BY <2>6, CancelKeeps
  <2>7. ASSUME NEW b \in Bookings, CreateForEntry(f, b) PROVE WaitlistInv'
    BY <2>7, CreateKeeps
  <2> QED BY <1>4, <2>1, <2>2, <2>3, <2>4, <2>5, <2>6, <2>7 DEF Fill
<1>5. CASE UNCHANGED waitlistVars
  BY <1>5 DEF waitlistVars, WaitlistInv, WaitlistTypeOK, Filling, MadeIsTaken, Known, Marked, InOrder,
     BookedTwiceIsExplained, ConversionIsTrue, Waits, Current, Booked, Converting, SlotOf
<1> QED BY <1>1, <1>2, <1>3, <1>4, <1>5 DEF WaitlistNext

\* Entries, appointments and fillers have their types in every reachable state.
THEOREM WaitlistTypes == WaitlistSpec => []WaitlistTypeOK
<1>1. WaitlistInv => WaitlistTypeOK
  BY DEF WaitlistInv
<1> QED BY <1>1, WaitlistStarts, WaitlistSteps, PTL DEF WaitlistSpec

\* Whatever the number of fillers and whatever staff do meanwhile, an entry is
\* turned into one appointment, its own, but for the excuses that are named.
THEOREM EntriesAreBookedOnce == WaitlistSpec => []BookingsAreTheirs
<1>1. WaitlistInv => BookingsAreTheirs
  BY DEF WaitlistInv, BookingsAreTheirs
<1> QED BY <1>1, WaitlistStarts, WaitlistSteps, PTL DEF WaitlistSpec

\* No filler books an entry while a better one, which it had on its list, was
\* not found busy.
THEOREM QueueIsKept == WaitlistSpec => NobodyIsOvertaken
<1> DEFINE Kept(f) == filler[f].step = "create" /\ filler'[f].step = "convert" =>
             \A e \in Entries :
               entries[e].status = "active" /\ SlotOf(f) \in Suits[e] /\ e < Current(f)
                 => e \in filler[f].passed \cup filler[f].missed
<1>1. ASSUME WaitlistInv, NEW f \in Fillers PROVE Kept(f)
  <2> SUFFICES ASSUME filler[f].step = "create", NEW e \in Entries,
                      entries[e].status = "active", SlotOf(f) \in Suits[e], e < Current(f)
               PROVE  e \in filler[f].passed \cup filler[f].missed
    OBVIOUS
  <2>1. Current(f) \in Entries /\ \A x \in filler[f].todo : Current(f) <= x
    BY CurrentIsFirst, <1>1 DEF Waits
  <2>2. e \notin filler[f].todo
    BY <2>1, WaitlistAssumption DEF Entries
  <2> QED BY <1>1, <2>2 DEF WaitlistInv, InOrder, Waits
<1>2. WaitlistInv => [\A f \in Fillers : Kept(f)]_waitlistVars
  BY <1>1
<1> QED BY <1>2, WaitlistStarts, WaitlistSteps, PTL DEF WaitlistSpec, NobodyIsOvertaken
=============================================================================
