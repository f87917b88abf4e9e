---------------------------- MODULE BookingProofs ----------------------------
(***************************************************************************)
(* What the conflict query is worth, and what confirms an appointment, for *)
(* any number of requests, appointments, slots and Stripe sessions.        *)
(*                                                                         *)
(* OverlapIsExplained is not inductive: it needs to know that a handler    *)
(* which has passed its conflict query has noted every appointment that    *)
(* arrived in its slot since (Covered).  ConfirmedIsPaidOrVouched needs to *)
(* know that a session id found in a document, in an event or in a stale   *)
(* copy belongs to that appointment (Payments).                            *)
(***************************************************************************)
EXTENDS Booking, TLAPS

InFlight == {"book", "checked move"}

\* What each step of a handler has read.
Fits(r) ==
  /\ r.appt = NoAppt <=> r.step \in {"idle", "book"}
  /\ r.step \in {"book", "fill check", "checked move", "unchecked move"} => r.slot \in Slots
  /\ r.step = "confirm" => r.session \in Sessions

Types ==
  /\ TypeOK
  /\ \A h \in Handlers : Fits(proc[h])
  /\ \A x \in Sessions : sessions[x].appt = NoAppt <=> sessions[x].state = "none"
  /\ \A e \in events : sessions[e[1]].state # "none"

\* r's conflict query is out of date only by what r has noted.
Covered(r) ==
  r.step \in InFlight =>
    \A b \in Appts : Active(appts[b]) /\ appts[b].slot = r.slot /\ b # r.appt => b \in r.unseen

Overlaps == OverlapIsExplained /\ \A h \in Handlers : Covered(proc[h])

Payments ==
  /\ ConfirmedIsPaidOrVouched
  /\ \A x \in Sessions : <<x, "paid">> \in events => sessions[x].state = "paid"
  /\ \A a \in Appts, x \in Sessions : appts[a].session = x => sessions[x].appt = a
  /\ \A h \in Handlers : At(h, "confirm") => sessions[proc[h].session].appt = proc[h].appt

IInv == Types /\ Overlaps /\ Payments

-----------------------------------------------------------------------------
(* Kinds of steps                                                          *)

\* A handler reads: only its own state changes.
LEMMA ReadKeeps ==
  ASSUME IInv, NEW h \in Handlers, NEW r \in Procs, Then(h, r),
         UNCHANGED <<appts, sessions, events, excused, vouched>>,
         Fits(r), Covered(r),
         r.step = "confirm" => sessions[r.session].appt = r.appt
  PROVE  IInv'
<1>1. proc' \in [Handlers -> Procs] /\ \A g \in Handlers : proc'[g] = IF g = h THEN r ELSE proc[g]
  BY DEF Then, IInv, Types, TypeOK
<1>2. Types'
  BY <1>1 DEF IInv, Types, TypeOK, Fits
<1>3. Overlaps'
  BY <1>1 DEF IInv, Overlaps, Covered, OverlapIsExplained, InFlight
<1>4. Payments'
  <2>1. ConfirmedIsPaidOrVouched'
    BY DEF IInv, Payments, ConfirmedIsPaidOrVouched, Paid
  <2>2. \A g \in Handlers : At(g, "confirm")' => sessions'[proc'[g].session].appt = proc'[g].appt
    BY <1>1 DEF IInv, Payments, At
  <2>3. /\ \A x \in Sessions : <<x, "paid">> \in events' => sessions'[x].state = "paid"
        /\ \A a \in Appts, x \in Sessions : appts'[a].session = x => sessions'[x].appt = a
    BY DEF IInv, Payments
  <2> QED BY <2>1, <2>2, <2>3 DEF Payments
<1> QED BY <1>2, <1>3, <1>4 DEF IInv

\* No appointment begins to occupy a slot.
LEMMA ShrinkKeeps ==
  ASSUME Overlaps, UNCHANGED excused,
         \A a \in Appts : Active(appts'[a]) => Active(appts[a]) /\ appts'[a].slot = appts[a].slot,
         \A h \in Handlers : proc'[h] = proc[h] \/ proc'[h].step \notin InFlight
  PROVE  Overlaps'
  BY DEF Overlaps, Covered, OverlapIsExplained

LEMMA WaitingType ==
  ASSUME NEW step \in Steps, NEW a \in Appts \cup {NoAppt}, NEW s \in Slots \cup {NoSlot},
         NEW x \in Sessions \cup {NoSession}
  PROVE  /\ Waiting(step, a, s, x) \in Procs
         /\ Waiting(step, a, s, x).step = step /\ Waiting(step, a, s, x).appt = a
         /\ Waiting(step, a, s, x).slot = s /\ Waiting(step, a, s, x).session = x
         /\ Waiting(step, a, s, x).unseen = {} /\ Waiting(step, a, s, x).kind = "reserve"
  BY DEF Waiting, Idle, Procs, Kinds

LEMMA IdleType == Idle \in Procs /\ Fits(Idle) /\ Idle.step = "idle"
  BY DEF Idle, Procs, Kinds, Steps, Fits

\* The effect of Put when it lets appointment a arrive, and when it does not.
LEMMA UnnoticedType ==
  ASSUME NEW p \in [Handlers -> Procs], NEW a \in Appts, NEW s
  PROVE  /\ Unnoticed(p, a, s) \in [Handlers -> Procs]
         /\ \A h \in Handlers :
              /\ Fits(p[h]) => Fits(Unnoticed(p, a, s)[h])
              /\ Unnoticed(p, a, s)[h].step = p[h].step
              /\ Unnoticed(p, a, s)[h].appt = p[h].appt
              /\ Unnoticed(p, a, s)[h].slot = p[h].slot
              /\ Unnoticed(p, a, s)[h].session = p[h].session
              /\ p[h].unseen \subseteq Unnoticed(p, a, s)[h].unseen
              /\ p[h].step \in InFlight /\ p[h].slot = s => a \in Unnoticed(p, a, s)[h].unseen
<1> SUFFICES ASSUME NEW h \in Handlers
    PROVE  LET q == Unnoticed(p, a, s)[h] IN
           /\ q \in Procs
           /\ q.step = p[h].step /\ q.appt = p[h].appt /\ q.slot = p[h].slot
           /\ q.session = p[h].session /\ p[h].unseen \subseteq q.unseen
           /\ p[h].step \in InFlight /\ p[h].slot = s => a \in q.unseen
  BY DEF Unnoticed, Fits
<1>1. p[h] \in Procs
  OBVIOUS
<1>2. CASE p[h].step \in InFlight /\ p[h].slot = s
  <2>1. Unnoticed(p, a, s)[h] = [p[h] EXCEPT !.unseen = p[h].unseen \cup {a}]
    BY <1>2 DEF Unnoticed, InFlight
  <2> QED BY <1>1, <1>2, <2>1 DEF Procs
<1>3. CASE ~(p[h].step \in InFlight /\ p[h].slot = s)
  BY <1>1, <1>3 DEF Unnoticed, InFlight
<1> QED BY <1>2, <1>3

\* A document is written: the query of an arriving appointment has noted what
\* it may overlap (unseen), and a confirmed one is paid or vouched for.
LEMMA PutKeeps ==
  ASSUME IInv, NEW a \in Appts, NEW doc \in Docs, NEW unseen \in SUBSET Appts,
         NEW p \in [Handlers -> Procs], Put(a, doc, unseen, p),
         doc.slot \in Slots, doc.status # "none",
         UNCHANGED sessions, events' \subseteq events,
         vouched' \in SUBSET Appts, \A b \in Appts \ {a} : b \in vouched => b \in vouched',
         \A h \in Handlers :
           p[h] = proc[h] \/ (Fits(p[h]) /\ p[h].step \notin InFlight \cup {"confirm"}),
         Active(doc) /\ ~(Active(appts[a]) /\ appts[a].slot = doc.slot) =>
           Occupants(doc.slot) \ {a} \subseteq unseen,
         doc.status = "confirmed" => a \in vouched' \/ Paid(a),
         \A x \in Sessions : doc.session = x => sessions[x].appt = a
  PROVE  IInv'
<1> DEFINE arrives == Active(doc) /\ ~(Active(appts[a]) /\ appts[a].slot = doc.slot)
<1>1. /\ appts' \in [Appts -> Docs]
      /\ \A b \in Appts : appts'[b] = IF b = a THEN doc ELSE appts[b]
  BY DEF Put, IInv, Types, TypeOK
<1>2. /\ arrives => /\ excused' = {e \in excused : a \notin e} \cup {{a, b} : b \in unseen}
                    /\ proc' = Unnoticed(p, a, doc.slot)
      /\ ~arrives => excused' = excused /\ proc' = p
  BY DEF Put
<1> HIDE DEF arrives
<1>3. proc' \in [Handlers -> Procs]
  BY <1>2, UnnoticedType
<1>4. \A h \in Handlers :
        /\ p[h].step = proc'[h].step /\ p[h].appt = proc'[h].appt
        /\ p[h].slot = proc'[h].slot /\ p[h].session = proc'[h].session
        /\ p[h].unseen \subseteq proc'[h].unseen
        /\ (arrives /\ p[h].step \in InFlight /\ p[h].slot = doc.slot) => a \in proc'[h].unseen
        /\ Fits(proc'[h])
  <2>1. \A h \in Handlers : Fits(p[h])
    BY DEF IInv, Types
  <2>2. CASE arrives
    BY <1>2, <2>1, <2>2, UnnoticedType
  <2>3. CASE ~arrives
    BY <1>2, <2>1, <2>3
  <2> QED BY <2>2, <2>3
<1>5. Types'
  <2>1. excused' \in SUBSET SUBSET Appts
    BY <1>2 DEF IInv, Types, TypeOK
  <2>2. \A b \in Appts : appts'[b].slot \in Slots <=> appts'[b].status # "none"
    BY <1>1 DEF IInv, Types, TypeOK
  <2>3. events' \in SUBSET (Sessions \X {"paid", "failed"})
    BY DEF IInv, Types, TypeOK
  <2>4. TypeOK'
    BY <1>1, <1>3, <2>1, <2>2, <2>3 DEF IInv, Types, TypeOK
  <2> QED BY <1>4, <2>4 DEF IInv, Types
<1>6. OverlapIsExplained'
  <2> SUFFICES ASSUME NEW b \in Appts, NEW c \in Appts, b # c,
                      Active(appts'[b]), Active(appts'[c]), appts'[b].slot = appts'[c].slot
               PROVE  {b, c} \in excused'
    BY DEF OverlapIsExplained, Active
  <2>1. CASE ~arrives
    <3>1. Active(appts[b]) /\ Active(appts[c]) /\ appts[b].slot = appts[c].slot
      BY <1>1, <2>1 DEF arrives
    <3> QED BY <1>2, <2>1, <3>1 DEF IInv, Overlaps, OverlapIsExplained
  <2>2. CASE arrives /\ b # a /\ c # a
    <3>1. {b, c} \in excused
      BY <1>1, <2>2 DEF IInv, Overlaps, OverlapIsExplained
    <3> QED BY <1>2, <2>2, <3>1
  <2>3. ASSUME arrives, NEW d \in Appts \ {a}, Active(appts'[d]), appts'[d].slot = doc.slot
        PROVE  {a, d} \in excused'
    <3>1. d \in Occupants(doc.slot)
      BY <1>1, <2>3 DEF Occupants
    <3>2. d \in unseen
      BY <2>3, <3>1 DEF arrives
    <3> QED BY <1>2, <2>3, <3>2
  <2>4. CASE arrives /\ b = a
    BY <1>1, <2>3, <2>4
  <2>5. CASE arrives /\ c = a
    <3>1. {a, b} \in excused'
      BY <1>1, <2>3, <2>5
    <3>2. {a, b} = {b, c}
      BY <2>5
    <3> QED BY <3>1, <3>2
  <2> QED BY <2>1, <2>2, <2>4, <2>5
<1>7. ASSUME NEW h \in Handlers
      PROVE  Covered(proc[h])'
  <2> SUFFICES ASSUME proc'[h].step \in InFlight, NEW b \in Appts, Active(appts'[b]),
                      appts'[b].slot = proc'[h].slot, b # proc'[h].appt
               PROVE  b \in proc'[h].unseen
    BY DEF Covered, Active
  <2>1. p[h] = proc[h]
    BY <1>4
  <2>2. CASE Active(appts[b]) /\ appts[b].slot = proc[h].slot
    BY <1>4, <2>1, <2>2 DEF IInv, Overlaps, Covered
  <2>3. CASE ~(Active(appts[b]) /\ appts[b].slot = proc[h].slot)
    <3>1. b = a /\ doc.slot = proc[h].slot
      BY <1>1, <1>4, <2>1, <2>3
    <3>2. arrives
      BY <1>1, <2>3, <3>1 DEF arrives
    <3> QED BY <1>4, <2>1, <3>1, <3>2
  <2> QED BY <2>2, <2>3
<1>8. Payments'
  <2>1. ConfirmedIsPaidOrVouched'
    <3> SUFFICES ASSUME NEW b \in Appts, appts'[b].status = "confirmed"
                 PROVE  b \in vouched' \/ Paid(b)'
      BY DEF ConfirmedIsPaidOrVouched, Paid
    <3>1. Paid(b)' <=> Paid(b)
      BY DEF Paid
    <3>2. CASE b = a
      BY <1>1, <3>1, <3>2
    <3>3. CASE b # a
      BY <1>1, <3>1, <3>3 DEF IInv, Payments, ConfirmedIsPaidOrVouched
    <3> QED BY <3>2, <3>3
  <2>2. \A h \in Handlers : At(h, "confirm")' => sessions'[proc'[h].session].appt = proc'[h].appt
    BY <1>4 DEF IInv, Payments, At
  <2>3. \A x \in Sessions : <<x, "paid">> \in events' => sessions'[x].state = "paid"
    BY DEF IInv, Payments
  <2>4. \A b \in Appts, x \in Sessions : appts'[b].session = x => sessions'[x].appt = b
    BY <1>1 DEF IInv, Payments
  <2> QED BY <2>1, <2>2, <2>3, <2>4 DEF Payments
<1> QED BY <1>5, <1>6, <1>7, <1>8 DEF IInv, Overlaps

\* Nothing arrives in a slot and nothing becomes confirmed; Stripe goes on.
LEMMA LeaveKeeps ==
  ASSUME IInv, UNCHANGED <<excused, vouched>>,
         appts' \in [Appts -> Docs],
         \A a \in Appts : appts'[a].slot \in Slots <=> appts'[a].status # "none",
         \A a \in Appts : Active(appts'[a]) => Active(appts[a]) /\ appts'[a].slot = appts[a].slot,
         \A a \in Appts : appts'[a].status = "confirmed" => appts[a].status = "confirmed",
         \A a \in Appts, x \in Sessions : appts'[a].session = x => sessions'[x].appt = a,
         proc' \in [Handlers -> Procs],
         \A h \in Handlers :
           proc'[h] = proc[h] \/ (Fits(proc'[h]) /\ proc'[h].step \notin InFlight \cup {"confirm"}),
         sessions' \in [Sessions -> [appt : Appts \cup {NoAppt},
                                     state : {"none", "open", "paid", "expired"}]],
         \A x \in Sessions : sessions'[x].appt = NoAppt <=> sessions'[x].state = "none",
         \A x \in Sessions : sessions[x].state # "none" => sessions'[x].appt = sessions[x].appt,
         \A x \in Sessions : sessions[x].state = "paid" => sessions'[x].state = "paid",
         events' \in SUBSET (Sessions \X {"paid", "failed"}),
         \A e \in events' : sessions'[e[1]].state # "none",
         \A x \in Sessions : <<x, "paid">> \in events' => sessions'[x].state = "paid"
  PROVE  IInv'
<1>1. Types'
  <2>1. TypeOK'
    BY DEF IInv, Types, TypeOK
  <2>2. \A h \in Handlers : Fits(proc[h])'
    <3> SUFFICES ASSUME NEW h \in Handlers PROVE Fits(proc'[h])
      BY DEF Fits
    <3>1. Fits(proc[h])
      BY DEF IInv, Types
    <3> QED BY <3>1
  <2> QED BY <2>1, <2>2 DEF Types
<1>2. Overlaps'
  BY ShrinkKeeps DEF IInv
<1>3. ConfirmedIsPaidOrVouched'
  <2> SUFFICES ASSUME NEW a \in Appts, appts'[a].status = "confirmed"
               PROVE  a \in vouched' \/ Paid(a)'
    BY DEF ConfirmedIsPaidOrVouched, Paid
  <2>1. a \in vouched \/ Paid(a)
    BY DEF IInv, Payments, ConfirmedIsPaidOrVouched
  <2>2. ASSUME NEW x \in Sessions, sessions[x].appt = a, sessions[x].state = "paid"
        PROVE  sessions'[x].appt = a /\ sessions'[x].state = "paid"
    BY <2>2
  <2> QED BY <2>1, <2>2 DEF Paid
<1>4. ASSUME NEW h \in Handlers, At(h, "confirm")'
      PROVE  sessions'[proc'[h].session].appt = proc'[h].appt
  <2>1. proc'[h] = proc[h] /\ At(h, "confirm")
    BY <1>4 DEF At
  <2>2. proc[h].session \in Sessions /\ proc[h].appt # NoAppt
    BY <2>1 DEF IInv, Types, Fits, At
  <2>3. sessions[proc[h].session].appt = proc[h].appt
    BY <2>1 DEF IInv, Payments
  <2> QED BY <2>1, <2>2, <2>3 DEF IInv, Types
<1> QED BY <1>1, <1>2, <1>3, <1>4 DEF IInv, Payments

\* A handler gives up, and a handler stops to wait with nothing but an id.
LEMMA EndKeeps ==
  ASSUME IInv, NEW h \in Handlers, End(h),
         UNCHANGED <<appts, sessions, events, excused, vouched>>
  PROVE  IInv'
<1>1. Then(h, Idle) /\ Covered(Idle)
  BY IdleType DEF End, Covered, InFlight
<1> QED BY <1>1, IdleType, ReadKeeps

LEMMA WaitKeeps ==
  ASSUME IInv, NEW h \in Handlers, NEW a \in Appts,
         NEW step \in {"abandon", "cancel", "user cancel", "fill", "erase"},
         Then(h, Waiting(step, a, NoSlot, NoSession)),
         UNCHANGED <<appts, sessions, events, excused, vouched>>
  PROVE  IInv'
<1> DEFINE r == Waiting(step, a, NoSlot, NoSession)
<1>1. r \in Procs /\ r.step = step /\ r.appt = a
  BY DEF Waiting, Idle, Procs, Steps, Kinds
<1>2. Fits(r) /\ Covered(r)
  BY <1>1, ConstantsAssumption DEF Fits, Covered, InFlight
<1> HIDE DEF r
<1> QED BY <1>1, <1>2, ReadKeeps DEF r

\* A handler that waits, but not between its query and its first write, has
\* read an appointment.
LEMMA HasAppt ==
  ASSUME IInv, NEW h \in Handlers, proc[h].step \notin {"idle", "book"}
  PROVE  proc[h] \in Procs /\ proc[h].appt \in Appts
BY DEF IInv, Types, TypeOK, Fits, Procs

LEMMA SetStatusKeeps ==
  ASSUME IInv, NEW a \in Appts, NEW status \in Statuses, NEW x \in Sessions \cup {NoSession},
         NEW p \in [Handlers -> Procs], Exists(a), SetStatus(a, status, x, p),
         UNCHANGED sessions, events' \subseteq events,
         vouched' \in SUBSET Appts, \A b \in Appts \ {a} : b \in vouched => b \in vouched',
         \A h \in Handlers :
           p[h] = proc[h] \/ (Fits(p[h]) /\ p[h].step \notin InFlight \cup {"confirm"}),
         status = "confirmed" => a \in vouched' \/ Paid(a),
         x \in Sessions => sessions[x].appt = a
  PROVE  IInv'
<1> DEFINE doc == [appts[a] EXCEPT !.status = status, !.session = x]
<1>1. appts[a] \in Docs /\ appts[a].slot \in Slots
  BY DEF IInv, Types, TypeOK, Exists
<1>2. /\ doc \in Docs /\ doc.slot = appts[a].slot
      /\ doc.status = status /\ doc.session = x /\ status # "none"
  BY <1>1 DEF Docs, Statuses
<1>3. Put(a, doc, Occupants(doc.slot), p)
  BY <1>2 DEF SetStatus
<1>4. Occupants(doc.slot) \in SUBSET Appts
  BY DEF Occupants
<1> HIDE DEF doc
<1> QED BY <1>1, <1>2, <1>3, <1>4, PutKeeps

-----------------------------------------------------------------------------
(* Booking and confirming                                                  *)

LEMMA BookKeeps ==
  ASSUME IInv, NEW h \in Handlers, Book(h)
  PROVE  IInv'
<1> USE ConstantsAssumption
<1>1. ASSUME NEW k \in Kinds, NEW s \in Slots, Check(h, k, s)
      PROVE  IInv'
  <2> DEFINE r == [Waiting("book", NoAppt, s, NoSession) EXCEPT !.kind = k]
  <2>1. /\ r \in Procs /\ r.step = "book" /\ r.appt = NoAppt /\ r.slot = s
    BY DEF Waiting, Idle, Procs, Steps
  <2>2. Fits(r)
    BY <2>1 DEF Fits
  <2>3. Covered(r)
    BY <1>1, <2>1 DEF Check, Covered, Occupants
  <2>4. Then(h, r) /\ UNCHANGED <<appts, sessions, events, excused, vouched>>
    BY <1>1 DEF Check
  <2> HIDE DEF r
  <2> QED BY <2>1, <2>2, <2>3, <2>4, ReadKeeps
<1>2. ASSUME NEW a \in Appts, Create(h, a)
      PROVE  IInv'
  <2> DEFINE r   == proc[h]
             doc == [status |-> IF r.kind = "salon" THEN "confirmed" ELSE "reserved_unpaid",
                     slot |-> r.slot, age |-> 0, session |-> NoSession]
             q   == IF r.kind \in {"checkout", "deposit"}
                      THEN [Waiting("session", a, NoSlot, NoSession) EXCEPT !.kind = r.kind]
                      ELSE Idle
             p   == [proc EXCEPT ![h] = q]
  <2>1. r \in Procs /\ r.step = "book" /\ r.appt = NoAppt /\ r.slot \in Slots
    BY <1>2 DEF Create, At, IInv, Types, TypeOK, Fits
  <2>2. q \in Procs /\ Fits(q) /\ q.step \notin InFlight \cup {"confirm"}
    BY DEF Waiting, Idle, Procs, Steps, Kinds, Fits, InFlight
  <2>3. /\ p \in [Handlers -> Procs]
        /\ \A g \in Handlers :
             p[g] = proc[g] \/ (Fits(p[g]) /\ p[g].step \notin InFlight \cup {"confirm"})
    BY <2>2 DEF IInv, Types, TypeOK
  <2>4. doc \in Docs /\ doc.slot \in Slots /\ doc.status # "none" /\ doc.session = NoSession
    BY <2>1 DEF Docs, Statuses
  <2>5. r.unseen \in SUBSET Appts /\ Occupants(doc.slot) \ {a} \subseteq r.unseen
    BY <2>1 DEF IInv, Overlaps, Covered, Occupants, InFlight, Procs
  <2>6. /\ vouched' \in SUBSET Appts
        /\ \A b \in Appts \ {a} : b \in vouched => b \in vouched'
        /\ doc.status = "confirmed" => a \in vouched'
    BY <1>2 DEF Create, IInv, Types, TypeOK
  <2>7. Put(a, doc, r.unseen, p) /\ UNCHANGED sessions /\ events' \subseteq events
    BY <1>2 DEF Create
  <2> HIDE DEF doc, p, r
  <2> QED BY <2>3, <2>4, <2>5, <2>6, <2>7, PutKeeps
<1>3. ASSUME NEW a \in Appts, PayExisting(h, a)
      PROVE  IInv'
  <2> DEFINE r == [Waiting("session", a, NoSlot, NoSession) EXCEPT !.kind = "checkout"]
  <2>1. r \in Procs /\ Fits(r) /\ r.step = "session"
    BY DEF Waiting, Idle, Procs, Steps, Kinds, Fits
  <2>2. Covered(r)
    BY <2>1 DEF Covered, InFlight
  <2>3. Then(h, r) /\ UNCHANGED <<appts, sessions, events, excused, vouched>>
    BY <1>3 DEF PayExisting
  <2> HIDE DEF r
  <2> QED BY <2>1, <2>2, <2>3, ReadKeeps
<1>4. ASSUME NEW a \in Appts, ConfirmRead(h, a)
      PROVE  IInv'
  <2> DEFINE r == Waiting("confirm", a, NoSlot, appts[a].session)
  <2>1. appts[a].session \in Sessions
    BY <1>4 DEF ConfirmRead, IInv, Types, TypeOK, Docs
  <2>2. r \in Procs /\ Fits(r) /\ r.step = "confirm" /\ r.session = appts[a].session /\ r.appt = a
    BY <2>1 DEF Waiting, Idle, Procs, Steps, Kinds, Fits
  <2>3. Covered(r) /\ sessions[r.session].appt = r.appt
    BY <2>1, <2>2 DEF Covered, InFlight, IInv, Payments
  <2>4. Then(h, r) /\ UNCHANGED <<appts, sessions, events, excused, vouched>>
    BY <1>4 DEF ConfirmRead
  <2> HIDE DEF r
  <2> QED BY <2>2, <2>3, <2>4, ReadKeeps
<1>5. ASSUME NEW x \in Sessions, OpenSession(h, x)
      PROVE  IInv'
  <2>1. PICK a \in Appts : a = proc[h].appt
    BY <1>5 DEF OpenSession, At, IInv, Types, TypeOK, Fits, Procs
  <2>2. \A y \in Sessions : sessions'[y] = IF y = x THEN [appt |-> a, state |-> "open"] ELSE sessions[y]
    BY <1>5, <2>1 DEF OpenSession, IInv, Types, TypeOK
  <2> DEFINE doc == [appts[a] EXCEPT !.session = x]
  <2>3. appts \in [Appts -> Docs] /\ doc \in Docs
    BY <2>1 DEF IInv, Types, TypeOK, Docs
  <2>4. /\ appts' \in [Appts -> Docs]
        /\ \A b \in Appts : appts'[b] = appts[b] \/ (b = a /\ appts'[b] = doc)
    <3>1. CASE appts' = appts
      BY <2>3, <3>1
    <3>2. CASE appts' = [appts EXCEPT ![a] = doc]
      BY <2>3, <3>2
    <3> QED BY <1>5, <2>1, <3>1, <3>2 DEF OpenSession
  <2>5. doc.status = appts[a].status /\ doc.slot = appts[a].slot /\ doc.age = appts[a].age
        /\ doc.session = x
    BY <2>3 DEF Docs
  <2> HIDE DEF doc
  <2>6. /\ proc' \in [Handlers -> Procs]
        /\ \A g \in Handlers :
            proc'[g] = proc[g] \/ (Fits(proc'[g]) /\ proc'[g].step \notin InFlight \cup {"confirm"})
    BY <1>5, IdleType DEF OpenSession, End, Then, IInv, Types, TypeOK, InFlight
  <2>7. /\ UNCHANGED <<events, excused, vouched>> /\ sessions[x].state = "none"
        /\ sessions' = [sessions EXCEPT ![x] = [appt |-> a, state |-> "open"]]
    BY <1>5, <2>1 DEF OpenSession
  <2>8. \A b \in Appts, y \in Sessions : appts'[b].session = y => sessions'[y].appt = b
    <3> SUFFICES ASSUME NEW b \in Appts, NEW y \in Sessions, appts'[b].session = y
                 PROVE  sessions'[y].appt = b
      OBVIOUS
    <3>1. CASE appts'[b] = appts[b]
      <4>1. sessions[y].appt = b
        BY <3>1 DEF IInv, Payments
      <4>2. y # x
        BY <2>7, <4>1 DEF IInv, Types
      <4> QED BY <2>2, <4>1, <4>2
    <3>2. CASE b = a /\ appts'[b] = doc
      BY <2>2, <2>5, <3>2
    <3> QED BY <2>4, <3>1, <3>2
  <2>9. \A y \in Sessions :
          /\ sessions'[y].appt = NoAppt <=> sessions'[y].state = "none"
          /\ sessions[y].state # "none" => sessions'[y] = sessions[y]
    BY <2>1, <2>2, <2>7 DEF IInv, Types
  <2>10. /\ \A e \in events' : sessions'[e[1]].state # "none"
         /\ \A y \in Sessions : <<y, "paid">> \in events' => sessions'[y].state = "paid"
         /\ events' \in SUBSET (Sessions \X {"paid", "failed"})
    BY <2>7, <2>9 DEF IInv, Types, TypeOK, Payments
  <2>11. sessions' \in [Sessions -> [appt : Appts \cup {NoAppt},
                                     state : {"none", "open", "paid", "expired"}]]
    BY <2>1, <2>7 DEF IInv, Types, TypeOK
  <2>12. \A b \in Appts : appts'[b].slot \in Slots <=> appts'[b].status # "none"
    BY <2>4, <2>5 DEF IInv, Types, TypeOK
  <2>13. \A b \in Appts : Active(appts'[b]) => Active(appts[b]) /\ appts'[b].slot = appts[b].slot
    BY <2>4, <2>5 DEF Active
  <2>14. \A b \in Appts : appts'[b].status = "confirmed" => appts[b].status = "confirmed"
    BY <2>4, <2>5
  <2> QED BY <2>4, <2>6, <2>7, <2>8, <2>9, <2>10, <2>11, <2>12, <2>13, <2>14, LeaveKeeps
<1>6. ASSUME ConfirmWrite(h)
      PROVE  IInv'
  <2> DEFINE p == [proc EXCEPT ![h] = Idle]
  <2>1. PICK a \in Appts : a = proc[h].appt
    BY <1>6, HasAppt DEF ConfirmWrite, At
  <2>2. PICK x \in Sessions : x = proc[h].session /\ sessions[x].appt = a
    BY <1>6, <2>1 DEF ConfirmWrite, At, IInv, Types, Fits, Payments
  <2>3. CASE End(h) /\ UNCHANGED <<appts, excused>>
    BY <1>6, <2>3, EndKeeps DEF ConfirmWrite
  <2>4. CASE sessions[x].state = "paid" /\ Exists(a) /\ SetStatus(a, "confirmed", x, p)
    <3>1. Paid(a) /\ "confirmed" \in Statuses
      BY <2>2, <2>4 DEF Paid, Statuses
    <3>2. /\ p \in [Handlers -> Procs]
          /\ \A g \in Handlers :
               p[g] = proc[g] \/ (Fits(p[g]) /\ p[g].step \notin InFlight \cup {"confirm"})
      BY IdleType DEF IInv, Types, TypeOK, InFlight
    <3>3. /\ UNCHANGED <<sessions, events, vouched>> /\ vouched \in SUBSET Appts
      BY <1>6 DEF ConfirmWrite, IInv, Types, TypeOK
    <3> HIDE DEF p
    <3> QED BY <2>2, <2>4, <3>1, <3>2, <3>3, SetStatusKeeps
  <2> QED BY <1>6, <2>1, <2>2, <2>3, <2>4 DEF ConfirmWrite
<1> QED BY <1>1, <1>2, <1>3, <1>4, <1>5, <1>6 DEF Book

-----------------------------------------------------------------------------
(* Giving up, cancelling and the waitlist                                  *)

\* h's document is removed, or set to cancelled, and h goes on to wait or ends.
LEMMA WithdrawWriteKeeps ==
  ASSUME IInv, NEW h \in Handlers, NEW a \in Appts, NEW doc \in Docs, NEW r \in Procs,
         doc = NoDoc \/ (Exists(a) /\ doc = [appts[a] EXCEPT !.status = "cancelled"]),
         appts' = [appts EXCEPT ![a] = doc],
         Then(h, r), Fits(r), r.step \notin InFlight \cup {"confirm"},
         UNCHANGED <<sessions, events, excused, vouched>>
  PROVE  IInv'
<1>1. /\ appts' \in [Appts -> Docs]
      /\ \A b \in Appts : appts'[b] = IF b = a THEN doc ELSE appts[b]
  BY DEF IInv, Types, TypeOK
<1>2. appts[a] \in Docs /\ (appts[a].slot \in Slots <=> appts[a].status # "none")
  BY DEF IInv, Types, TypeOK
<1>3. /\ doc.slot \in Slots <=> doc.status # "none"
      /\ doc.status \in {"none", "cancelled"}
      /\ doc.session = NoSession \/ doc.session = appts[a].session
  BY <1>2, ConstantsAssumption DEF Docs, NoDoc, Exists
<1>4. \A b \in Appts : appts'[b].slot \in Slots <=> appts'[b].status # "none"
  BY <1>1, <1>3 DEF IInv, Types, TypeOK
<1>5. \A b \in Appts : Active(appts'[b]) => Active(appts[b]) /\ appts'[b].slot = appts[b].slot
  BY <1>1, <1>3 DEF Active
<1>6. \A b \in Appts : appts'[b].status = "confirmed" => appts[b].status = "confirmed"
  BY <1>1, <1>3
<1>7. \A b \in Appts, x \in Sessions : appts'[b].session = x => sessions'[x].appt = b
  BY <1>1, <1>3, ConstantsAssumption DEF IInv, Payments
<1>8. /\ proc' \in [Handlers -> Procs]
      /\ \A g \in Handlers :
           proc'[g] = proc[g] \/ (Fits(proc'[g]) /\ proc'[g].step \notin InFlight \cup {"confirm"})
  BY DEF Then, IInv, Types, TypeOK
<1>9. /\ sessions' \in [Sessions -> [appt : Appts \cup {NoAppt},
                                    state : {"none", "open", "paid", "expired"}]]
      /\ \A x \in Sessions : sessions'[x].appt = NoAppt <=> sessions'[x].state = "none"
      /\ events' \in SUBSET (Sessions \X {"paid", "failed"})
      /\ \A e \in events' : sessions'[e[1]].state # "none"
      /\ \A x \in Sessions : <<x, "paid">> \in events' => sessions'[x].state = "paid"
  BY DEF IInv, Types, TypeOK, Payments
<1> QED BY <1>1, <1>4, <1>5, <1>6, <1>7, <1>8, <1>9, LeaveKeeps

LEMMA RemoveKeeps ==
  ASSUME IInv, NEW h \in Handlers, proc[h].step \notin {"idle", "book"},
         Remove(proc[h].appt), End(h), UNCHANGED <<sessions, events, excused, vouched>>
  PROVE  IInv'
<1>1. NoDoc \in Docs
  BY ConstantsAssumption DEF NoDoc, Docs
<1>2. proc[h].appt \in Appts /\ Idle.step \notin InFlight \cup {"confirm"}
  BY HasAppt, IdleType DEF InFlight
<1> QED BY <1>1, <1>2, IdleType, WithdrawWriteKeeps DEF Remove, End

\* The write of CancelWrite and of UserCancelSave.
LEMMA CancelledKeeps ==
  ASSUME IInv, NEW h \in Handlers, NEW a \in Appts, Exists(a),
         appts' = [appts EXCEPT ![a].status = "cancelled"],
         Then(h, Waiting("fill", a, NoSlot, NoSession)),
         UNCHANGED <<sessions, events, excused, vouched>>
  PROVE  IInv'
<1> DEFINE doc == [appts[a] EXCEPT !.status = "cancelled"]
           r   == Waiting("fill", a, NoSlot, NoSession)
<1>1. doc \in Docs
  BY DEF IInv, Types, TypeOK, Docs, Statuses
<1>2. r \in Procs /\ r.step = "fill" /\ r.appt = a
  BY DEF Waiting, Idle, Procs, Steps, Kinds
<1>3. Fits(r) /\ r.step \notin InFlight \cup {"confirm"}
  BY <1>2, ConstantsAssumption DEF Fits, InFlight
<1>4. appts' = [appts EXCEPT ![a] = doc]
  BY DEF IInv, Types, TypeOK
<1> HIDE DEF r
<1> QED BY <1>1, <1>2, <1>3, <1>4, WithdrawWriteKeeps DEF r

LEMMA WithdrawKeeps ==
  ASSUME IInv, NEW h \in Handlers, Withdraw(h)
  PROVE  IInv'
<1>1. ASSUME NEW a \in Appts, AbandonRead(h, a) \/ CancelRead(h, a) \/ UserCancelRead(h, a)
      PROVE  IInv'
  BY <1>1, WaitKeeps DEF AbandonRead, CancelRead, UserCancelRead
<1>2. CASE AbandonDelete(h)
  BY <1>2, RemoveKeeps DEF AbandonDelete, At
<1>3. CASE CancelWrite(h) \/ UserCancelSave(h)
  <2>1. PICK a \in Appts : a = proc[h].appt
    BY <1>3, HasAppt DEF CancelWrite, UserCancelSave, At
  <2>2. CASE End(h) /\ UNCHANGED appts
    BY <1>3, <2>2, EndKeeps DEF CancelWrite, UserCancelSave
  <2>3. CASE /\ Exists(a) /\ appts' = [appts EXCEPT ![a].status = "cancelled"]
             /\ Then(h, Waiting("fill", a, NoSlot, NoSession))
    BY <1>3, <2>3, CancelledKeeps DEF CancelWrite, UserCancelSave
  <2> QED BY <1>3, <2>1, <2>2, <2>3 DEF CancelWrite, UserCancelSave, Exists
<1>4. CASE FillRead(h)
  <2>1. PICK a \in Appts : a = proc[h].appt
    BY <1>4, HasAppt DEF FillRead, At
  <2>2. CASE End(h)
    BY <1>4, <2>2, EndKeeps DEF FillRead
  <2>3. CASE appts[a].status = "cancelled"
    <3> DEFINE r == Waiting("fill check", a, appts[a].slot, NoSession)
    <3>1. appts[a].slot \in Slots
      BY <2>3 DEF IInv, Types, TypeOK
    <3>2. r \in Procs /\ r.step = "fill check" /\ r.appt = a /\ r.slot \in Slots
      BY <3>1 DEF Waiting, Idle, Procs, Steps, Kinds
    <3>3. Fits(r) /\ Covered(r)
      BY <3>2, ConstantsAssumption DEF Fits, Covered, InFlight
    <3>4. Then(h, r) /\ UNCHANGED <<appts, sessions, events, excused, vouched>>
      BY <1>4, <2>1, <2>3 DEF FillRead
    <3> HIDE DEF r
    <3> QED BY <3>2, <3>3, <3>4, ReadKeeps
  <2> QED BY <1>4, <2>1, <2>2, <2>3 DEF FillRead
<1>5. CASE FillCheck(h)
  <2> DEFINE s == proc[h].slot
             a == proc[h].appt
             r == [Waiting("book", NoAppt, s, NoSession) EXCEPT !.kind = "salon", !.unseen = {a}]
  <2>1. a \in Appts /\ s \in Slots
    BY <1>5, HasAppt DEF FillCheck, At, IInv, Types, Fits
  <2>2. CASE End(h)
    BY <1>5, <2>2, EndKeeps DEF FillCheck
  <2>3. CASE Occupants(s) \subseteq {a} /\ Then(h, r)
    <3>1. r \in Procs /\ r.step = "book" /\ r.appt = NoAppt /\ r.slot = s /\ r.unseen = {a}
      BY <2>1 DEF Waiting, Idle, Procs, Steps, Kinds
    <3>2. Fits(r)
      BY <2>1, <3>1 DEF Fits
    <3>3. Covered(r)
      BY <2>3, <3>1 DEF Covered, Occupants
    <3>4. UNCHANGED <<appts, sessions, events, excused, vouched>> /\ Then(h, r)
      BY <1>5, <2>3 DEF FillCheck
    <3> HIDE DEF r
    <3> QED BY <3>1, <3>2, <3>3, <3>4, ReadKeeps
  <2> QED BY <1>5, <2>2, <2>3 DEF FillCheck
<1> QED BY <1>1, <1>2, <1>3, <1>4, <1>5 DEF Withdraw

-----------------------------------------------------------------------------
(* Staff, and rescheduling by the client                                   *)

LEMMA ManageKeeps ==
  ASSUME IInv, NEW h \in Handlers, Manage(h)
  PROVE  IInv'
<1>1. ASSUME NEW a \in Appts, EraseRead(h, a)
      PROVE  IInv'
  BY <1>1, WaitKeeps DEF EraseRead
<1>2. CASE Erase(h)
  BY <1>2, RemoveKeeps DEF Erase, At
<1>3. ASSUME NEW a \in Appts, NEW s \in Slots, MoveCheck(h, a, s)
      PROVE  IInv'
  <2>1. ASSUME NEW step \in {"checked move", "unchecked move"},
               Then(h, Waiting(step, a, s, NoSession)),
               step = "checked move" => Occupants(s) \subseteq {a}
        PROVE  IInv'
    <3> DEFINE r == Waiting(step, a, s, NoSession)
    <3>1. r \in Procs /\ r.step = step /\ r.appt = a /\ r.slot = s
      BY DEF Waiting, Idle, Procs, Steps, Kinds
    <3>2. Fits(r)
      BY <3>1, ConstantsAssumption DEF Fits
    <3>3. Covered(r)
      BY <2>1, <3>1 DEF Covered, InFlight, Occupants
    <3>4. Then(h, r) /\ UNCHANGED <<appts, sessions, events, excused, vouched>>
      BY <1>3, <2>1 DEF MoveCheck
    <3> HIDE DEF r
    <3> QED BY <3>1, <3>2, <3>3, <3>4, ReadKeeps
  <2>2. \/ {b \in Appts \ {a} : appts[b].slot = s} = {}
        \/ \A b \in {b \in Appts \ {a} : appts[b].slot = s} : appts[b].status = "cancelled"
        => Occupants(s) \subseteq {a}
    BY DEF Occupants, Active
  <2> QED BY <1>3, <2>1, <2>2 DEF MoveCheck
<1>4. CASE MoveSave(h)
  <2> DEFINE p == [proc EXCEPT ![h] = Idle]
  <2>1. PICK a \in Appts, s \in Slots : a = proc[h].appt /\ s = proc[h].slot
    BY <1>4, HasAppt DEF MoveSave, At, IInv, Types, Fits
  <2>2. CASE ~Exists(a)
    BY <1>4, <2>1, <2>2, EndKeeps DEF MoveSave, End, Then
  <2>3. CASE Exists(a)
    <3> DEFINE doc == [appts[a] EXCEPT !.slot = s]
               unseen == IF At(h, "checked move") THEN proc[h].unseen ELSE Occupants(s)
    <3>1. /\ doc \in Docs /\ doc.slot = s /\ doc.status = appts[a].status
          /\ doc.session = appts[a].session
      BY DEF IInv, Types, TypeOK, Docs
    <3>2. unseen \in SUBSET Appts
      BY DEF Occupants, IInv, Types, TypeOK, Procs
    <3>3. Occupants(s) \ {a} \subseteq unseen
      BY <2>1 DEF IInv, Overlaps, Covered, InFlight, Occupants, At
    <3>4. Put(a, doc, unseen, p) /\ UNCHANGED <<sessions, events, vouched>>
      BY <1>4, <2>1, <2>3 DEF MoveSave
    <3>5. /\ p \in [Handlers -> Procs]
          /\ \A g \in Handlers :
               p[g] = proc[g] \/ (Fits(p[g]) /\ p[g].step \notin InFlight \cup {"confirm"})
      BY IdleType DEF IInv, Types, TypeOK, InFlight
    <3>6. /\ doc.status = "confirmed" => a \in vouched \/ Paid(a)
          /\ \A x \in Sessions : doc.session = x => sessions[x].appt = a
      BY <3>1 DEF IInv, Payments, ConfirmedIsPaidOrVouched
    <3>7. vouched \in SUBSET Appts /\ doc.status # "none"
      BY <2>3, <3>1 DEF IInv, Types, TypeOK, Exists
    <3> HIDE DEF p, doc, unseen
    <3> QED BY <3>1, <3>2, <3>3, <3>4, <3>5, <3>6, <3>7, PutKeeps
  <2> QED BY <2>2, <2>3
<1> QED BY <1>1, <1>2, <1>3, <1>4 DEF Manage

\* PATCH /:id/status: whoever sets "confirmed" vouches for it.
LEMMA PatchKeeps ==
  ASSUME IInv, NEW a \in Appts, NEW status \in Statuses, PatchStatus(a, status)
  PROVE  IInv'
<1> DEFINE x == appts[a].session
<1>1. /\ proc \in [Handlers -> Procs] /\ x \in Sessions \cup {NoSession}
      /\ vouched' \in SUBSET Appts
  BY DEF PatchStatus, IInv, Types, TypeOK, Docs
<1>2. /\ \A y \in Sessions : x = y => sessions[y].appt = a
      /\ \A b \in Appts \ {a} : b \in vouched => b \in vouched'
      /\ status = "confirmed" => a \in vouched'
  BY DEF PatchStatus, IInv, Payments
<1>3. Exists(a) /\ SetStatus(a, status, x, proc) /\ UNCHANGED <<sessions, events>>
  BY DEF PatchStatus
<1> HIDE DEF x
<1> QED BY <1>1, <1>2, <1>3, SetStatusKeeps

-----------------------------------------------------------------------------
(* Stripe                                                                  *)

LEMMA StripeKeeps ==
  ASSUME IInv, Stripe
  PROVE  IInv'
<1>1. ASSUME NEW x \in Sessions, Pay(x) \/ Decline(x) \/ SessionExpires(x)
      PROVE  IInv'
  <2> DEFINE Effect(state, new) ==
               /\ sessions[x].state = "open"
               /\ sessions' = [sessions EXCEPT ![x].state = state]
               /\ events' = events \cup new
               /\ <<x, "paid">> \in new => state = "paid"
  <2>1. PICK state \in {"open", "paid", "expired"}, new \in SUBSET {<<x, "paid">>, <<x, "failed">>} :
          Effect(state, new)
    <3>1. CASE Pay(x)
      <4>1. Effect("paid", {<<x, "paid">>})
        BY <3>1 DEF Pay
      <4> QED BY <4>1
    <3>2. CASE Decline(x)
      <4>1. sessions' = [sessions EXCEPT ![x].state = "open"]
        BY <3>2 DEF Decline, IInv, Types, TypeOK
      <4>2. Effect("open", {<<x, "failed">>})
        BY <3>2, <4>1 DEF Decline
      <4> HIDE DEF Effect
      <4> QED BY <4>2
    <3>3. CASE SessionExpires(x)
      <4>1. Effect("expired", {})
        BY <3>3 DEF SessionExpires
      <4> HIDE DEF Effect
      <4> QED BY <4>1
    <3> QED BY <1>1, <3>1, <3>2, <3>3
  <2>2. /\ sessions' \in [Sessions -> [appt : Appts \cup {NoAppt},
                                      state : {"none", "open", "paid", "expired"}]]
        /\ \A y \in Sessions :
             /\ sessions'[y].appt = sessions[y].appt
             /\ sessions'[y].state = IF y = x THEN state ELSE sessions[y].state
    BY <2>1 DEF IInv, Types, TypeOK
  <2>3. /\ \A y \in Sessions : sessions'[y].appt = NoAppt <=> sessions'[y].state = "none"
        /\ \A y \in Sessions : sessions[y].state # "none" => sessions'[y].appt = sessions[y].appt
        /\ \A y \in Sessions : sessions[y].state = "paid" => sessions'[y].state = "paid"
    BY <2>1, <2>2 DEF IInv, Types
  <2>4. events' \in SUBSET (Sessions \X {"paid", "failed"})
    BY <2>1 DEF IInv, Types, TypeOK
  <2>5. \A e \in events' : sessions'[e[1]].state # "none"
    <3> SUFFICES ASSUME NEW e \in events' PROVE sessions'[e[1]].state # "none"
      OBVIOUS
    <3>1. e[1] \in Sessions
      BY <2>4
    <3>2. CASE e \in events
      BY <2>2, <3>1, <3>2 DEF IInv, Types
    <3>3. CASE e \in new
      BY <2>2, <3>1, <3>3
    <3> QED BY <2>1, <3>2, <3>3
  <2>6. \A y \in Sessions : <<y, "paid">> \in events' => sessions'[y].state = "paid"
    BY <2>1, <2>2 DEF IInv, Payments
  <2>7. UNCHANGED <<appts, proc, excused, vouched>>
    BY <1>1 DEF Pay, Decline, SessionExpires
  <2>8. /\ appts' \in [Appts -> Docs] /\ proc' \in [Handlers -> Procs]
        /\ \A a \in Appts : appts'[a].slot \in Slots <=> appts'[a].status # "none"
        /\ \A a \in Appts, y \in Sessions : appts'[a].session = y => sessions'[y].appt = a
    BY <2>2, <2>7 DEF IInv, Types, TypeOK, Payments
  <2>9. /\ \A a \in Appts : Active(appts'[a]) => Active(appts[a]) /\ appts'[a].slot = appts[a].slot
        /\ \A a \in Appts : appts'[a].status = "confirmed" => appts[a].status = "confirmed"
        /\ \A h \in Handlers : proc'[h] = proc[h]
    BY <2>7
  <2> QED BY <2>2, <2>3, <2>4, <2>5, <2>6, <2>7, <2>8, <2>9, LeaveKeeps
<1>2. ASSUME NEW x \in Sessions, WebhookPaid(x) \/ WebhookFailed(x)
      PROVE  IInv'
  <2> DEFINE a == sessions[x].appt
  <2>1. PICK kind \in {"paid", "failed"} : <<x, kind>> \in events /\ (WebhookPaid(x) => kind = "paid")
    BY <1>2 DEF WebhookPaid, WebhookFailed, Deliver
  <2>2. a \in Appts
    BY <2>1 DEF IInv, Types, TypeOK
  <2>3. /\ Exists(a) /\ UNCHANGED <<sessions, vouched>> /\ events' \subseteq events
        /\ proc \in [Handlers -> Procs] /\ vouched \in SUBSET Appts
    BY <1>2 DEF WebhookPaid, WebhookFailed, Deliver, IInv, Types, TypeOK
  <2>4. /\ appts[a].session \in Sessions \cup {NoSession}
        /\ appts[a].session \in Sessions => sessions[appts[a].session].appt = a
    BY <2>2 DEF IInv, Types, TypeOK, Docs, Payments
  <2>5. CASE WebhookPaid(x)
    <3>1. PICK y \in {x, appts[a].session} : SetStatus(a, "confirmed", y, proc)
      BY <2>5 DEF WebhookPaid
    <3>2. Paid(a) /\ "confirmed" \in Statuses
      BY <2>1, <2>5 DEF Paid, Statuses, IInv, Payments
    <3>3. y \in Sessions \cup {NoSession} /\ (y \in Sessions => sessions[y].appt = a)
      BY <2>4
    <3> HIDE DEF a
    <3> QED BY <2>2, <2>3, <3>1, <3>2, <3>3, SetStatusKeeps
  <2>6. CASE WebhookFailed(x)
    <3>1. SetStatus(a, "reserved_unpaid", appts[a].session, proc)
      BY <2>6 DEF WebhookFailed
    <3>2. "reserved_unpaid" \in Statuses
      BY DEF Statuses
    <3> HIDE DEF a
    <3> QED BY <2>2, <2>3, <2>4, <3>1, <3>2, SetStatusKeeps
  <2> QED BY <1>2, <2>5, <2>6
<1>3. ASSUME NEW e \in events, WebhookVain(e)
      PROVE  IInv'
  <2>1. events' \subseteq events /\ UNCHANGED <<appts, sessions, proc, excused, vouched>>
    BY <1>3 DEF WebhookVain, Deliver
  <2>2. /\ events' \in SUBSET (Sessions \X {"paid", "failed"})
        /\ \A f \in events' : sessions'[f[1]].state # "none"
        /\ \A x \in Sessions : <<x, "paid">> \in events' => sessions'[x].state = "paid"
    BY <2>1 DEF IInv, Types, TypeOK, Payments
  <2>3. Types' /\ Overlaps' /\ Payments'
    <3>1. Types'
      BY <2>1, <2>2 DEF IInv, Types, TypeOK
    <3>2. Overlaps'
      BY <2>1 DEF IInv, Overlaps, OverlapIsExplained, Covered
    <3>3. Payments'
      BY <2>1, <2>2 DEF IInv, Payments, ConfirmedIsPaidOrVouched, Paid, At
    <3> QED BY <3>1, <3>2, <3>3
  <2> QED BY <2>3 DEF IInv
<1> QED BY <1>1, <1>2, <1>3 DEF Stripe

-----------------------------------------------------------------------------
(* Time, deletion and the theorems                                         *)

LEMMA TimeKeeps ==
  ASSUME IInv, Tick \/ DeleteAll \/ \E a \in Appts : TtlDelete(a)
  PROVE  IInv'
<1>1. \A b \in Appts :
        \/ appts'[b] = NoDoc
        \/ appts'[b] = appts[b]
        \/ /\ appts[b].status # "none" /\ appts[b].age < HoldTicks
           /\ appts'[b] = [appts[b] EXCEPT !.age = appts[b].age + 1]
  BY DEF Tick, DeleteAll, TtlDelete, Remove, Exists, IInv, Types, TypeOK
<1>2. \A b \in Appts : appts[b] \in Docs /\ (appts[b].slot \in Slots <=> appts[b].status # "none")
  BY DEF IInv, Types, TypeOK
<1>3. \A b \in Appts :
        /\ appts'[b] \in Docs
        /\ appts'[b].slot \in Slots <=> appts'[b].status # "none"
        /\ Active(appts'[b]) => Active(appts[b]) /\ appts'[b].slot = appts[b].slot
        /\ appts'[b].status = "confirmed" => appts[b].status = "confirmed"
        /\ appts'[b].session = NoSession \/ appts'[b].session = appts[b].session
  <2> TAKE b \in Appts
  <2>1. CASE appts'[b] = NoDoc
    BY <2>1, ConstantsAssumption DEF NoDoc, Docs, Active
  <2>2. CASE appts'[b] = appts[b]
    BY <1>2, <2>2
  <2>3. CASE /\ appts[b].status # "none" /\ appts[b].age < HoldTicks
             /\ appts'[b] = [appts[b] EXCEPT !.age = appts[b].age + 1]
    <3>1. appts[b] \in Docs /\ appts[b].age \in Nat
      BY <1>2, ConstantsAssumption DEF Docs
    <3>2. /\ appts'[b].status = appts[b].status /\ appts'[b].slot = appts[b].slot
          /\ appts'[b].session = appts[b].session /\ appts'[b].age = appts[b].age + 1
      BY <2>3, <3>1 DEF Docs
    <3>3. appts'[b] \in Docs
      BY <2>3, <3>1, ConstantsAssumption DEF Docs
    <3> QED BY <1>2, <2>3, <3>1, <3>2, <3>3, ConstantsAssumption DEF Active
  <2> QED BY <1>1, <2>1, <2>2, <2>3
<1>4. appts' \in [Appts -> Docs]
  <2>1. appts' = [b \in Appts |-> appts'[b]]
    BY DEF Tick, DeleteAll, TtlDelete, Remove, IInv, Types, TypeOK
  <2> QED BY <1>3, <2>1
<1>5. UNCHANGED <<sessions, events, proc, excused, vouched>>
  BY DEF Tick, DeleteAll, TtlDelete
<1>6. \A b \in Appts, x \in Sessions : appts'[b].session = x => sessions'[x].appt = b
  BY <1>3, <1>5, ConstantsAssumption DEF IInv, Payments
<1>7. /\ sessions' \in [Sessions -> [appt : Appts \cup {NoAppt},
                                    state : {"none", "open", "paid", "expired"}]]
      /\ \A x \in Sessions : sessions'[x].appt = NoAppt <=> sessions'[x].state = "none"
      /\ events' \in SUBSET (Sessions \X {"paid", "failed"})
      /\ \A e \in events' : sessions'[e[1]].state # "none"
      /\ \A x \in Sessions : <<x, "paid">> \in events' => sessions'[x].state = "paid"
      /\ proc' \in [Handlers -> Procs] /\ \A h \in Handlers : proc'[h] = proc[h]
  BY <1>5 DEF IInv, Types, TypeOK, Payments
<1> QED BY <1>3, <1>4, <1>5, <1>6, <1>7, LeaveKeeps

LEMMA InitHolds == Init => IInv
<1> SUFFICES ASSUME Init PROVE IInv
  OBVIOUS
<1> USE ConstantsAssumption
<1>1. NoDoc \in Docs /\ ~Active(NoDoc) /\ NoDoc.status = "none" /\ NoDoc.slot = NoSlot
      /\ NoDoc.session = NoSession
  BY DEF NoDoc, Docs, Active
<1>2. Types
  BY <1>1, IdleType DEF Init, Types, TypeOK
<1>3. Overlaps
  BY <1>1, IdleType DEF Init, Overlaps, OverlapIsExplained, Covered, InFlight
<1>4. Payments
  BY <1>1, IdleType DEF Init, Payments, ConfirmedIsPaidOrVouched, At
<1> QED BY <1>2, <1>3, <1>4 DEF IInv

LEMMA NextKeeps == IInv /\ [Next]_vars => IInv'
<1> SUFFICES ASSUME IInv, [Next]_vars PROVE IInv'
  OBVIOUS
<1>1. ASSUME NEW h \in Handlers, Book(h) \/ Withdraw(h) \/ Manage(h) \/ HandlerCrash(h)
      PROVE  IInv'
  <2>1. CASE HandlerCrash(h)
    BY <2>1, EndKeeps DEF HandlerCrash
  <2> QED BY <1>1, <2>1, BookKeeps, WithdrawKeeps, ManageKeeps
<1>2. CASE UNCHANGED vars
  BY <1>2 DEF vars, IInv, Types, TypeOK, Overlaps, OverlapIsExplained, Covered, Payments,
              ConfirmedIsPaidOrVouched, Paid, At
<1> QED BY <1>1, <1>2, StripeKeeps, PatchKeeps, TimeKeeps DEF Next

\* Everything the three theorems need is inductive.
LEMMA Inductive == Spec => []IInv
<1>1. Init => IInv
  BY InitHolds
<1>2. IInv /\ [Next]_vars => IInv'
  BY NextKeeps
<1> QED BY <1>1, <1>2, PTL DEF Spec

\* Every document, session and copy in a handler has its type; exactly the
\* documents that exist have a time.
THEOREM TypeCorrect == Spec => []TypeOK
<1>1. IInv => TypeOK
  BY DEF IInv, Types
<1> QED BY <1>1, Inductive, PTL

\* Two active appointments share a time only when the later one could not have
\* seen the other or did not look, for any number of requests and appointments.
THEOREM OverlapsAreExplained == Spec => []OverlapIsExplained
<1>1. IInv => OverlapIsExplained
  BY DEF IInv, Overlaps
<1> QED BY <1>1, Inductive, PTL

\* A confirmed appointment was paid in a session of its own, or staff or the
\* salon confirmed it.
THEOREM ConfirmationsAreJustified == Spec => []ConfirmedIsPaidOrVouched
<1>1. IInv => ConfirmedIsPaidOrVouched
  BY DEF IInv, Payments
<1> QED BY <1>1, Inductive, PTL
=============================================================================
