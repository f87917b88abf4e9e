--------------------------- MODULE AbstractLease ---------------------------
(***************************************************************************)
(* What services/lockService.js promises, without requests, replies, the   *)
(* Redis connection or its resends: a slot is leased to one id at a time,  *)
(* for a stated time; the lease ends when that time is over, or earlier    *)
(* because its owner (or an administrator) asked for that; it changes      *)
(* hands only through a moment at which nobody has it.                     *)
(***************************************************************************)
EXTENDS Integers

CONSTANTS Slots, Ids, None

VARIABLES
  holder,  \* slot -> the id it is leased to, or None
  left,    \* slot -> the time the lease still has
  asked    \* <<slot, id>>: someone entitled to has asked to end or extend it

vars == <<holder, left, asked>>

Asking == asked' \in SUBSET (Slots \X Ids)

Init ==
  /\ holder = [s \in Slots |-> None]
  /\ left = [s \in Slots |-> 0]
  /\ asked = {}

\* Requests come and go; no lease changes.
Request == Asking /\ UNCHANGED <<holder, left>>

\* A free slot is leased for some positive time.
Grant(s) ==
  /\ holder[s] = None
  /\ \E i \in Ids : holder' = [holder EXCEPT ![s] = i]
  /\ left'[s] \in Nat \ {0}
  /\ left' = [left EXCEPT ![s] = left'[s]]
  /\ Asking

\* The holder's own request gives the lease another positive time.
Extend(s) ==
  /\ <<s, holder[s]>> \in asked
  /\ left'[s] \in Nat \ {0}
  /\ left' = [left EXCEPT ![s] = left'[s]]
  /\ Asking
  /\ UNCHANGED holder

\* A lease is cut short only when that was asked for.
End(s) ==
  /\ <<s, holder[s]>> \in asked
  /\ holder' = [holder EXCEPT ![s] = None]
  /\ left' = [left EXCEPT ![s] = 0]
  /\ Asking

\* Time passes for every lease alike; exactly the used-up ones end.
Pass ==
  /\ left' = [s \in Slots |-> IF left[s] > 0 THEN left[s] - 1 ELSE 0]
  /\ holder' = [s \in Slots |-> IF left[s] > 1 THEN holder[s] ELSE None]
  /\ Asking

Next == Request \/ Pass \/ \E s \in Slots : Grant(s) \/ Extend(s) \/ End(s)

Spec == Init /\ [][Next]_vars
=============================================================================
