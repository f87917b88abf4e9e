----------------------------- MODULE MCBooking -----------------------------
(* Booking for TLC: two requests at a time, two appointments, and an unpaid *)
(* reservation that lives for one tick.                                     *)
EXTENDS Booking, TLC

Symmetry == Permutations(Handlers) \cup Permutations(Appts) \cup Permutations(Slots)
=============================================================================
