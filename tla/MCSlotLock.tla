----------------------------- MODULE MCSlotLock -----------------------------
(* SlotLock for TLC: a lease of one tick or of the default two ticks, and a *)
(* body with no ttl (0) or a negative one.                                  *)
EXTENDS SlotLock

MCTtlChoices == {-1, 0, 1}
=============================================================================
