SPECIFICATION Spec
CONSTANTS
  Handlers = {h1, h2}
  Appts = {a1, a2}
  Slots = {s1}
  Sessions = {}
  NoAppt = NoAppt
  NoSlot = NoSlot
  NoSession = NoSession
  HoldTicks = 1
INVARIANTS NoDoubleBooking
CHECK_DEADLOCK FALSE
