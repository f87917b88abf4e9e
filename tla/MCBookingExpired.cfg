SPECIFICATION Spec
CONSTANTS
  Handlers = {h1}
  Appts = {a1, a2}
  Slots = {s1}
  Sessions = {x1}
  NoAppt = NoAppt
  NoSlot = NoSlot
  NoSession = NoSession
  HoldTicks = 1
PROPERTIES PaidIsNotExpired
CHECK_DEADLOCK FALSE
