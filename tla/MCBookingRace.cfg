SPECIFICATION Spec
CONSTANTS
  Handlers = {h1, h2}
  Appts = {a1, a2}
  Slots = {s1, s2}
  Sessions = {}
  NoAppt = NoAppt
  NoSlot = NoSlot
  NoSession = NoSession
  HoldTicks = 1
INVARIANTS TypeOK OverlapIsExplained
SYMMETRY Symmetry
CHECK_DEADLOCK FALSE
