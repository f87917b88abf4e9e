SPECIFICATION Spec
CONSTANTS
  Handlers = {h1, h2}
  Appts = {a1}
  Amount = 1
  HoldTicks = 1
INVARIANTS PaidCardNotCancelled
CHECK_DEADLOCK FALSE
