SPECIFICATION CardsSpec
CONSTANTS
  Handlers = {h1, h2}
  Appts = {a1, a2}
  Amount = 2
  HoldTicks = 2
  Senders = {h1, h2}
INVARIANTS CardsTypeOK NeverOverdrawn RedeemedIsCredited RecordsAreTrue
PROPERTIES SentStaysSpendable HoldStands AbandonedHoldLapses ScheduledIsDelivered
CHECK_DEADLOCK FALSE
