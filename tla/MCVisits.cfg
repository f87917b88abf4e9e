SPECIFICATION Spec
CONSTANTS
  h1 = h1
  h2 = h2
  x1 = x1
  x2 = x2
  s1 = s1
  s2 = s2
  c1 = c1
  c2 = c2
  Cancellers = {h1, h2}
  Charge = 2
  MaxVersion = 3
  Fillers = {h1, h2}
  EntryCount = 2
  WaitSlots = {s1, s2}
  TimeOf <- MCTimeOf
  Guests = {c1, c2}
  Bookers = {c1}
  Suits <- MCSuits
  ClientOf <- MCClientOf
  Bookings = {b1, b2, b3}
  NoBooking = NoBooking
  NoWaitSlot = NoWaitSlot
  NoGuest = NoGuest
  Clerks = {h1, h2}
  Purchases = {c1}
  Seats = {x1, x2}
  Price = 1
  MaxSeats = 2
  MaxEdits = 1
  Runs = {h1, h2}
  Movers = {c1}
  LastHour = 3
  Day = 8
  Step = 2
  Block = 3
  Shift = 1
  Schedules <- MCSchedules
  Lengths = {3}
  MaxVisits = 2
  Desks = {h1, h2}
  Clients = {c1}
  NoClient = NoClient
  Visits = {x1, x2}
  Secrets = {1, 2}
SYMMETRY MCSymmetry
INVARIANTS TypeOK RefundsAreJustified BookingsAreTheirs SeatsAreCounted RemindersStand SlotsAreRight RelationsAreTrue
PROPERTIES NobodyIsOvertaken OversoldByRaceOnly
CHECK_DEADLOCK FALSE
