SPECIFICATION SessionSpec
CONSTANTS
  Signers = {h1, h2}
  MaxAttempts = 2
  MaxPasswords = 2
INVARIANTS RightPasswordPasses
CHECK_DEADLOCK FALSE
