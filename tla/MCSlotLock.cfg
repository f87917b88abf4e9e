SPECIFICATION Spec
CONSTANTS
  Callers = {c1, c2}
  Slots = {s1}
  LockIds = {l1, l2}
  NoLock = NoLock
  NoSlot = NoSlot
  DefaultTtl = 2
  TtlChoices <- MCTtlChoices
  MaxTtl = 2
  MaxRetries = 1
INVARIANTS TypeOK TrustedLockIsHeld MutualExclusion
PROPERTIES LeaseSpec OrphanIsFreed
