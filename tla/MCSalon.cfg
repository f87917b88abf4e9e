SPECIFICATION Spec
CONSTANTS
  h1 = h1
  h2 = h2
  x1 = x1
  x2 = x2
  Linkers = {h1, h2}
  Accounts = {x1, x2}
  NoAccount = NoAccount
  MaxPayouts = 1
  Hooks = {h1, h2}
  Subs = {x1, x2}
  NoSub = NoSub
  MaxEvents = 3
  Referrers = {h1, h2}
  Owners = {x1, x2}
  NoOwner = NoOwner
  Codes = {k1, k2}
  NoCode = NoCode
  Referred = {r1}
  Readers = {r1}
  Items = {1, 2, 3, 4}
  Name <- MCName
  Limit = 2
  NoCount = NoCount
  Cashiers = {h1, h2}
  Total = 4
  MaxRefunds = 3
  Keepers = {h1, h2}
  MaxStock = 1
  Editors = {h1, h2}
  Images = {x1, x2, i3}
  NoImage = NoImage
SYMMETRY MCSymmetry
INVARIANTS TypeOK SellerIsConsistent FeatureFollowsStripe ReferralsAreShown WindowIsWhole PaymentIsRecorded SellerPaysOnce
CHECK_DEADLOCK FALSE
