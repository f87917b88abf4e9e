SPECIFICATION Spec
CONSTANTS
  h1 = h1
  h2 = h2
  x1 = x1
  x2 = x2
  x3 = x3
  l1 = l1
  e1 = e1
  e2 = e2
  Founders = {h1, h2}
  Salons = {x1, x2}
  NoSalon = NoSalon
  Emails = {e1, e2}
  Applications <- MCApplications
  Devices = {h1, h2}
  Tokens = {x1, x2, x3}
  Signers = {h1, h2}
  MaxAttempts = 3
  MaxPasswords = 2
  Visitors = {h1, h2}
  Tenants = {x1, x2}
  NoTenant = NoTenant
  Editors = {h1, h2}
  Specialists = {x1, x2}
  NoSpecialist = NoSpecialist
  Logins = {l1, Owner}
  Owner = Owner
  NoLogin = NoLogin
  Addresses = {e1, e2}
  OwnerEmail = e1
  NoEmail = NoEmail
  Managers = {h1, h2}
  Sites = {x1, x2, x3}
  NoSite = NoSite
  Clerics = {h1, h2}
  Forms = {x1, x2}
  NoForm = NoForm
  Records = {e1}
  NoRecord = NoRecord
  MaxRevision = 2
SYMMETRY MCSymmetry
INVARIANTS TypeOK SalonsAreSound AccountIsGuarded TenantIsRight DeletedCannotSignIn PrimaryIsExplained SignedTextStands
CHECK_DEADLOCK FALSE
