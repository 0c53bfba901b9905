\* Two users and two browsers, a login of each, two changes of accounts; one
\* login slot, one attempt for an address, one address remembered.
SPECIFICATION Spec
CONSTANTS
  u1 = u1
  u2 = u2
  s1 = s1
  s2 = s2
  b1 = b1
  b2 = b2
  h1 = h1
  h2 = h2
  NoSession = NoSession
  Users = {u1, u2}
  Sessions = {s1, s2}
  OwnerOf <- OneEach
  Browsers = {b1, b2}
  HostOf <- TwoHosts
  Slots = 1
  Attempts = 1
  MaxWindows = 1
  MaxChanges = 2
INVARIANTS
  SessionsMatchAccounts
  SomeAdminRemains
PROPERTIES
  RefusalsAreTemporary
  ImplementsAccountAccess
