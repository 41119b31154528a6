SPECIFICATION AccSpec
CONSTANTS
  e0 = e0
  e1 = e1
  e2 = e2
  n0 = n0
  n1 = n1
  n2 = n2
  s0 = s0
  s1 = s1
  Emails = {e0, e1, e2}
  RoleNames = {n0, n1, n2}
  Seeds = {s0, s1}
  SeedEmail <- TheEmails
  SeedRole <- TheRoles
  Super = s0
  Nobody = Nobody
  MaxRequests = 4
  Mixes <- TheMixes
  MaxStops = 1
INVARIANTS
  AccTypeOK
  ResetOfOwnAccount
  TokenOfProvenAddress
PROPERTIES
  NamesAreDirectories
  ConfirmedByCode
CHECK_DEADLOCK FALSE
