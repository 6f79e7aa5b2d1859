\* The bounds bring the system to rest.
CHECK_DEADLOCK FALSE
SPECIFICATION MCSpec
CONSTANTS
  e1 = e1
  e2 = e2
  n1 = n1
  n2 = n2
  p1 = p1
  r1 = r1
  r2 = r2
  s1 = s1
  s2 = s2
  s3 = s3
  u1 = u1
  u2 = u2
  x1 = x1
  x2 = x2
  None = None
  Rejected = Rejected
  Done = Done
  Emails = {e1, e2}
  Whitelisted = {e1, e2}
  Names = {n1, n2}
  Predefined <- MCPredefined
  Older <- MCOlder
  ScopesConfig = {x1, x2}
  UrlScopes = {x1}
  Users = {u1, u2}
  TokenScopes = {x1, x2}
  Requests = {r1, r2}
  Servers = {s1, s2, s3}
  Updaters = {s1, s2}
  MaxId = 5
  Workloads <- ClientWorkloads
SYMMETRY Symmetry
INVARIANTS StoresAgree PredefinedAreServed ClientsAreOwned
PROPERTIES OwnersManage
