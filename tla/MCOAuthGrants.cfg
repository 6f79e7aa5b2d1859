\* Sequences of grants: what a grant may become, and that messages are handled.
\* Accounts and clients may all be deleted, after which nothing can happen.
CHECK_DEADLOCK FALSE
SPECIFICATION MCFairSpec
CONSTANTS
  app = app
  web = web
  bot = bot
  r1 = r1
  r2 = r2
  u1 = u1
  u2 = u2
  v1 = v1
  Users = {u1}
  Clients = {app, web}
  Publics = {app}
  CanGrant = {app, web}
  Trusted = {app}
  Owned = {web}
  Scopes = {profile, sync}
  KeyScopes = {sync}
  BasicScopes = {profile}
  Claims = {TRUE, FALSE}
  Verifiers = {v1, v2}
  Secret = Secret
  None = None
  Requests = {r1}
  Events = {e1}
  MaxId = 4
  MaxCodeId = 1
  MaxRedeliveries = 1
  Endpoints = {"authorize", "implicit", "credentials", "exchange", "refresh"}
  Allowed <- MCAllowed
  Workloads <- GrantWorkloads
INVARIANTS GrantsStayWithinApproval TokensReachTheirClient
PROPERTIES MessagesTakeEffect
