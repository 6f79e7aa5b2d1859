\* Account events and DELETE /client-tokens beside concurrent requests.
\* Accounts and clients may all be deleted, after which nothing can happen.
CHECK_DEADLOCK FALSE
SPECIFICATION MCSpec
CONSTANTS
  app = app
  web = web
  bot = bot
  r1 = r1
  r2 = r2
  u1 = u1
  u2 = u2
  v1 = v1
  Users = {u1, u2}
  Clients = {app, web, bot}
  Publics = {app}
  CanGrant = {bot}
  Trusted = {app}
  Owned = {web}
  Scopes = {}
  KeyScopes = {}
  BasicScopes = {}
  Claims = {TRUE}
  Verifiers = {v1}
  Secret = Secret
  None = None
  Requests = {r1, r2}
  Events = {e1}
  MaxId = 4
  MaxCodeId = 1
  MaxRedeliveries = 2
  Endpoints = {"authorize", "exchange", "refresh", "implicit", "destroyAccess", "destroyRefresh", "revoke"}
  Allowed <- MCAllowed
  Workloads <- RevocationWorkloads
SYMMETRY Symmetry
INVARIANTS CodesAreSpentTogether EventRevokes QuietDeletionIsFinal DeauthorizationIsComplete
PROPERTIES OnlyOwnerRevokes
