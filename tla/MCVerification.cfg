\* Verification of sessions.
\* The bounds bring the system to rest.
CHECK_DEADLOCK FALSE
SPECIFICATION MCSpec
CONSTANTS
  i1 = i1
  i2 = i2
  i3 = i3
  r1 = r1
  r2 = r2
  f1 = f1
  k1 = k1
  k2 = k2
  s1 = s1
  s2 = s2
  v1 = v1
  v2 = v2
  v3 = v3
  Sessions = {i1, i2, i3}
  Requests = {r1, r2}
  Codes = {k1, k2}
  Flows = {f1}
  Secrets = {s1, s2}
  Vers = {v1, v2, v3}
  None = None
  Lifetime = 1
  MaxClock = 2
  MaxFaults = 1
  CodeCount = 1
  MaxBatch = 2
  Workloads <- VerificationWorkloads
SYMMETRY Symmetry
INVARIANTS CodesAreAcceptedOnce EnabledIsUsable AssuranceIsEarned
PROPERTIES OnlySecondFactorDisables VerificationIsItsOwn
