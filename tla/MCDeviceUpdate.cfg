\* An update that does not give an endpoint.
\* The bounds bring the system to rest.
CHECK_DEADLOCK FALSE
SPECIFICATION MCSpec
CONSTANTS
  i1 = i1
  i2 = i2
  j1 = j1
  j2 = j2
  d1 = d1
  d2 = d2
  r1 = r1
  r2 = r2
  u1 = u1
  u2 = u2
  u3 = u3
  Ids = {i1, i2}
  DeviceIds = {d1, d2}
  Jobs = {j1, j2}
  Refreshes = {r1, r2}
  Urls = {u1, u2, u3}
  BadKeys = {u3}
  None = None
  Garbage = Garbage
  MaxAge = 1
  PruneAge = 1
  MaxClock = 2
  MaxFaults = 1
  MaxBox = 2
  Workloads <- EndpointWorkloads
SYMMETRY Symmetry
PROPERTIES FlagOutlivesOtherUpdates
