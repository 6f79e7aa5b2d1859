\* The reminder script.
\* The bounds on codes and on the clock bring the system to rest.
CHECK_DEADLOCK FALSE
SPECIFICATION MCFairSpec
CONSTANTS
  Jobs = {j1, j2}
  Addresses = {a1, a2}
  a1 = a1
  a2 = a2
  None = None
  Keys = {1, 2}
  Interval <- MCInterval
  BounceWindow = 1
  MinUnverified = 1
  MaxClock = 2
  MaxIds = 3
  MaxFaults = 1
  MaxRefusals = 1
  Workloads <- ReminderWorkloads
INVARIANTS RemindedOnce
PROPERTIES EveryoneIsReminded
