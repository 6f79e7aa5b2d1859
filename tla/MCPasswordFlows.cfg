\* Requests that prove, replace and use the password.
\* The bounds on tokens and passwords bring the system to rest.
CHECK_DEADLOCK FALSE
SPECIFICATION MCSpec
CONSTANTS
  Jobs = {j1, j2}
  Passwords = {p1, p2}
  Slots = {s1, s2}
  Ops = {"login", "changeStart", "changeFinish", "forgotSend", "forgotVerify", "reset", "keys"}
  None = None
  MaxClock = 2
  MaxTokens = 3
  MaxFaults = 1
  Workloads <- RequestWorkloads
SYMMETRY Symmetry
INVARIANTS OldCredentialsWereOvertaken SecondFactorHolds QuietMeansAnnounced
PROPERTIES ChangeKeepsKeys PromisedSerially
