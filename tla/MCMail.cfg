\* Mail and what bounces.
\* The bounds bring the system to rest.
CHECK_DEADLOCK FALSE
SPECIFICATION MCSpec
CONSTANTS
  a1 = a1
  a2 = a2
  hard = hard
  soft = soft
  ses = ses
  sendgrid = sendgrid
  s1 = s1
  s2 = s2
  m1 = m1
  m2 = m2
  h1 = h1
  h2 = h2
  f1 = f1
  f2 = f2
  Addresses = {a1, a2}
  Primary = a1
  Types = {hard, soft}
  Rules <- MCRules
  Services = {ses, sendgrid}
  Sends = {s1, s2}
  Handlers = {h1, h2}
  Notes = {m1, m2}
  Fetches = {f1, f2}
  None = None
  MaxClock = 3
  MaxFaults = 2
  MaxBounces = 8
  Workloads <- MailWorkloads
INVARIANTS MailIsForTheOpen NoBounceIsForgotten
PROPERTIES NotesAreHandled
