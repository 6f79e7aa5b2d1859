--------------------------- MODULE MCAccountEmails ---------------------------
(***************************************************************************)
(* Instances of VerificationReminders, and so of AccountEmails, for TLC.   *)
(* A run examines several workloads, one of which is chosen at the start.  *)
(***************************************************************************)
EXTENDS VerificationReminders, TLC

CONSTANTS a1, a2, Workloads

VARIABLE workload

mcvars == <<vars, workload>>

\* The second reminder is due later than the first.
MCInterval == [k \in Keys |-> k]

\* What a workload is unless it says otherwise.
Plain == [ops |-> Ops, jobs |-> 2, addresses |-> Addresses, ids |-> 2,
          clock |-> 0, faults |-> 0, refusals |-> 0, signins |-> 0,
          resend |-> FALSE, freely |-> FALSE, script |-> FALSE]

\* Requests about the addresses of one account.
Own == {"create", "add", "verify", "setPrimary", "destroyEmail"}

\* One request at a time; with calls that fail; two at a time, with sessions
\* that wait for a link; with links that are mailed again and posted with any
\* type; the same with sessions; and two requests of one account.
EmailWorkloads ==
  [serial |-> [Plain EXCEPT !.jobs = 1, !.ids = 3, !.clock = 1],
   failures |-> [Plain EXCEPT !.clock = 1, !.faults = 1, !.jobs = 1,
                              !.freely = TRUE],
   races |-> [Plain EXCEPT !.signins = 1],
   links |-> [Plain EXCEPT !.ops = Own \ {"destroyEmail"}, !.resend = TRUE, !.freely = TRUE],
   sessions |-> [Plain EXCEPT !.ops = Own \ {"destroyEmail"}, !.jobs = 1, !.signins = 1,
                              !.resend = TRUE, !.freely = TRUE],
   own |-> [Plain EXCEPT !.ops = Own, !.ids = 3]]

\* The script beside one request at a time: two accounts; and one that may be
\* verified or deleted meanwhile, where a mail may fail and the script die.
ReminderWorkloads ==
  [two |-> [Plain EXCEPT !.ops = {"create"}, !.clock = 2, !.jobs = 1,
                         !.script = TRUE],
   one |-> [Plain EXCEPT !.ops = {"create", "verify", "erase"}, !.clock = 2,
                         !.jobs = 1, !.script = TRUE, !.addresses = {a1},
                         !.ids = 1, !.refusals = 1, !.faults = 1]]

\* The type that the page behind a link posts.
Usual(post) ==
  post.type = "secondary" <=> post.link.code.kind = "email" /\ post.link.code.id # post.link.uid

\* A step that workload w allows.
Within(w) ==
  /\ drawn' <= w.ids
  /\ clock' <= w.clock
  /\ faults' <= w.faults
  /\ refusals' <= w.refusals
  /\ Cardinality(signins') <= w.signins
  /\ phase' = Idle \/ w.script
  /\ job' # job =>
       /\ Cardinality({j \in Jobs : job'[j] # None}) <= w.jobs
       /\ \A j \in Jobs : job'[j] # None =>
            /\ job'[j].op \in w.ops
            /\ job'[j].address \in w.addresses \cup {None}
            /\ job'[j].op = "verify" => w.freely \/ Usual(job'[j].post)
  /\ mail' # mail => job' # job \/ signins' # signins
                     \/ w.resend

MCInit == Init /\ workload \in DOMAIN Workloads
MCStep == Within(Workloads[workload]) /\ UNCHANGED workload
MCNext == Next /\ MCStep
MCSpec == MCInit /\ [][MCNext]_mcvars
MCFairSpec ==
  /\ MCSpec
  /\ WF_mcvars(Script /\ faults' = faults /\ MCStep)
  /\ WF_mcvars(Tick /\ UNCHANGED rvars /\ MCStep)

\* As long as requests do not overlap, with each other or with the script, a
\* verified address is given up only by a request of its own account (account.js
\* and emails.js deleteAccountIfUnverified, bounces.js
\* deleteAccountIfUnverifiedNew), no reminder outlives the verification of its
\* account (verification-reminders.js create and delete), and what becomes a
\* primary address "must belong to the user and be verified" (docs/api.md, POST
\* /recovery_email/set_primary), though set_primary checks it one call earlier.
PromisedSerially ==
  [][workload = "serial" =>
       /\ KeepsVerified
       /\ RemindersStopAtVerification'
       /\ PromotedAreVerified']_mcvars

Symmetry == Permutations(Jobs) \cup Permutations(Addresses)
=============================================================================
