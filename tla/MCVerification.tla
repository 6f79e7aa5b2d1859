--------------------------- MODULE MCVerification ---------------------------
(***************************************************************************)
(* Instances of SessionVerification, and so of SigninGates, for TLC.  A    *)
(* run examines several workloads, one of which is chosen at the start.    *)
(***************************************************************************)
EXTENDS SessionVerification, TLC, FiniteSets

CONSTANTS i1, i2, i3, r1, r2, f1, k1, k2, s1, s2, v1, v2, v3, Workloads

VARIABLE workload

mcvars == <<vars, workload>>

\* What a workload is unless it says otherwise: one session, verified by mail.
Plain == [ops |-> {}, requests |-> 2, sessions |-> {i1}, secrets |-> {s1},
          codes |-> {}, signin |-> {}, clock |-> 0, faults |-> 0, batch |-> 1, unverified |-> {},
          assured |-> {}, totp |-> None, steps |-> FALSE,
          most |-> Sessions]

\* A second factor set up, twice at a time, looked for and removed; used, and
\* the codes replaced; copies of sessions; sign-ins with unblock codes; SMS.
VerificationWorkloads ==
  [setup |-> [Plain EXCEPT !.ops = {"create", "totp", "exists", "destroy"}, !.secrets = {s1, s2},
                           !.batch = 2],
   faulty |-> [Plain EXCEPT !.ops = {"create", "totp", "destroy"}, !.faults = 1],
   remove |-> [Plain EXCEPT !.ops = {"destroy", "totp", "recovery", "replace"}, !.batch = 2,
                            !.sessions = {i1, i2}, !.unverified = {i2}, !.totp = s1, !.faults = 1],
   copies |-> [Plain EXCEPT !.ops = {"recovery", "totp", "duplicate"},
                            !.unverified = {i1}, !.totp = s1, !.steps = TRUE, !.requests = 1,
                            !.most = {i1, i2}],
   assured |-> [Plain EXCEPT !.ops = {"duplicate", "destroy", "create"}, !.assured = {i1},
                             !.totp = s1, !.steps = TRUE],
   reauth |-> [Plain EXCEPT !.ops = {"reauth", "duplicate"}, !.sessions = {i1, i2},
                            !.unverified = {i1}, !.totp = s1, !.faults = 1],
   unblock |-> [Plain EXCEPT !.ops = {"reauth"}, !.unverified = {i1}, !.codes = {k1},
                             !.clock = 2],
   signin |-> [Plain EXCEPT !.signin = Codes, !.codes = {k1}, !.clock = 1]]

W == Workloads[workload]
Within ==
  /\ clock' <= W.clock
  /\ faults' <= W.faults
  /\ DOMAIN unblock' \subseteq W.codes
  /\ DOMAIN rows' \subseteq W.most
  /\ DOMAIN signin' \subseteq W.signin
  /\ batch' <= W.batch
  /\ totp' # None => totp'.secret \in W.secrets
  /\ \A r \in Requests : job'[r] # None /\ job[r] = None => job'[r].op \in W.ops
  /\ \A r \in Requests : gate'[r] # None => gate'[r].code \in W.codes \cup {None}
  /\ Cardinality({r \in Requests : job'[r] # None}) <= W.requests
  \* Without them, sessions change only by requests.
  /\ rows' # rows /\ job' = job => W.steps

MCInit ==
  /\ GInit
  /\ workload \in DOMAIN Workloads
  /\ rows = [i \in W.sessions |->
       [ver |-> IF i \notin W.unverified THEN None ELSE IF i = i1 THEN v1 ELSE v2,
        coded |-> i \in W.unverified, must |-> FALSE,
        method |-> IF i \in W.assured THEN "totp-2fa" ELSE "none"]]
  /\ totp = IF W.totp = None THEN None ELSE [secret |-> W.totp, enabled |-> TRUE]
  /\ batch = (IF W.totp = None THEN 0 ELSE 1) /\ shown = {batch} \ {0}
  /\ left = IF W.totp = None THEN 0 ELSE CodeCount
  /\ job = [r \in Requests |-> None]
  /\ entered = {W.totp} \ {None} /\ earned = W.assured
  /\ overtaken = {}
  /\ swapped = FALSE /\ broken = FALSE
MCSpec == MCInit /\ [][Next /\ Within /\ UNCHANGED workload]_mcvars

Symmetry == Permutations(Requests)
=============================================================================
