----------------------------- MODULE MCTokenPurge -----------------------------
(***************************************************************************)
(* Instances of TokenPurge for TLC.  A run examines several workloads, one *)
(* of which is chosen at the start: which command lines of the script are  *)
(* used, beside how many tokens, for how long.                             *)
(***************************************************************************)
EXTENDS TokenPurge, TLC

CONSTANTS pocket, relier, scan, byId, byId2, bulk, bulkById, cron, Workloads

VARIABLE workload

mcvars == <<vars, workload>>

MCIgnored == [p \in Purgers |-> {pocket}]
MCTokenCount == [p \in Purgers |-> IF p = cron THEN 2 ELSE 3]
MCBatchSize == [p \in Purgers |-> IF p = cron THEN 1 ELSE 2]

\* Runs of both strategies, of which one crashes or loses its lock, so that
\* they overlap; a backlog of more tokens than a run is to delete; and a run by
\* scan that is started over and over.
PurgeWorkloads ==
  [overlap |-> [purgers |-> {byId, byId2, scan}, lifetimes |-> {1},
                tokens |-> 3, time |-> 3, crashes |-> 1],
   backlog |-> [purgers |-> {bulk, bulkById}, lifetimes |-> {0},
                tokens |-> 5, time |-> 1, crashes |-> 0],
   cron |-> [purgers |-> {cron}, lifetimes |-> {0, 1},
             tokens |-> 3, time |-> 3, crashes |-> 1]]

\* A run by id that is started over and over.
ByIdWorkloads ==
  [cron |-> [purgers |-> {byId}, lifetimes |-> {1}, tokens |-> 3, time |-> 3,
             crashes |-> 0]]

\* A step that workload w allows.
Within(w) ==
  /\ now' <= w.time
  /\ issued' <= w.tokens
  /\ crashes' <= w.crashes
  /\ \A p \in Purgers \ w.purgers : pc'[p] = "idle"
  /\ \A t \in tokens' \ tokens : t.expiresAt - now \in w.lifetimes

MCInit == Init /\ workload \in DOMAIN Workloads
MCStep == Within(Workloads[workload]) /\ UNCHANGED workload
MCNext == Next /\ MCStep
MCSpec == MCInit /\ [][MCNext]_mcvars
\* The fairness of FairSpec, for workloads with one command line.
MCFairSpec ==
  /\ MCSpec
  /\ WF_mcvars(Tick /\ MCStep)
  /\ WF_mcvars((\E p \in Purgers : Start(p) \/ Purge(p)) /\ MCStep)

\* When the script purges by scan again and again, expired tokens that no run
\* ignores do not stay (purgeExpiredTokens).
CronPurges == (workload = "cron") => ExpiredIsPurged
=============================================================================
