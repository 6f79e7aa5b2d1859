--------------------------- MODULE MCPasswordFlows ---------------------------
(***************************************************************************)
(* Instances of PasswordFlows for TLC.  A run examines several workloads,  *)
(* one of which is chosen at the start: the kinds of request in play, how  *)
(* many at once, what they ask for, and how far the counters go.           *)
(***************************************************************************)
EXTENDS PasswordFlows, TLC

CONSTANT Workloads

VARIABLE workload

mcvars == <<vars, workload>>

\* What a workload is unless it says otherwise.
Plain == [ops |-> Ops, wants |-> {"keys"}, jobs |-> 2, change |-> TRUE,
          clock |-> 2, tokens |-> 2, faults |-> 0]

\* Two requests at a time: what may overtake a change, what may overtake a
\* reset, and (where all passwords are the same) changes and resets.  And one
\* request at a time, where calls may fail, or keys are asked for.
RequestWorkloads ==
  [change |-> [Plain EXCEPT !.ops = {"login", "changeStart", "changeFinish"}],
   reset |-> [Plain EXCEPT !.ops = {"login", "forgotSend", "forgotVerify",
                                    "reset"}],
   mixed |-> [Plain EXCEPT !.ops = Ops \ {"login", "keys"}, !.wants = {"session"},
                           !.tokens = 3, !.change = FALSE],
   serial |-> [Plain EXCEPT !.ops = Ops \ {"keys"}, !.wants = {"nothing", "session"},
                            !.jobs = 1, !.faults = 1],
   keys |-> [Plain EXCEPT !.jobs = 1, !.clock = 1]]

Serially == workload \in {"serial", "keys"}

\* A step that workload w allows.
Within(w) ==
  /\ clock' <= w.clock
  /\ issued' <= w.tokens
  /\ faults' <= w.faults
  /\ job' # job =>
       /\ Cardinality({j \in Jobs : job'[j].op # "none"}) <= w.jobs
       /\ \A j \in Jobs :
            /\ job'[j].op \in w.ops \cup {"none"}
            /\ job'[j].op \in {"login", "changeFinish", "reset"} =>
                 /\ job'[j].wants \in w.wants
                 /\ w.change \/ job'[j].pw = account.pw

MCInit == Init /\ workload \in DOMAIN Workloads
MCNext == Next /\ Within(Workloads[workload]) /\ UNCHANGED workload
MCSpec == MCInit /\ [][MCNext]_mcvars

\* What the documentation promises, and holds of one request at a time, also if
\* calls fail: a forgot token admits a limited number of wrong codes (password.js
\* failVerifyAttempt), no session outlives the password it was made with
\* (db.resetAccount), and reset and change tokens are single-use (account.js
\* /account/reset, password.js /password/change/finish).
PromisedSerially ==
  [][Serially => /\ SubmissionsAreLimited'
                 /\ SessionsDieWithThePassword'
                 /\ SpendsNewToken]_mcvars

Symmetry == Permutations(Jobs) \cup Permutations(Passwords) \cup Permutations(Slots)
=============================================================================
