----------------------------- MODULE MCSessions -----------------------------
(***************************************************************************)
(* Instances of Devices, and so of SessionCache, for TLC.  A run examines  *)
(* several workloads, one of which is chosen at the start.                 *)
(***************************************************************************)
EXTENDS Devices, TLC, FiniteSets

CONSTANTS i1, i2, j1, j2, d1, d2, r1, r2, u1, u2, u3, Workloads

VARIABLE workload

mcvars == <<vars, workload>>

\* What a workload is unless it says otherwise: one session exists.
Plain == [ops |-> {}, tasks |-> {}, jobs |-> {j1, j2}, rows |-> {i1}, devs |-> {},
          refs |-> {}, clock |-> 0, faults |-> 0, dead |-> {}, sessions |-> Ids,
          devices |-> DeviceIds, urls |-> {}, first |-> u1]

\* Sessions only; what has expired, with a device beside; devices that are
\* made up and registered; endpoints that are given up; one with an invalid key;
\* refresh tokens, and one whose device is disconnected while a session is used;
\* commands.
SessionWorkloads ==
  [sessions |-> [Plain EXCEPT !.ops = {"create", "touch", "close", "wipe"}, !.clock = 1],
   failures |-> [Plain EXCEPT !.ops = {"create", "touch", "update", "list"},
                              !.faults = 1],
   expiry |-> [Plain EXCEPT !.ops = {"touch", "prune", "list"}, !.rows = Ids,
                            !.devs = {d1}, !.clock = 2],
   sign |-> [Plain EXCEPT !.tasks = {"sign", "register", "destroy"}],
   others |-> [Plain EXCEPT !.tasks = {"sign"}, !.rows = Ids, !.devs = {d1}],
   endpoints |-> [Plain EXCEPT !.tasks = {"register", "notify"}, !.devs = {d1}, !.dead = {u1},
                               !.rows = Ids, !.urls = {u2}],
   keys |-> [Plain EXCEPT !.tasks = {"register", "notify", "invoke"}, !.devs = {d1},
                          !.urls = {u2}, !.first = u3],
   tokens |-> [Plain EXCEPT !.tasks = {"grant", "register", "destroy"}, !.refs = {r1, r2},
                            !.rows = {}],
   disconnect |-> [Plain EXCEPT !.tasks = {"grant", "destroy"}, !.ops = {"close"},
                                !.refs = {r1}, !.devices = {d1}, !.sessions = {i1},
                                !.faults = 1],
   commands |-> [Plain EXCEPT !.tasks = {"invoke", "destroy"}, !.devs = {d1},
                              !.faults = 1]]

\* One device that is renamed.
EndpointWorkloads ==
  [endpoints |-> [SessionWorkloads.endpoints EXCEPT !.jobs = {j1}]]

W == Workloads[workload]
Within ==
  /\ clock' <= W.clock
  /\ faults' <= W.faults
  /\ dead' \subseteq W.dead
  /\ DOMAIN rows' \subseteq W.sessions
  /\ DOMAIN devs' \subseteq W.devices
  /\ \A j \in Jobs :
       /\ job'[j] # None => j \in W.jobs
       /\ job'[j] # None /\ job[j] = None =>
            \/ job'[j].op \in W.ops \cup {"drop"}
            \/ task'[j] # None /\ task'[j].op = "sign" /\ task' # task
       /\ task'[j] # None => j \in W.jobs /\ task'[j].op \in W.tasks
                              /\ task'[j].url \in W.urls \cup {None}
  /\ live' \subseteq W.refs

NewRow == [created |-> 0, accessed |-> 0]
MCInit ==
  /\ workload \in DOMAIN Workloads
  /\ rows = [i \in W.rows |-> NewRow]
  /\ devs = [d \in W.devs |-> i1]
  /\ reg = [d \in W.devs |-> [ref |-> None, url |-> W.first, gone |-> FALSE]]
  /\ linked = {i1} \X W.devs
  /\ cache = Empty
  /\ job = [j \in Jobs |-> None] /\ task = [j \in Jobs |-> None]
  /\ clock = 0 /\ faults = 0 /\ excused = {}
  /\ dead = {} /\ live = {} /\ box = [d \in DeviceIds |-> 0]
  /\ held = {} /\ lost = {} /\ certs = {} /\ notices = {}
MCSpec == MCInit /\ [][Next /\ Within /\ UNCHANGED workload]_mcvars

Symmetry == Permutations(Jobs)
=============================================================================
