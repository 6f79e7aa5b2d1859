---------------------------- MODULE MCOAuthClients ----------------------------
(***************************************************************************)
(* Instances of OAuthClients for TLC.  A run examines several workloads,   *)
(* one of which is chosen at the start.                                    *)
(***************************************************************************)
EXTENDS OAuthClients, TLC

CONSTANTS e1, e2, n1, n2, p1, r1, r2, s1, s2, s3, u1, u2, x1, x2, Workloads

VARIABLE workload

mcvars == <<vars, workload>>

\* The configuration of the client, and what an older one left in its row
MCPredefined == [p \in {p1} |-> [name |-> n1, canGrant |-> FALSE, public |-> TRUE]]
MCOlder == {[id |-> p1, name |-> n2, canGrant |-> FALSE, public |-> FALSE]}

Plain == [kinds |-> {}, emails |-> {e1}, requests |-> {r1}, servers |-> {s1}, names |-> {n1},
          ids |-> 0, faults |-> FALSE, grants |-> FALSE, older |-> FALSE]

\* Developers and what they own; registrations that fail half-way; servers that
\* start beside each other, beside one that does not update clients, and beside
\* developers; grants.
ClientWorkloads ==
  [developers |-> [Plain EXCEPT !.kinds = {"activate", "register", "delete", "list"},
                     !.emails = Emails, !.requests = Requests, !.ids = 4],
   updates |-> [Plain EXCEPT !.kinds = {"activate", "register", "update", "delete"},
                  !.requests = Requests, !.names = Names, !.ids = 3],
   failures |-> [Plain EXCEPT !.kinds = {"activate", "register", "delete"},
                   !.requests = Requests, !.ids = 3, !.faults = TRUE],
   servers |-> [Plain EXCEPT !.servers = {s1, s2}, !.faults = TRUE, !.older = TRUE],
   updaters |-> [Plain EXCEPT !.servers = {s1, s3}, !.faults = TRUE, !.older = TRUE],
   beside |-> [Plain EXCEPT !.kinds = {"activate", "register", "delete", "update"},
                 !.servers = {s1, s2}, !.ids = 3],
   grants |-> [Plain EXCEPT !.ids = 3, !.grants = TRUE],
   removals |-> [Plain EXCEPT !.kinds = {"activate", "register", "delete"}, !.ids = 4,
                   !.grants = TRUE]]

Symmetry == Permutations(Users)

W == Workloads[workload]

Within ==
  /\ \A r \in Requests :
       /\ req'[r].kind \in W.kinds \cup {"none"}
       /\ req'[r].email \in W.emails \cup {None}
       /\ req'[r].at # "idle" => r \in W.requests
       /\ req'[r].kind \in {"register", "update"} =>
            req'[r].set.name \in W.names \cup {None}
  /\ \A s \in Servers : server'[s].at # "down" => s \in W.servers
  /\ nextId' <= W.ids + 1
  /\ \A t \in MySQL!Grants : \A g \in my'[t] :
       W.kinds # {} => g.client \notin DOMAIN Predefined
  /\ failed' => W.faults

MCInit ==
  /\ workload \in DOMAIN Workloads
  /\ Init
  /\ my.clients # {} => W.older

MCNext ==
  /\ \/ \E r \in Requests : RequestStep(r)
     \/ \E s \in Servers : ServerStep(s)
     \/ W.grants /\ ~split /\ GrantStep
  /\ Within
  /\ UNCHANGED workload

MCSpec == MCInit /\ [][MCNext]_mcvars
===============================================================================
