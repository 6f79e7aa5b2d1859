---------------------------- MODULE MCOAuthGrants ----------------------------
(***************************************************************************)
(* Instances of OAuthGrants for TLC.  A run examines several workloads,    *)
(* one of which is chosen at the start: who is active, what they ask for,  *)
(* and how far the counters go.                                            *)
(***************************************************************************)
EXTENDS OAuthGrants, TLC

CONSTANTS app, web, bot, r1, r2, u1, u2, v1, Workloads

VARIABLE workload

mcvars == <<vars, workload>>

\* Only the public client may have the key-bearing scope.
MCAllowed == [c \in Clients |-> IF c = app THEN KeyScopes ELSE {}]

\* What a workload is unless it says otherwise.
Plain == [kinds |-> {"authorize", "exchange", "refresh"}, users |-> {u1},
          clients |-> {app}, requests |-> {r1}, events |-> {}, scopes |-> {},
          verifiers |-> {v1}, claims |-> {TRUE}, ids |-> 3, codeIds |-> 1,
          deletes |-> Owned \cup Users, redeliveries |-> 0, refused |-> TRUE,
          lapses |-> TRUE, eventKinds |-> EventKinds]

\* One request at a time: grants that begin with a code, grants made directly
\* from an assertion, and messages that fail now and then.
GrantWorkloads ==
  [codes |-> [Plain EXCEPT !.clients = Clients, !.scopes = Scopes, !.ids = 4,
                           !.verifiers = Verifiers, !.claims = Claims,
                           !.deletes = {}],
   direct |-> [Plain EXCEPT !.kinds = {"credentials", "refresh"},
                            !.clients = Clients, !.scopes = KeyScopes,
                            !.verifiers = {}, !.claims = Claims, !.codeIds = 0,
                            !.deletes = {}],
   implicit |-> [Plain EXCEPT !.kinds = {"implicit"}, !.clients = Clients,
                              !.scopes = KeyScopes, !.verifiers = {},
                              !.claims = Claims, !.ids = 2, !.codeIds = 0,
                              !.deletes = {}],
   messages |-> [Plain EXCEPT !.kinds = {"authorize", "exchange"}, !.events = Events,
                             !.redeliveries = 1, !.deletes = Users]]

\* Two requests of one user beside an account event, two users, clients of all
\* kinds, and deleteClientAuthorization among other requests.  Requests that
\* are refused before they read a row, lapsed codes (they are refused too) and
\* messages that the server ignores change nothing here, and are left out.
Served == [Plain EXCEPT !.refused = FALSE, !.lapses = FALSE,
                        !.eventKinds = EventKinds \ {"other"}]
RevocationWorkloads ==
  [races |-> [Served EXCEPT !.kinds = {"authorize", "exchange"},
                           !.requests = {r1, r2}, !.events = Events,
                           !.redeliveries = 1],
   users |-> [Served EXCEPT !.kinds = {"authorize", "exchange",
                                      "destroyRefresh", "revoke"},
                           !.users = {u1, u2}, !.deletes = {u1},
                           !.events = Events],
   clients |-> [Served EXCEPT !.kinds = {"authorize", "exchange", "implicit"},
                              !.clients = {web, bot}, !.events = Events,
                              !.eventKinds = {"passwordChange"}],
   grantors |-> [Served EXCEPT !.kinds = {"implicit", "revoke"},
                               !.clients = {web, bot}, !.users = {u1, u2},
                               !.deletes = {web}, !.events = Events, !.ids = 2,
                               !.eventKinds = {"passwordChange"}],
   deauthorize |-> [Served EXCEPT !.kinds = {"authorize", "exchange",
                                      "destroyAccess", "destroyRefresh",
                                      "revoke"},
                                 !.requests = {r1, r2}]]

\* A step that workload w allows.
Within(w) ==
  /\ nextId' <= (IF codes' \subseteq codes THEN w.ids ELSE w.codeIds) + 1
  /\ active \ active' \subseteq w.users \cap w.deletes
  /\ clients \ clients' \subseteq w.deletes
  /\ w.lapses \/ lapsed' = lapsed
  /\ job' # job => \A r \in Requests : job'[r].kind # "none" =>
       /\ at'[r] = "getClient" => w.refused \/ Accepts(job'[r])
       /\ job'[r].kind \in w.kinds
       /\ job'[r].client \in w.clients \cup {None}
       /\ job'[r].proof \in w.verifiers \cup {Secret, None}
       /\ job'[r].scope \subseteq w.scopes
       /\ job'[r].user \in w.users \cup {None}
       /\ job'[r].grant # NoGrant =>
            /\ job'[r].grant.user \in w.users
            /\ job'[r].grant.origin.scope \subseteq w.scopes
            /\ job'[r].grant.origin.verified \in w.claims
            /\ job'[r].grant.origin.challenge \in w.verifiers \cup {None}
  /\ event' # event => \A e \in Events :
       /\ event'[e].status # "unsent" => e \in w.events
       /\ event'[e].user \in w.users \cup {None}
       /\ event'[e].status # "unsent" => event'[e].kind \in w.eventKinds
       /\ event'[e].redeliveries <= w.redeliveries

MCInit == Init /\ workload \in DOMAIN Workloads
MCStep == Within(Workloads[workload]) /\ UNCHANGED workload
MCNext ==
  /\ (\E r \in Workloads[workload].requests : RequestStep(r)) \/ OtherStep
  /\ MCStep
MCSpec == MCInit /\ [][MCNext]_mcvars
MCFairSpec ==
  MCSpec /\ \A e \in Events : WF_mcvars(HandlerStep(e) /\ MCStep)

\* Beside the requests of workload "messages", a queued message takes effect
\* (events.js, mysql/index.js removeUser).
MessagesTakeEffect == (workload = "messages") => EventTakesEffect

Symmetry == Permutations(Requests)
=============================================================================
