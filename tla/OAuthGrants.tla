----------------------------- MODULE OAuthGrants -----------------------------
(***************************************************************************)
(* The grants of fxa-oauth-server: authorization codes, access tokens and  *)
(* refresh tokens, the requests that turn one into another, and the        *)
(* handlers that revoke them.                                              *)
(*                                                                         *)
(* A request handler is an async function, and every `await db.f()` in it  *)
(* is a point at which other requests run.  So a request is a process with *)
(* a position `at`, and an action is one SQL statement of the MySQL store  *)
(* together with the synchronous code around it.  Any statement may fail,  *)
(* which ends the request where it stands: nothing is rolled back.         *)
(*                                                                         *)
(* Account events reach the server through an SQS queue, which delivers    *)
(* each one at least once and in no particular order.                      *)
(***************************************************************************)
EXTENDS Naturals, FiniteSets

CONSTANTS
  Users, Clients,
  Publics,          \* clients with publicClient = 1
  CanGrant,         \* clients with canGrant = 1
  Trusted,          \* clients with trusted = 1
  Scopes,
  KeyScopes,        \* scopes with hasScopedKeys = 1
  BasicScopes,      \* UNTRUSTED_CLIENT_ALLOWED_SCOPES
  Allowed,          \* client -> its allowedScopes
  Owned,            \* clients registered by a developer, who may delete them
  Claims,           \* values of the claim fxa-tokenVerified
  Verifiers,        \* PKCE verifiers (each with its challenge)
  Secret,           \* the secret of a confidential client
  None,
  Requests,         \* request handlers that may be in flight at once
  Endpoints,        \* the kinds of request the clients make
  Events,           \* messages of the account event queue
  MaxId,            \* bound: how many codes and tokens are ever created
  MaxCodeId,        \* bound: no code is created once this many ids are in use
  MaxRedeliveries   \* bound: how often one message is delivered again

ASSUME ConstantsAssumption ==
  /\ Publics \subseteq Clients
  /\ CanGrant \subseteq Clients
  /\ Trusted \subseteq Clients
  /\ KeyScopes \subseteq Scopes
  /\ BasicScopes \subseteq Scopes
  /\ Allowed \in [Clients -> SUBSET Scopes]
  /\ None \notin Users \cup Clients \cup Verifiers
  /\ Secret \notin Verifiers \cup {None}
  /\ Owned \subseteq Clients
  /\ Claims \subseteq BOOLEAN
  /\ MaxId \in Nat
  /\ MaxCodeId \in Nat
  /\ MaxRedeliveries \in Nat

AssertionKinds == {"authorize", "implicit", "credentials"}
ExchangeKinds  == {"exchange", "refresh"}
DestroyKinds   == {"destroyAccess", "destroyRefresh"}
Kinds == AssertionKinds \cup ExchangeKinds \cup DestroyKinds \cup {"revoke"}

ASSUME EndpointsAssumption == Endpoints \subseteq Kinds

VARIABLES
  codes,          \* rows of table codes
  tokens,         \* rows of table tokens
  refreshTokens,  \* rows of table refreshTokens
  lapsed,         \* ids of the codes older than expiration.code
  clients,        \* ids of the rows of table clients
  nextId,         \* the next value of unique.code() or unique.token()
  at,             \* request -> the statement it is about to issue
  job,            \* request -> its parameters and local variables
  active,         \* users whose account the auth server has not deleted
  event           \* message -> where it stands

vars == <<codes, tokens, refreshTokens, lapsed, clients, nextId, at, job,
          active, event>>

-----------------------------------------------------------------------------
(* Rows and requests.                                                      *)

\* What a user approved when the grant at the root of a row was requested:
\* the verified claims and the request parameters.  `verified` is the claim
\* fxa-tokenVerified, `challenge` the PKCE challenge.
Origins == [user : Users, client : Clients, scope : SUBSET Scopes,
            verified : Claims, challenge : Verifiers \cup {None}]

\* A grant is the object passed to generateCode and generateTokens.  `origin`
\* and `asked` are not stored by the code: which approval the grant descends
\* from, and the id counter when the assertion for it was presented.
Grants == [user : Users, client : Clients, scope : SUBSET Scopes,
           offline : BOOLEAN, origin : Origins, asked : Nat]
NoGrant == [user |-> None]

Proofs == Verifiers \cup {Secret, None}

\* To whom an access token was given: the client that made the request, what
\* it proved itself with, what kind of request it was, the code it traded (0:
\* it did not trade one), and the id counter when the request arrived.
Receipts == [client : Clients, proof : Proofs, kind : Kinds, code : Nat,
             since : Nat]

CodeRows    == [id : Nat, grant : Grants]
AccessRows  == [id : Nat, grant : Grants, receipt : Receipts]
RefreshRows == [id : Nat, grant : Grants]

Tables == {"codes", "tokens", "refreshTokens"}

Steps == {"idle", "getClient", "getCode", "removeCode", "insertCode",
          "getRefreshToken", "usedRefreshToken", "insertAccess",
          "insertRefresh", "getToken", "removeToken", "revoke"}

\* The parameters and locals of a request: the client that makes it, what it
\* authenticates with, the code or token it presents, the scope it asks for,
\* the grant it holds.  For deleteClientAuthorization: whose authorization it
\* deletes, the statements still to come, and whether one failed.  `since` is
\* the id counter when a request with a code or token, or one to revoke, began.
Jobs == [kind : Kinds \cup {"none"}, client : Clients \cup {None},
         proof : Proofs, target : Nat, scope : SUBSET Scopes,
         grant : Grants \cup {NoGrant}, user : Users \cup {None},
         left : SUBSET Tables, failed : BOOLEAN, since : Nat]
NoJob == [kind |-> "none", client |-> None, proof |-> None, target |-> 0,
          scope |-> {}, grant |-> NoGrant, user |-> None, left |-> {},
          failed |-> FALSE, since |-> 0]

\* The messages of the queue.  `reset` is handled by the same case as
\* `passwordChange`; "other" stands for the events the server ignores and the
\* messages whose uid is not a hex string.
EventKinds == {"delete", "passwordChange", "other"}
Running == {"tokens", "refreshTokens", "codes"}
\* `horizon` and `raced` are not stored by the code.  They record the id
\* counter when the handler last started, and whether some request held or
\* obtained a grant of the user while the handler ran.
EventRecords == [status : {"unsent", "queued", "done"} \cup Running,
                 user : Users \cup {None}, kind : EventKinds,
                 horizon : Nat, raced : BOOLEAN, redeliveries : Nat]

Issued == 1..(nextId - 1)

TypeOK ==
  /\ codes \subseteq CodeRows
  /\ tokens \subseteq AccessRows
  /\ refreshTokens \subseteq RefreshRows
  /\ lapsed \subseteq Nat
  /\ clients \subseteq Clients
  /\ nextId \in Nat \ {0}
  /\ at \in [Requests -> Steps]
  /\ job \in [Requests -> Jobs]
  /\ active \subseteq Users
  /\ event \in [Events -> EventRecords]

Init ==
  /\ codes = {}
  /\ tokens = {}
  /\ refreshTokens = {}
  /\ lapsed = {}
  /\ clients = Clients
  /\ nextId = 1
  /\ at = [r \in Requests |-> "idle"]
  /\ job = [r \in Requests |-> NoJob]
  /\ active = Users
  /\ event = [e \in Events |-> [status |-> "unsent", user |-> None,
                                kind |-> "other", horizon |-> 0,
                                raced |-> FALSE, redeliveries |-> 0]]

-----------------------------------------------------------------------------
(* Bookkeeping shared by the request handlers.                             *)

\* The messages being handled for u: a request that gets hold of a grant of u
\* now runs concurrently with their handler.
RaceWith(u) ==
  [e \in Events |->
     IF event[e].user = u /\ event[e].status \in Running
     THEN [event[e] EXCEPT !.raced = TRUE] ELSE event[e]]

\* Request r arrives with parameters j; its first statement is s.
Arrive(r, j, s) ==
  /\ j.kind \in Endpoints
  /\ job' = [job EXCEPT ![r] = j]
  /\ at' = [at EXCEPT ![r] = s]

\* Request r goes on to statement s.
GoTo(r, s) == at' = [at EXCEPT ![r] = s]

\* Request r has answered, or has thrown.
Return(r) ==
  /\ at' = [at EXCEPT ![r] = "idle"]
  /\ job' = [job EXCEPT ![r] = NoJob]

\* INSERT of a row under a fresh random id.
Fresh == nextId <= MaxId /\ nextId' = nextId + 1

-----------------------------------------------------------------------------
(* POST /authorization and POST /token: what they check before the first   *)
(* row is read.                                                            *)

\* Mutant: a refresh token is taken for proof enough.
MutantAuthenticatesClient(j) ==
  IF j.client \in Publics THEN j.proof # Secret
  ELSE j.proof = Secret \/ j.kind = "refresh"

\* authenticateClient
AuthenticatesClient(j) ==
  IF j.client \in Publics THEN j.proof # Secret ELSE j.proof = Secret

\* validateRequestedGrant.  A mismatch of acr_values, which only refuses more
\* requests, is one of the failures of Fail.
ValidGrant(o) ==
  /\ o.client \in Trusted \/ o.scope \subseteq BasicScopes
  /\ o.scope \cap KeyScopes # {} =>
       /\ o.scope \cap KeyScopes \subseteq Allowed[o.client]
       /\ o.verified

\* What each endpoint requires of the client and of the requested grant.
Accepts(j) ==
  \/ /\ j.kind = "authorize"
     /\ ValidGrant(j.grant.origin)
     /\ (j.client \in Publics) <=> (j.grant.origin.challenge # None)
  \/ /\ j.kind = "implicit"
     /\ ValidGrant(j.grant.origin)
     /\ j.client \in CanGrant
  \/ /\ j.kind = "credentials"
     /\ AuthenticatesClient(j)
     /\ j.client \in CanGrant \cap Publics
     /\ ValidGrant(j.grant.origin)
  \/ /\ j.kind = "exchange"
     /\ AuthenticatesClient(j)
     /\ j.proof \in Verifiers => j.client \in Publics
  \/ /\ j.kind = "refresh"
     /\ AuthenticatesClient(j)

\* A request with an identity assertion.  The assertion is checked for itself
\* (lib/assertion.js: signature, audience, expiry), and nobody asks whether the
\* account still exists: one made before the account was deleted is accepted
\* afterwards, for as long as it, or the certificate it is made with, is valid.
ArriveWithAssertion(r) ==
  /\ at[r] = "idle"
  /\ \E k \in AssertionKinds \cap Endpoints, o \in Origins, off \in BOOLEAN :
     \E p \in IF k = "credentials" THEN Proofs ELSE {None} :
       /\ k # "authorize" => o.challenge = None
       /\ Arrive(r, [NoJob EXCEPT !.kind = k, !.client = o.client, !.proof = p,
                       !.grant = [user |-> o.user, client |-> o.client,
                                  scope |-> o.scope, offline |-> off,
                                  origin |-> o, asked |-> nextId]],
                 "getClient")
       /\ event' = RaceWith(o.user)
  /\ UNCHANGED <<codes, tokens, refreshTokens, lapsed, clients, nextId,
                 active>>

\* A request that trades a code or a refresh token.  Joi lets a code request
\* carry a client secret or a code verifier, not both.
ArriveWithCredential(r) ==
  /\ at[r] = "idle"
  /\ \E k \in ExchangeKinds \cap Endpoints, c \in Clients, p \in Proofs,
        i \in Issued, s \in SUBSET Scopes :
       /\ k = "exchange" => s = {}
       /\ k = "refresh" => p \notin Verifiers
       /\ Arrive(r, [NoJob EXCEPT !.kind = k, !.client = c, !.proof = p,
                       !.target = i, !.scope = s, !.since = nextId],
                 "getClient")
  /\ UNCHANGED <<codes, tokens, refreshTokens, lapsed, clients, nextId,
                 active, event>>

FirstStatement(k) ==
  CASE k = "authorize" -> "insertCode"
    [] k = "exchange"  -> "getCode"
    [] k = "refresh"   -> "getRefreshToken"
    [] OTHER           -> "insertAccess"

\* getClient, and everything up to the next statement.
GetClient(r) ==
  /\ at[r] = "getClient"
  /\ \/ /\ job[r].client \in clients
        /\ Accepts(job[r])
        /\ GoTo(r, FirstStatement(job[r].kind))
        /\ UNCHANGED job
     \/ /\ ~(job[r].client \in clients /\ Accepts(job[r]))
        /\ Return(r)
  /\ UNCHANGED <<codes, tokens, refreshTokens, lapsed, clients, nextId,
                 active, event>>

-----------------------------------------------------------------------------
(* Authorization codes.                                                    *)

\* generateCode
InsertCode(r) ==
  /\ at[r] = "insertCode"
  /\ nextId <= MaxCodeId
  /\ Fresh
  /\ codes' = codes \cup {[id |-> nextId, grant |-> job[r].grant]}
  /\ Return(r)
  /\ UNCHANGED <<tokens, refreshTokens, lapsed, clients, active, event>>

\* Whether request j may redeem code row k: it is the client the code was made
\* for, the code has not expired, and the PKCE challenge, if there is one, is
\* met by the verifier (and there is no verifier if there is no challenge).
Redeems(j, k) ==
  /\ k.grant.client = j.client
  /\ k.id \notin lapsed
  /\ k.grant.origin.challenge # None => j.proof = k.grant.origin.challenge
  /\ j.proof \in Verifiers => k.grant.origin.challenge # None

\* getCode and the checks on what it returns.  The row read here is the grant
\* that the tokens are made from; it is not read again.
GetCode(r) ==
  /\ at[r] = "getCode"
  /\ \/ \E k \in codes :
          /\ k.id = job[r].target
          /\ Redeems(job[r], k)
          /\ job' = [job EXCEPT ![r].grant = k.grant]
          /\ GoTo(r, "removeCode")
          /\ event' = RaceWith(k.grant.user)
     \/ /\ ~ \E k \in codes : k.id = job[r].target /\ Redeems(job[r], k)
        /\ Return(r)
        /\ UNCHANGED event
  /\ UNCHANGED <<codes, tokens, refreshTokens, lapsed, clients, nextId,
                 active>>

\* Mutant: the code is left for a client that did not get the answer.
MutantRemoveCode(r) ==
  /\ at[r] = "removeCode"
  /\ GoTo(r, "insertAccess")
  /\ UNCHANGED <<codes, tokens, refreshTokens, lapsed, clients, nextId, job,
                 active, event>>

\* removeCode: how many rows the DELETE affected is not looked at.
RemoveCode(r) ==
  /\ at[r] = "removeCode"
  /\ codes' = {k \in codes : k.id # job[r].target}
  /\ GoTo(r, "insertAccess")
  /\ UNCHANGED <<tokens, refreshTokens, lapsed, clients, nextId, job, active,
                 event>>

\* Time passes: a code grows older than expiration.code.
Lapse ==
  \E k \in codes :
    /\ lapsed' = lapsed \cup {k.id}
    /\ UNCHANGED <<codes, tokens, refreshTokens, clients, nextId, at, job,
                   active, event>>

-----------------------------------------------------------------------------
(* Access and refresh tokens.                                              *)

\* Mutant: a narrowed scope is not checked against the scope of the token.
MutantRefreshesAnyScope(j, t) ==
  t.id = j.target /\ t.grant.client = j.client

\* Whether request j may use the refresh token of row t.
Refreshes(j, t) ==
  /\ t.id = j.target
  /\ t.grant.client = j.client
  /\ j.scope \subseteq t.grant.scope

\* getRefreshToken and the checks on what it returns.  The new grant is
\* limited to the requested scope and yields no further refresh token.
\* usedRefreshToken comes next if the row was last used long ago.
GetRefreshToken(r) ==
  /\ at[r] = "getRefreshToken"
  /\ LET mine == {t \in refreshTokens : Refreshes(job[r], t)}
     IN \/ \E t \in mine, s \in {"usedRefreshToken", "insertAccess"} :
             /\ job' = [job EXCEPT ![r].grant =
                          [t.grant EXCEPT !.scope = job[r].scope,
                                          !.offline = FALSE]]
             /\ GoTo(r, s)
             /\ event' = RaceWith(t.grant.user)
        \/ /\ mine = {}
           /\ Return(r)
           /\ UNCHANGED event
  /\ UNCHANGED <<codes, tokens, refreshTokens, lapsed, clients, nextId,
                 active>>

\* usedRefreshToken: an UPDATE of lastUsedAt, which nothing here depends on.
\* It affects no row if the token has been removed, and that is no error.
UsedRefreshToken(r) ==
  /\ at[r] = "usedRefreshToken"
  /\ GoTo(r, "insertAccess")
  /\ UNCHANGED <<codes, tokens, refreshTokens, lapsed, clients, nextId, job,
                 active, event>>

\* What is remembered of the request that inserts an access token.
Receipt(j) == [client |-> j.client, proof |-> j.proof, kind |-> j.kind,
               code |-> IF j.kind = "exchange" THEN j.target ELSE 0,
               since |-> j.since]

\* generateAccessToken, the first half of generateTokens
InsertAccess(r) ==
  /\ at[r] = "insertAccess"
  /\ Fresh
  /\ tokens' = tokens \cup {[id |-> nextId, grant |-> job[r].grant,
                             receipt |-> Receipt(job[r])]}
  /\ IF job[r].grant.offline
     THEN GoTo(r, "insertRefresh") /\ UNCHANGED job
     ELSE Return(r)
  /\ UNCHANGED <<codes, refreshTokens, lapsed, clients, active, event>>

\* generateRefreshToken, the second half
InsertRefresh(r) ==
  /\ at[r] = "insertRefresh"
  /\ Fresh
  /\ refreshTokens' = refreshTokens \cup {[id |-> nextId,
                                           grant |-> job[r].grant]}
  /\ Return(r)
  /\ UNCHANGED <<codes, tokens, lapsed, clients, active, event>>

-----------------------------------------------------------------------------
(* POST /destroy and DELETE /client-tokens/{client_id}.                    *)

ArriveToDestroy(r) ==
  /\ at[r] = "idle"
  /\ \E k \in DestroyKinds \cap Endpoints, i \in Issued :
       Arrive(r, [NoJob EXCEPT !.kind = k, !.target = i], "getToken")
  /\ UNCHANGED <<codes, tokens, refreshTokens, lapsed, clients, nextId,
                 active, event>>

TableOf(j) == IF j.kind = "destroyAccess" THEN tokens ELSE refreshTokens

GetToken(r) ==
  /\ at[r] = "getToken"
  /\ \/ /\ \E t \in TableOf(job[r]) : t.id = job[r].target
        /\ GoTo(r, "removeToken")
        /\ UNCHANGED job
     \/ /\ ~ \E t \in TableOf(job[r]) : t.id = job[r].target
        /\ Return(r)
  /\ UNCHANGED <<codes, tokens, refreshTokens, lapsed, clients, nextId,
                 active, event>>

RemoveToken(r) ==
  /\ at[r] = "removeToken"
  /\ IF job[r].kind = "destroyAccess"
     THEN /\ tokens' = {t \in tokens : t.id # job[r].target}
          /\ UNCHANGED refreshTokens
     ELSE /\ refreshTokens' = {t \in refreshTokens : t.id # job[r].target}
          /\ UNCHANGED tokens
  /\ Return(r)
  /\ UNCHANGED <<codes, lapsed, clients, nextId, active, event>>

\* The user of a bearer token asks to delete what a client was granted.  That
\* token, of the page that lists a user's applications, is not in the model.
ArriveToRevoke(r) ==
  /\ at[r] = "idle"
  /\ \E u \in Users, c \in Clients :
       Arrive(r, [NoJob EXCEPT !.kind = "revoke", !.user = u, !.client = c,
                    !.left = Tables, !.since = nextId], "revoke")
  /\ UNCHANGED <<codes, tokens, refreshTokens, lapsed, clients, nextId,
                 active, event>>

\* Whether deleteClientAuthorization j deletes row t.
Deauthorizes(j, t) == t.grant.client = j.client /\ t.grant.user = j.user

\* One of the three DELETEs, which are issued together and may run in any order.
RevokeTable(r, table) ==
  /\ at[r] = "revoke"
  /\ table \in job[r].left
  /\ job' = [job EXCEPT ![r].left = @ \ {table}]
  /\ codes' = IF table # "codes" THEN codes
              ELSE {t \in codes : ~Deauthorizes(job[r], t)}
  /\ tokens' = IF table # "tokens" THEN tokens
               ELSE {t \in tokens : ~Deauthorizes(job[r], t)}
  /\ refreshTokens' = IF table # "refreshTokens" THEN refreshTokens
                      ELSE {t \in refreshTokens : ~Deauthorizes(job[r], t)}
  /\ UNCHANGED <<lapsed, clients, nextId, at, active, event>>

\* Mutant: the failure of one statement is swallowed.
MutantRevokeTableFails(r, table) ==
  /\ at[r] = "revoke"
  /\ table \in job[r].left
  /\ job' = [job EXCEPT ![r].left = @ \ {table}]
  /\ UNCHANGED <<codes, tokens, refreshTokens, lapsed, clients, nextId, at,
                 active, event>>

\* One of them fails.  P.all rejects, and the others go on all the same.
RevokeTableFails(r, table) ==
  /\ at[r] = "revoke"
  /\ table \in job[r].left
  /\ job' = [job EXCEPT ![r].left = @ \ {table}, ![r].failed = TRUE]
  /\ UNCHANGED <<codes, tokens, refreshTokens, lapsed, clients, nextId, at,
                 active, event>>

RevokeEnds(r) ==
  /\ at[r] = "revoke"
  /\ job[r].left = {}
  /\ Return(r)
  /\ UNCHANGED <<codes, tokens, refreshTokens, lapsed, clients, nextId,
                 active, event>>

\* A statement fails or the process dies: the request ends where it stands.
Fail(r) ==
  /\ at[r] # "idle"
  /\ Return(r)
  /\ UNCHANGED <<codes, tokens, refreshTokens, lapsed, clients, nextId,
                 active, event>>

\* DELETE /client/{client_id}, for a developer who owns the client.
\* removeClient: one statement deletes the client and its rows in all tables.
\* Rows that a request in flight adds later stay: no foreign key forbids them.
\* A restart registers predefined clients again; that is not modelled.
RemoveClient(c) ==
  /\ c \in clients \cap Owned
  /\ clients' = clients \ {c}
  /\ codes' = {t \in codes : t.grant.client # c}
  /\ tokens' = {t \in tokens : t.grant.client # c}
  /\ refreshTokens' = {t \in refreshTokens : t.grant.client # c}
  /\ UNCHANGED <<lapsed, nextId, at, job, active, event>>

-----------------------------------------------------------------------------
(* Account events.                                                         *)

\* The auth server deletes an account.  It says so in a message of its own.
DeleteAccount(u) ==
  /\ u \in active
  /\ active' = active \ {u}
  /\ UNCHANGED <<codes, tokens, refreshTokens, lapsed, clients, nextId, at,
                 job, event>>

\* notifyAttachedServices
Notify(e, u, k) ==
  /\ event[e].status = "unsent"
  /\ k = "delete" <=> u \notin active
  /\ event' = [event EXCEPT ![e].status = "queued", ![e].user = u,
                            ![e].kind = k]
  /\ UNCHANGED <<codes, tokens, refreshTokens, lapsed, clients, nextId, at,
                 job, active>>

\* The handler of a message starts.
Deliver(e) ==
  /\ event[e].status = "queued"
  /\ IF event[e].kind = "other"
     THEN event' = [event EXCEPT ![e].status = "done"]
     ELSE event' = [event EXCEPT ![e].status = "tokens",
                      ![e].horizon = nextId,
                      ![e].raced = \E r \in Requests :
                                     job[r].grant.user = event[e].user]
  /\ UNCHANGED <<codes, tokens, refreshTokens, lapsed, clients, nextId, at,
                 job, active>>

\* Mutant: a password change revokes by client only (as db/memory.js does).
MutantRevokes(e, t) ==
  IF event[e].kind = "delete" THEN t.grant.user = event[e].user
  ELSE t.grant.client \in (Publics \cup CanGrant) \cap clients

\* Whether the DELETEs for message e cover row t.  The statements of
\* removePublicAndCanGrantTokens join with table clients.
Revokes(e, t) ==
  /\ t.grant.user = event[e].user
  /\ event[e].kind = "passwordChange" =>
       t.grant.client \in (Publics \cup CanGrant) \cap clients

\* Mutant: a message seen before is taken to have done its work.
MutantRevokeAccessTokens(e) ==
  /\ event[e].status = "tokens"
  /\ tokens' = IF event[e].redeliveries > 0 THEN tokens
               ELSE {t \in tokens : ~Revokes(e, t)}
  /\ event' = [event EXCEPT ![e].status = "refreshTokens"]
  /\ UNCHANGED <<codes, refreshTokens, lapsed, clients, nextId, at, job,
                 active>>

\* First statement of removeUser and of removePublicAndCanGrantTokens
RevokeAccessTokens(e) ==
  /\ event[e].status = "tokens"
  /\ tokens' = {t \in tokens : ~Revokes(e, t)}
  /\ event' = [event EXCEPT ![e].status = "refreshTokens"]
  /\ UNCHANGED <<codes, refreshTokens, lapsed, clients, nextId, at, job,
                 active>>

\* Mutant: removeUser forgets the codes.
MutantRevokeRefreshTokens(e) ==
  /\ event[e].status = "refreshTokens"
  /\ refreshTokens' = {t \in refreshTokens : ~Revokes(e, t)}
  /\ event' = [event EXCEPT ![e].status = "done"]
  /\ UNCHANGED <<codes, tokens, lapsed, clients, nextId, at, job, active>>

\* Second statement.  It is the last one of removePublicAndCanGrantTokens,
\* after which the message is deleted from the queue.
RevokeRefreshTokens(e) ==
  /\ event[e].status = "refreshTokens"
  /\ refreshTokens' = {t \in refreshTokens : ~Revokes(e, t)}
  /\ event' = [event EXCEPT ![e].status =
                 IF event[e].kind = "delete" THEN "codes" ELSE "done"]
  /\ UNCHANGED <<codes, tokens, lapsed, clients, nextId, at, job, active>>

\* Third statement of removeUser, after which the message is deleted.
RevokeCodes(e) ==
  /\ event[e].status = "codes"
  /\ codes' = {t \in codes : ~Revokes(e, t)}
  /\ event' = [event EXCEPT ![e].status = "done"]
  /\ UNCHANGED <<tokens, refreshTokens, lapsed, clients, nextId, at, job,
                 active>>

\* Mutant: the message is deleted although a statement has failed.
MutantRedeliver(e) ==
  /\ event[e].status \in Running
  /\ event[e].redeliveries < MaxRedeliveries
  /\ event' = [event EXCEPT ![e].status = "done", ![e].redeliveries = @ + 1]
  /\ UNCHANGED <<codes, tokens, refreshTokens, lapsed, clients, nextId, at,
                 job, active>>

\* A statement fails or the process dies, and the message is not deleted; or
\* its deletion is lost; or the queue just delivers it twice, here after the
\* first delivery.  (Two deliveries at once do what two messages of Events
\* about the same user do.)
Redeliver(e) ==
  /\ event[e].status \in Running \cup {"done"}
  /\ event[e].redeliveries < MaxRedeliveries
  /\ event' = [event EXCEPT ![e].status = "queued",
                            ![e].redeliveries = @ + 1]
  /\ UNCHANGED <<codes, tokens, refreshTokens, lapsed, clients, nextId, at,
                 job, active>>

-----------------------------------------------------------------------------
RequestStep(r) ==
  \/ ArriveWithAssertion(r) \/ ArriveWithCredential(r)
  \/ ArriveToDestroy(r) \/ ArriveToRevoke(r)
  \/ GetClient(r) \/ InsertCode(r) \/ GetCode(r) \/ RemoveCode(r)
  \/ GetRefreshToken(r) \/ UsedRefreshToken(r)
  \/ InsertAccess(r) \/ InsertRefresh(r)
  \/ GetToken(r) \/ RemoveToken(r)
  \/ \E table \in Tables : RevokeTable(r, table) \/ RevokeTableFails(r, table)
  \/ RevokeEnds(r)
  \/ Fail(r)

HandlerStep(e) ==
  \/ Deliver(e)
  \/ RevokeAccessTokens(e) \/ RevokeRefreshTokens(e) \/ RevokeCodes(e)

\* What happens outside the request handlers.
OtherStep ==
  \/ \E e \in Events : HandlerStep(e) \/ Redeliver(e)
  \/ \E e \in Events, u \in Users, k \in EventKinds : Notify(e, u, k)
  \/ \E u \in Users : DeleteAccount(u)
  \/ \E c \in Clients : RemoveClient(c)
  \/ Lapse

Next == (\E r \in Requests : RequestStep(r)) \/ OtherStep

Spec == Init /\ [][Next]_vars

\* The queue goes on delivering a message until it is deleted, and Node.js
\* runs the handler's callbacks.  Nothing is assumed of the requests.
FairSpec == Spec /\ \A e \in Events : WF_vars(HandlerStep(e))

-----------------------------------------------------------------------------
(* Properties.                                                             *)

Rows == codes \cup tokens \cup refreshTokens

\* Grant g is what was approved, or less.
WithinApproval(g) ==
  /\ g.user = g.origin.user
  /\ g.client = g.origin.client
  /\ g.scope \subseteq g.origin.scope
  /\ ValidGrant(g.origin)

\* No grant escalates: whatever chain of requests a row came from (code, token,
\* refreshed token), it is for the user and the client that the approval at its
\* root named, within the scope approved there, and that approval met the rules
\* of validateRequestedGrant, in particular that key-bearing scopes go only to
\* the clients allowed them and only from a verified session.
GrantsStayWithinApproval == \A t \in Rows : WithinApproval(t.grant)

\* An access token is given to the client it is for: a code or a refresh token
\* of one client is of no use to another; a confidential client has shown its
\* secret for the one as for the other, in the request that the token answers;
\* and whoever traded the code of a public client has shown the verifier of the
\* challenge that the code was requested with (PKCE).
TokensReachTheirClient ==
  \A t \in tokens :
    /\ t.receipt.client = t.grant.client
    /\ t.receipt.kind \in ExchangeKinds /\ t.grant.client \notin Publics =>
         t.receipt.proof = Secret
    /\ t.receipt.code # 0 /\ t.grant.client \in Publics =>
         t.receipt.proof = t.grant.origin.challenge /\ t.receipt.proof # None

\* docs/api.md says "Codes are single use only", and of requests that run beside
\* each other this is not so: any number of them may read a code before one of
\* them deletes it.  What holds is that when two access tokens came from the same
\* code, each of the two requests had arrived before the other's token was
\* inserted.  So who asks again after an answer, or after a failure that cost the
\* code, gets nothing, whatever else ran in between.
CodesAreSpentTogether ==
  \A s, t \in tokens :
    s.receipt.code # 0 /\ s.receipt.code = t.receipt.code =>
      s.receipt.since <= t.id

\* When the message of an account event has been handled, nothing is left of
\* what it revokes that existed when its last handler started, however the
\* handler was interleaved with requests, and however often it failed half-way
\* and was started again.
EventRevokes ==
  \A e \in Events : event[e].status = "done" =>
    \A t \in CASE event[e].kind = "delete" -> Rows
               [] event[e].kind = "passwordChange" -> tokens \cup refreshTokens
               [] OTHER -> {} :
      Revokes(e, t) => t.id >= event[e].horizon

\* If no request held or obtained a grant of the user while the handler of the
\* deletion of the account ran, nothing that was approved before it is left,
\* and nothing of it ever comes back: neither a code nor a refresh token
\* survives to make a new row.  What the user has afterwards was approved by an
\* assertion presented afterwards (see ArriveWithAssertion).
QuietDeletionIsFinal ==
  \A e \in Events :
    event[e].status = "done" /\ event[e].kind = "delete" /\ ~event[e].raced =>
      \A t \in Rows :
        t.grant.user = event[e].user => t.grant.asked >= event[e].horizon

\* DELETE /client-tokens answers with success only when nothing is left of
\* what the user had granted the client when the request began, in any of the
\* three tables, although its statements run in any order among other requests.
DeauthorizationIsComplete ==
  \A r \in Requests :
    at[r] = "revoke" /\ job[r].left = {} /\ ~job[r].failed =>
      \A t \in Rows : Deauthorizes(job[r], t) => t.id >= job[r].since

\* An access or refresh token never disappears but by an act of its own user
\* (an event for the account, or a request that names the token or its user
\* and client) or with its client; and a password change spares the tokens of
\* clients that are neither public nor able to grant.
OnlyOwnerRevokes ==
  [][\A t \in (tokens \ tokens') \cup (refreshTokens \ refreshTokens') :
       \/ t.grant.client \in clients \ clients'
       \/ \E r \in Requests : /\ job'[r] # job[r]
                              /\ \/ /\ job[r].kind \in DestroyKinds
                                    /\ job[r].target = t.id
                                 \/ Deauthorizes(job[r], t)
       \/ \E e \in Events :
            /\ event'[e] # event[e]
            /\ event[e].user = t.grant.user
            /\ event[e].kind = "passwordChange" =>
                 t.grant.client \in Publics \cup CanGrant]_vars

\* A message that is queued is handled in the end, and takes with it every
\* access token it covers that existed when it was queued.
EventTakesEffect ==
  \A e \in Events :
    /\ event[e].status = "queued" ~> event[e].status = "done"
    /\ \A i \in 1..MaxId :
         (/\ event[e].status = "queued"
          /\ event[e].kind # "other"
          /\ \E t \in tokens : t.id = i /\ Revokes(e, t))
           ~> ~ \E t \in tokens : t.id = i
=============================================================================
