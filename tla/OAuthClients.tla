----------------------------- MODULE OAuthClients -----------------------------
(***************************************************************************)
(* The clients of the OAuth server and the developers who manage them: the *)
(* routes under /client and /developer, and the predefined clients that    *)
(* every server writes when it starts.                                     *)
(*                                                                         *)
(* The server has two stores, chosen by config db.driver: MySQL, which     *)
(* production uses, and objects in memory, on which most tests run.  Every *)
(* call is made on both, and a request goes on with what MySQL answered,   *)
(* so that a property can say where the two agree.  A handler awaits every *)
(* call, and other requests run between two of them.                       *)
(***************************************************************************)
EXTENDS Naturals, FiniteSets

CONSTANTS
  Emails,         \* who may present a token with scope `oauth`
  Whitelisted,    \* the emails that admin.whitelist matches
  Names,          \* values of the columns that an update may set
  Predefined,     \* config `clients`: id -> [name, canGrant, public]
  Older,          \* rows that an older deployment may have left
  ScopesConfig,   \* config `scopes`
  UrlScopes,      \* the scopes that are https URLs
  Users, TokenScopes,
  Requests, Servers,
  Updaters,       \* the servers with config db.autoUpdateClients
  MaxId,          \* bound: ids drawn by unique.id(), unique.token() and so on
  None, Rejected, Done

ASSUME ClientsAssumption ==
  /\ Whitelisted \subseteq Emails
  /\ DOMAIN Predefined \cap (1..MaxId) = {}
  /\ MaxId \in Nat
  /\ Updaters \subseteq Servers

VARIABLES
  my,        \* the tables of MySQL
  mem,       \* the objects of the memory store
  split,     \* a call was made that the stores are known to treat differently
  agree,     \* both stores answered the last call alike
  expired,   \* access tokens whose expiresAt has passed
  nextId,    \* the next random id
  req,       \* request -> its kind, its position and its locals
  server,    \* server -> where its start-up stands
  failed     \* a statement of some request has failed, or a server stopped

vars == <<my, mem, split, agree, expired, nextId, req, server, failed>>

MySQL  == INSTANCE MysqlStore
Memory == INSTANCE MemoryStore

-----------------------------------------------------------------------------
Ids == DOMAIN Predefined \cup 1..MaxId

\* A row of table clients.  What older deployments left are rows of predefined
\* clients; rows and values of columns are not NULL.
ClientRows == [id : Ids, name : Names, canGrant : BOOLEAN, public : BOOLEAN]

DeveloperRows == [id : 1..MaxId, email : Emails]

\* A row of codes, tokens or refreshTokens
GrantRows == [id : 1..MaxId, user : Users, client : Ids, scope : SUBSET TokenScopes]

ASSUME RowAssumption ==
  /\ \A p \in DOMAIN Predefined :
       Predefined[p] \in [name : Names, canGrant : BOOLEAN, public : BOOLEAN]
  /\ Older \subseteq ClientRows
  /\ \A c \in Older : c.id \in DOMAIN Predefined
  /\ None \notin Names \cup BOOLEAN
  /\ None \notin ClientRows \cup DeveloperRows \cup GrantRows

NoRequest == [kind |-> "none", at |-> "idle", server |-> None,
              email |-> None, id |-> None, developer |-> None, set |-> None]

\* Of a starting server: the configured clients, and then scopes, still to
\* look up, those found absent and those found present.
Configured == DOMAIN Predefined \cup ScopesConfig
ServerStates == [at : {"down", "clients", "scopes", "listening"},
                 toLookUp : SUBSET Configured, absent : SUBSET Configured,
                 present : SUBSET Configured]

Down == [at |-> "down", toLookUp |-> {}, absent |-> {}, present |-> {}]

TypeOK ==
  /\ {c.id : c \in my.clients} \subseteq Ids
  /\ \A c \in my.clients : c.name \in Names
  /\ \A t \in MySQL!Grants : \A g \in my[t] : g.id < nextId /\ g.user \in Users
  /\ expired \subseteq 1..MaxId
  /\ server \in [Servers -> ServerStates]
  /\ nextId \in 1..(MaxId + 1)

Init ==
  /\ \E rows \in SUBSET Older :
       /\ my = [MySQL!Empty EXCEPT !.clients = rows]
       /\ split = (rows # {})
  /\ mem = Memory!Empty
  /\ agree = TRUE
  /\ expired = {}
  /\ nextId = 1
  /\ req = [r \in Requests |-> NoRequest]
  /\ server = [s \in Servers |-> Down]
  /\ failed = FALSE

\* A call that gives m on MySQL and n in memory.  Once a call was made that
\* the stores are known to treat differently they are no longer compared.
Call(m, n, differs) ==
  /\ my' = m.store
  /\ split' = (split \/ differs)
  /\ mem' = IF split' THEN Memory!Empty ELSE n.store
  /\ agree' = (split' \/ m.answer = n.answer)

Fresh == nextId <= MaxId /\ nextId' = nextId + 1

-----------------------------------------------------------------------------
(* Routes.                                                                 *)

\* dogfoodStrategy, and the first call of a handler to come
Arrive(r, kind, at, locals) ==
  /\ req[r].at = "idle"
  /\ locals.email \in Whitelisted
  /\ \E s \in Servers :
       /\ server[s].at = "listening"
       /\ req' = [req EXCEPT ![r] = [kind |-> kind, at |-> at, server |-> s,
                    email |-> locals.email, id |-> locals.id,
                    developer |-> None, set |-> locals.set]]
  /\ UNCHANGED <<my, mem, split, agree, expired, nextId, server, failed>>

activateRegistration(r) ==
  \E e \in Emails :
    Arrive(r, "activate", "getDeveloper", [email |-> e, id |-> None, set |-> None])

registerEndpoint(r) ==
  \E e \in Emails, n \in Names, g \in BOOLEAN :
    Arrive(r, "register", "getDeveloper",
           [email |-> e, id |-> None, set |-> [name |-> n, canGrant |-> g]])

updateClientEndpoint(r) ==
  \E e \in Emails, i \in Ids, n \in Names \cup {None}, g \in BOOLEAN \cup {None} :
    Arrive(r, "update", "ownsClient",
           [email |-> e, id |-> i, set |-> [name |-> n, canGrant |-> g]])

clientDeleteEndpoint(r) ==
  \E e \in Emails, i \in Ids :
    Arrive(r, "delete", "ownsClient", [email |-> e, id |-> i, set |-> None])

listEndpoint(r) ==
  \E e \in Emails :
    Arrive(r, "list", "getClients", [email |-> e, id |-> None, set |-> None])

GoTo(r, at) == req' = [req EXCEPT ![r].at = at]
Return(r) == req' = [req EXCEPT ![r] = NoRequest]

\* The first call of activate and register.  A developer who is there already
\* is the answer of activate, and register has no use for anyone else.
GetDeveloper(r) ==
  LET found == MySQL!getDeveloper(my, req[r].email)
  IN /\ req[r].at = "getDeveloper"
     /\ Call(MySQL!Result(my, found),
             Memory!Result(mem, Memory!getDeveloper(mem, req[r].email)), FALSE)
     /\ \/ /\ req[r].kind = "activate"
           /\ IF found = None THEN GoTo(r, "activateDeveloper") ELSE Return(r)
        \/ /\ req[r].kind = "register"
           /\ IF found = None THEN Return(r)
              ELSE req' = [req EXCEPT ![r].at = "registerClient",
                                      ![r].developer = found.id]
     /\ UNCHANGED <<expired, nextId, server, failed>>

ActivateDeveloper(r) ==
  LET e == req[r].email
  IN /\ req[r].at = "activateDeveloper"
     /\ Fresh
     /\ Call(MySQL!activateDeveloper(my, nextId, e),
             Memory!activateDeveloper(mem, nextId, e), FALSE)
     /\ Return(r)
     /\ UNCHANGED <<expired, server, failed>>

RegisterClient(r) ==
  LET client == [id |-> nextId, name |-> req[r].set.name,
                 canGrant |-> req[r].set.canGrant, public |-> FALSE]
  IN /\ req[r].at = "registerClient"
     /\ Fresh
     /\ Call(MySQL!registerClient(my, client),
             Memory!registerClient(mem, client), FALSE)
     /\ req' = [req EXCEPT ![r].at = "registerClientDeveloper",
                           ![r].id = nextId]
     /\ UNCHANGED <<expired, server, failed>>

RegisterClientDeveloper(r) ==
  LET d == req[r].developer
      c == req[r].id
  IN /\ req[r].at = "registerClientDeveloper"
     /\ Fresh
     /\ Call(MySQL!registerClientDeveloper(my, nextId, d, c),
             Memory!registerClientDeveloper(mem, nextId, d, c), FALSE)
     /\ Return(r)
     /\ UNCHANGED <<expired, server, failed>>

\* A handler that goes on whatever the answer is
MutantDeveloperOwnsClient(r) ==
  LET owns == MySQL!developerOwnsClient(my, req[r].email, req[r].id)
  IN /\ req[r].at = "ownsClient"
     /\ Call(owns, Memory!developerOwnsClient(mem, req[r].email, req[r].id),
             FALSE)
     /\ GoTo(r, "change")
     /\ UNCHANGED <<expired, nextId, server, failed>>

\* The first call of update and delete
DeveloperOwnsClient(r) ==
  LET owns == MySQL!developerOwnsClient(my, req[r].email, req[r].id)
  IN /\ req[r].at = "ownsClient"
     /\ Call(owns, Memory!developerOwnsClient(mem, req[r].email, req[r].id),
             FALSE)
     /\ IF owns.answer = Rejected THEN Return(r) ELSE GoTo(r, "change")
     /\ UNCHANGED <<expired, nextId, server, failed>>

UpdateClient(r) ==
  LET client == [id |-> req[r].id, name |-> req[r].set.name,
                 canGrant |-> req[r].set.canGrant]
  IN /\ req[r].at = "change"
     /\ req[r].kind = "update"
     /\ Call(MySQL!updateClient(my, client), Memory!updateClient(mem, client),
             MySQL!getClient(my, client.id) = None)
     /\ Return(r)
     /\ UNCHANGED <<expired, nextId, server, failed>>

\* MySQL also deletes the rows that name the client.
RemoveClient(r) ==
  LET id == req[r].id
  IN /\ req[r].at = "change"
     /\ req[r].kind = "delete"
     /\ Call(MySQL!removeClient(my, id), Memory!removeClient(mem, id),
             \E t \in MySQL!Grants \cup {"clientDevelopers"} :
               \E row \in my[t] : row.client = id)
     /\ Return(r)
     /\ UNCHANGED <<expired, nextId, server, failed>>

ListClients(r) ==
  /\ req[r].at = "getClients"
  /\ Call(MySQL!getClients(my, req[r].email),
          Memory!getClients(mem, req[r].email), FALSE)
  /\ Return(r)
  /\ UNCHANGED <<expired, nextId, server, failed>>

\* No connection, or a statement that is refused: the request answers 500.
Fail(r) ==
  /\ req[r].at # "idle"
  /\ Return(r)
  /\ failed' = TRUE
  /\ UNCHANGED <<my, mem, split, agree, expired, nextId, server>>

-----------------------------------------------------------------------------
(* Start-up: withDriver runs preClients and then scopes before the ping    *)
(* that bin/server.js waits for.  Each client, and each scope, is a        *)
(* promise of its own, so that they run side by side, and the first that   *)
(* is rejected ends the process.                                           *)

\* The memory of a process begins empty, and is its own.  Without
\* autoUpdateClients no client is looked up, nor written.
StartServer(s) ==
  /\ server[s].at = "down"
  /\ server' = [server EXCEPT ![s] =
       [Down EXCEPT !.at = "clients",
                    !.toLookUp = IF s \in Updaters THEN DOMAIN Predefined ELSE {}]]
  /\ mem' = Memory!Empty
  /\ split' = (\/ split
               \/ my # MySQL!Empty
               \/ \E o \in Servers : server[o].at # "down")
  /\ agree' = TRUE
  /\ UNCHANGED <<my, expired, nextId, req, failed>>

\* What s was told of x, which is no longer to be looked up
Learn(s, x, found) ==
  server' = [server EXCEPT ![s].toLookUp = @ \ {x},
               ![s].absent = IF found = None THEN @ \cup {x} ELSE @,
               ![s].present = IF found = None THEN @ ELSE @ \cup {x}]

\* getClient
LookUpClient(s, p) ==
  /\ server[s].at = "clients"
  /\ p \in server[s].toLookUp
  /\ Learn(s, p, MySQL!getClient(my, p))
  /\ Call(MySQL!Result(my, MySQL!getClient(my, p)),
          Memory!Result(mem, Memory!At(mem.clients, p)), FALSE)
  /\ UNCHANGED <<expired, nextId, req, failed>>

\* The process stops, and its requests with it.
Exit(s) ==
  /\ server' = [server EXCEPT ![s] = Down]
  /\ req' = [r \in Requests |->
               IF req[r].server = s THEN NoRequest ELSE req[r]]
  /\ failed' = TRUE

\* What follows an INSERT at start-up: it is refused when another server was
\* faster, and that ends the process.
Registered(s, x, m) ==
  \/ /\ m.answer = Rejected
     /\ Exit(s)
  \/ /\ m.answer # Rejected
     /\ server' = [server EXCEPT ![s].absent = @ \ {x}]
     /\ UNCHANGED <<req, failed>>

RegisterPredefined(s, p) ==
  LET client == [id |-> p, name |-> Predefined[p].name,
                 canGrant |-> Predefined[p].canGrant,
                 public |-> Predefined[p].public]
      m == MySQL!registerClient(my, client)
  IN /\ server[s].at = "clients"
     /\ p \in server[s].absent
     /\ Call(m, Memory!registerClient(mem, client), FALSE)
     /\ Registered(s, p, m)
     /\ UNCHANGED <<expired, nextId>>

\* clientEquals compares every column of the row, createdAt among them, which
\* no configuration has: a row is always found to differ, and is updated.
UpdatePredefined(s, p) ==
  LET client == [id |-> p, name |-> Predefined[p].name,
                 canGrant |-> Predefined[p].canGrant,
                 public |-> Predefined[p].public]
  IN /\ server[s].at = "clients"
     /\ p \in server[s].present
     /\ Call(MySQL!updateClient(my, client), Memory!updateClient(mem, client),
             FALSE)
     /\ server' = [server EXCEPT ![s].present = @ \ {p}]
     /\ UNCHANGED <<expired, nextId, req, failed>>

\* The promise of an INSERT is not returned, and so not waited for.
MutantLoaded(s) ==
  /\ server[s].toLookUp = {}
  /\ server[s].present = {}

\* P.all is resolved.
Loaded(s) ==
  /\ server[s].toLookUp = {}
  /\ server[s].absent = {}
  /\ server[s].present = {}

ClientsLoaded(s) ==
  /\ server[s].at = "clients"
  /\ Loaded(s)
  /\ server' = [server EXCEPT ![s].at = "scopes", ![s].toLookUp = ScopesConfig]
  /\ UNCHANGED <<my, mem, split, agree, expired, nextId, req, failed>>

\* There is nothing left to do for a scope that is found.  One that is not a URL
\* is never found, and its INSERT is refused when the row is there already.
LookUpScope(s, c) ==
  LET found == MySQL!getScope(my, c)
  IN /\ server[s].at = "scopes"
     /\ c \in server[s].toLookUp
     /\ server' = [server EXCEPT ![s].toLookUp = @ \ {c},
                     ![s].absent = IF found.answer = None THEN @ \cup {c} ELSE @]
     /\ Call(found, Memory!getScope(mem, c), c \in my.scopes \ UrlScopes)
     /\ UNCHANGED <<expired, nextId, req, failed>>

RegisterScope(s, c) ==
  LET m == MySQL!registerScope(my, c)
  IN /\ server[s].at = "scopes"
     /\ c \in server[s].absent
     /\ Call(m, Memory!registerScope(mem, c), FALSE)
     /\ Registered(s, c, m)
     /\ UNCHANGED <<expired, nextId>>

\* The ping is answered, and the server takes requests.
Listen(s) ==
  /\ server[s].at = "scopes"
  /\ Loaded(s)
  /\ server' = [server EXCEPT ![s].at = "listening"]
  /\ UNCHANGED <<my, mem, split, agree, expired, nextId, req, failed>>

\* A statement of the start-up fails, or the process stops later.
Stop(s) ==
  /\ server[s].at # "down"
  /\ Exit(s)
  /\ UNCHANGED <<my, mem, split, agree, expired, nextId>>

-----------------------------------------------------------------------------
(* The calls that the other routes and the account events make: see        *)
(* OAuthGrants for how they interleave.                                    *)

Quiet == UNCHANGED <<expired, nextId, req, server, failed>>

Generate ==
  /\ Fresh
  /\ \E t \in MySQL!Grants, u \in Users, c \in my.clients, x \in TokenScopes :
       LET grant == [id |-> nextId, user |-> u, client |-> c.id, scope |-> {x}]
       IN Call(MySQL!generate(my, t, grant), Memory!generate(mem, t, grant),
               FALSE)
  /\ UNCHANGED <<expired, req, server, failed>>

\* The routes read a grant before they use or remove it, so that it is, or
\* was, there.
Drawn == 1..(nextId - 1)

Get ==
  /\ \E t \in MySQL!Grants, i \in Drawn :
       Call(MySQL!get(my, t, i), Memory!get(mem, t, i), FALSE)
  /\ Quiet

Remove ==
  /\ \E t \in MySQL!Grants, i \in Drawn :
       Call(MySQL!remove(my, t, i), Memory!remove(mem, t, i), FALSE)
  /\ Quiet

\* In memory a token that was removed meanwhile is an error.
UsedRefreshToken ==
  /\ \E i \in Drawn :
       Call(MySQL!usedRefreshToken(my, i), Memory!usedRefreshToken(mem, i),
            i \notin {g.id : g \in my.refreshTokens})
  /\ Quiet

DeleteClientAuthorization ==
  /\ \E u \in Users, c \in Ids :
       Call(MySQL!deleteClientAuthorization(my, c, u),
            Memory!deleteClientAuthorization(mem, c, u), FALSE)
  /\ Quiet

\* In memory the grants of the user stay.
RemoveUser ==
  /\ \E u \in Users :
       Call(MySQL!removeUser(my, u), Memory!removeUser(mem, u),
            \E t \in MySQL!Grants : \E g \in my[t] : g.user = u)
  /\ Quiet

\* A grant asks for the configuration of the scopes that are requested.
GetScope ==
  /\ \E c \in TokenScopes \cup ScopesConfig :
       Call(MySQL!getScope(my, c), Memory!getScope(mem, c), c \in my.scopes \ UrlScopes)
  /\ Quiet

\* The clients whose tokens a change of password revokes
Exposed == {c.id : c \in {c \in my.clients : c.public \/ c.canGrant}}

\* In memory the tokens of the other users of these clients go as well.
RemovePublicAndCanGrantTokens ==
  /\ \E u \in Users :
       Call(MySQL!removePublicAndCanGrantTokens(my, u),
            Memory!removePublicAndCanGrantTokens(mem, u),
            \E g \in my.tokens \cup my.refreshTokens :
              g.user # u /\ g.client \in Exposed)
  /\ Quiet

\* aggregateActiveClients: one entry for each client, with its latest token
\* and the union of the scopes.  Ids grow with time.
Aggregate(tokens) ==
  {[client |-> c,
    lastAccess |-> LET of == {t.id : t \in {t \in tokens : t.client = c}}
                   IN CHOOSE i \in of : \A j \in of : j <= i,
    scope |-> UNION {t.scope : t \in {t \in tokens : t.client = c}}]
   : c \in {t.client : t \in tokens}}

Aggregated(result) ==
  [result EXCEPT !.answer = IF @ = Rejected THEN @ ELSE Aggregate(@)]

\* In memory tokens that have expired are listed too.
ListServices ==
  /\ \E u \in Users :
       Call(Aggregated(MySQL!getActiveClientsByUid(my, u, expired)),
            Aggregated(Memory!getActiveClientsByUid(mem, u)),
            \E t \in my.tokens : t.user = u /\ t.id \in expired)
  /\ Quiet

Expire ==
  /\ \E t \in my.tokens : expired' = expired \cup {t.id}
  /\ UNCHANGED <<my, mem, split, agree, nextId, req, server, failed>>

-----------------------------------------------------------------------------
RequestStep(r) ==
  \/ activateRegistration(r) \/ registerEndpoint(r) \/ updateClientEndpoint(r)
  \/ clientDeleteEndpoint(r) \/ listEndpoint(r)
  \/ GetDeveloper(r) \/ ActivateDeveloper(r) \/ RegisterClient(r)
  \/ RegisterClientDeveloper(r) \/ DeveloperOwnsClient(r) \/ UpdateClient(r)
  \/ RemoveClient(r) \/ ListClients(r) \/ Fail(r)

ServerStep(s) ==
  \/ StartServer(s) \/ ClientsLoaded(s) \/ Listen(s) \/ Stop(s)
  \/ \E p \in DOMAIN Predefined :
       LookUpClient(s, p) \/ RegisterPredefined(s, p) \/ UpdatePredefined(s, p)
  \/ \E c \in ScopesConfig : LookUpScope(s, c) \/ RegisterScope(s, c)

GrantStep ==
  \/ Generate \/ Get \/ Remove \/ UsedRefreshToken
  \/ DeleteClientAuthorization \/ RemoveUser \/ RemovePublicAndCanGrantTokens
  \/ GetScope \/ ListServices \/ Expire

Next ==
  \/ \E r \in Requests : RequestStep(r)
  \/ \E s \in Servers : ServerStep(s)
  \/ GrantStep

Spec == Init /\ [][Next]_vars

-----------------------------------------------------------------------------
\* The tests run on the memory store and production on MySQL.  In one process
\* that began with empty tables the two hold the same rows and answer every
\* call alike, until one of the calls is made that memory.js treats in its
\* own way: removing a client that grants or developers refer to, updating
\* one that is gone, marking a token that is gone as used, revoking the
\* tokens of public clients that other users have too, removing a user who has
\* grants, looking up a scope that is not a URL, and listing expired tokens.
StoresAgree ==
  ~split => agree /\ Memory!Tables(mem) = my

Owns(e, c) == MySQL!developerOwnsClient(my, e, c).answer = TRUE

\* The owner is looked up one call before a client is updated or removed.
\* Still, in no interleaving with other requests and starting servers, does
\* a client change or disappear but for a developer who owns it at that
\* moment, or for a server that is starting, if the client is predefined and
\* the server may update clients.
OwnersManage ==
  [][\A c \in my.clients :
       \/ c \in my'.clients
       \/ \E r \in Requests :
            /\ req[r].at = "change"
            /\ req'[r].at = "idle"
            /\ Owns(req[r].email, c.id)
       \/ /\ c.id \in DOMAIN Predefined
          /\ \E s \in Updaters : server[s].at = "clients"]_vars

\* A server that listens, and that may update clients, has found or written
\* every predefined client, and any server that listens every configured scope;
\* nothing takes them away: not another server that starts beside it and loses a
\* race, nor any developer.
PredefinedAreServed ==
  \A s \in Servers : server[s].at = "listening" =>
    /\ s \in Updaters => \A p \in DOMAIN Predefined : \E c \in my.clients :
         /\ c.id = p
         /\ c.name = Predefined[p].name
         /\ c.canGrant = Predefined[p].canGrant
    /\ ScopesConfig \subseteq my.scopes

\* Registration is three calls without a transaction.  Unless one of them
\* fails, whoever deletes clients meanwhile, no client is left that nobody
\* can manage, and no ownership of a client that is gone.
ClientsAreOwned ==
  ~failed =>
    /\ \A c \in my.clients :
         \/ c.id \in DOMAIN Predefined
         \/ \E row \in my.clientDevelopers : row.client = c.id
         \/ \E r \in Requests :
              req[r].at = "registerClientDeveloper" /\ req[r].id = c.id
    /\ \A row \in my.clientDevelopers :
         MySQL!getClient(my, row.client) # None
=============================================================================
