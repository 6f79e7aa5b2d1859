------------------------------ MODULE MysqlStore ------------------------------
(***************************************************************************)
(* What the statements of fxa-oauth-server/lib/db/mysql do to the tables.  *)
(* A store is a record of tables, a table is a set of rows, and a call     *)
(* gives the store it leaves and the answer it resolves with; a promise    *)
(* that is rejected answers Rejected.  Of a client only what the callers   *)
(* tell apart is kept: `name` stands for every column that an update may   *)
(* set, beside canGrant.                                                   *)
(***************************************************************************)
CONSTANTS None, Rejected, Done,
  UrlScopes  \* the scopes that are https URLs

Result(s, a) == [store |-> s, answer |-> a]

Empty == [clients |-> {}, developers |-> {}, clientDevelopers |-> {},
          codes |-> {}, tokens |-> {}, refreshTokens |-> {}, scopes |-> {}]

Grants == {"codes", "tokens", "refreshTokens"}

\* The one element of a set that has at most one: what firstRow returns.
FirstRow(rows) == IF rows = {} THEN None ELSE CHOOSE row \in rows : TRUE

\* COALESCE(?, column), where the driver sends undefined as NULL
Coalesce(value, column) == IF value = None THEN column ELSE value

-----------------------------------------------------------------------------
(* Clients and the developers who own them.                                *)

getClient(s, id) == FirstRow({c \in s.clients : c.id = id})

\* INSERT; the id is the primary key
registerClient(s, client) ==
  IF getClient(s, client.id) # None THEN Result(s, Rejected)
  ELSE Result([s EXCEPT !.clients = @ \cup {client}], client.id)

\* UPDATE.  publicClient is not among the columns that are set.
updateClient(s, client) ==
  Result([s EXCEPT !.clients =
            {IF c.id # client.id THEN c
             ELSE [c EXCEPT !.name = Coalesce(client.name, @),
                            !.canGrant = Coalesce(client.canGrant, @)]
             : c \in @}], Done)

\* A DELETE that does not join clientDevelopers
MutantRemoveClient(s, id) ==
  Result([t \in DOMAIN s |->
            CASE t = "clients" -> {c \in s.clients : c.id # id}
              [] t \in Grants -> {row \in s[t] : row.client # id}
              [] OTHER -> s[t]], Done)

\* DELETE with LEFT JOINs: the client and every row that names it
removeClient(s, id) ==
  IF getClient(s, id) = None THEN Result(s, Done)
  ELSE Result([t \in DOMAIN s |->
                 CASE t = "clients" -> {c \in s.clients : c.id # id}
                   [] t \in Grants \cup {"clientDevelopers"} ->
                        {row \in s[t] : row.client # id}
                   [] OTHER -> s[t]], Done)

getDeveloper(s, email) == FirstRow({d \in s.developers : d.email = email})

\* INSERT, where the email is UNIQUE, and then getDeveloper
activateDeveloper(s, id, email) ==
  LET inserted == [s EXCEPT !.developers = @ \cup {[id |-> id, email |-> email]}]
  IN IF getDeveloper(s, email) # None THEN Result(s, Rejected)
     ELSE Result(inserted, getDeveloper(inserted, email))

registerClientDeveloper(s, row, developer, client) ==
  Result([s EXCEPT !.clientDevelopers =
            @ \cup {[row |-> row, developer |-> developer, client |-> client]}],
         Done)

\* The rows of clientDevelopers joined with developers
Owned(s, email) ==
  {row.client : row \in {r \in s.clientDevelopers :
     \E d \in s.developers : d.id = r.developer /\ d.email = email}}

developerOwnsClient(s, email, client) ==
  Result(s, IF client \in Owned(s, email) THEN TRUE ELSE Rejected)

getClients(s, email) ==
  Result(s, {[id |-> c.id, name |-> c.name, canGrant |-> c.canGrant] :
               c \in {c \in s.clients : c.id \in Owned(s, email)}})

-----------------------------------------------------------------------------
(* Codes, tokens and scopes.                                               *)

\* generateCode, generateAccessToken, generateRefreshToken
generate(s, table, grant) ==
  Result([s EXCEPT ![table] = @ \cup {grant}], grant.id)

\* getCode, getAccessToken, getRefreshToken: no test of any expiry
get(s, table, id) ==
  Result(s, FirstRow({g \in s[table] : g.id = id}))

\* removeCode, removeAccessToken, removeRefreshToken
remove(s, table, id) ==
  Result([s EXCEPT ![table] = {g \in @ : g.id # id}], Done)

usedRefreshToken(s, id) == Result(s, Done)

deleteClientAuthorization(s, client, user) ==
  Result([t \in DOMAIN s |->
            IF t \in Grants
            THEN {g \in s[t] : g.client # client \/ g.user # user}
            ELSE s[t]], Done)

removeUser(s, user) ==
  Result([t \in DOMAIN s |->
            IF t \in Grants THEN {g \in s[t] : g.user # user} ELSE s[t]], Done)

removePublicAndCanGrantTokens(s, user) ==
  LET exposed == {c.id : c \in {c \in s.clients : c.public \/ c.canGrant}}
  IN Result([t \in DOMAIN s |->
               IF t \in {"tokens", "refreshTokens"}
               THEN {g \in s[t] : g.user # user \/ g.client \notin exposed}
               ELSE s[t]], Done)

getActiveClientsByUid(s, user, expired) ==
  Result(s, {t \in s.tokens :
               /\ t.user = user
               /\ t.id \notin expired
               /\ \E c \in s.clients : c.id = t.client /\ ~c.canGrant})

\* Other scopes are never looked up.
getScope(s, scope) ==
  Result(s, IF scope \in s.scopes \cap UrlScopes THEN scope ELSE None)

registerScope(s, scope) ==
  IF scope \in s.scopes THEN Result(s, Rejected)
  ELSE Result([s EXCEPT !.scopes = @ \cup {scope}], Done)
=============================================================================
