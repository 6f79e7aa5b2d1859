------------------------------ MODULE MemoryStore ------------------------------
(***************************************************************************)
(* What fxa-oauth-server/lib/db/memory.js does to its objects, each of     *)
(* them a function from keys to entries.  The calls and their answers are  *)
(* those of MysqlStore; `Tables` gives the rows that objects stand for.    *)
(***************************************************************************)
EXTENDS Functions

CONSTANTS None, Rejected, Done

Result(s, a) == [store |-> s, answer |-> a]

Objects == {"clients", "developers", "clientDevelopers", "codes", "tokens",
            "refreshTokens"}

Empty == [t \in Objects \cup {"scopes"} |-> <<>>]

Grants == {"codes", "tokens", "refreshTokens"}

\* object[key]
At(object, key) == IF key \in DOMAIN object THEN object[key] ELSE None

\* object[key] = entry
Put(object, key, entry) ==
  [k \in DOMAIN object \cup {key} |-> IF k = key THEN entry ELSE object[k]]

\* delete object[key]
Without(object, keys) == Restrict(object, DOMAIN object \ keys)

\* deleteToken of deleteClientAuthorization
Unauthorized(object, client, user) ==
  Without(object, {k \in DOMAIN object :
                     object[k].client = client /\ object[k].user = user})

-----------------------------------------------------------------------------
(* Clients and the developers who own them.                                *)

\* An entry of that id is overwritten.
registerClient(s, client) ==
  Result([s EXCEPT !.clients = Put(@, client.id, client)], client.id)

updateClient(s, client) ==
  LET old == s.clients[client.id]
  IN IF At(s.clients, client.id) = None THEN Result(s, Rejected)
     ELSE Result([s EXCEPT !.clients[client.id] =
                    [f \in DOMAIN old |->
                       IF f \in DOMAIN client /\ client[f] # None
                       THEN client[f] ELSE old[f]]], Done)

\* Only the client: its codes, tokens and developers stay.
removeClient(s, id) ==
  Result([s EXCEPT !.clients = Without(@, {id})], Done)

getDeveloper(s, email) ==
  LET found == {k \in DOMAIN s.developers : s.developers[k].email = email}
  IN IF found = {} THEN None ELSE s.developers[CHOOSE k \in found : TRUE]

activateDeveloper(s, id, email) ==
  LET developer == [id |-> id, email |-> email]
  IN IF getDeveloper(s, email) # None THEN Result(s, Rejected)
     ELSE Result([s EXCEPT !.developers = Put(@, id, developer)], developer)

registerClientDeveloper(s, row, developer, client) ==
  Result([s EXCEPT !.clientDevelopers =
            Put(@, row, [row |-> row, developer |-> developer, client |-> client])],
         Done)

getClientDevelopers(s, client) ==
  {e.developer : e \in {e \in Range(s.clientDevelopers) : e.client = client}}

developerOwnsClient(s, email, client) ==
  LET developer == getDeveloper(s, email)
  IN Result(s, IF /\ developer # None
                  /\ developer.id \in getClientDevelopers(s, client)
               THEN TRUE ELSE Rejected)

\* An entry of a client that was removed throws.
getClients(s, email) ==
  LET developer == getDeveloper(s, email)
      entries == {e \in Range(s.clientDevelopers) :
                    developer # None /\ e.developer = developer.id}
      ids == {e.client : e \in entries}
  IN IF ids \subseteq DOMAIN s.clients
     THEN Result(s, {[id |-> i, name |-> s.clients[i].name,
                      canGrant |-> s.clients[i].canGrant] : i \in ids})
     ELSE Result(s, Rejected)

-----------------------------------------------------------------------------
(* Codes, tokens and scopes.                                               *)

\* generateCode, generateAccessToken, generateRefreshToken
generate(s, table, grant) ==
  Result([s EXCEPT ![table] = Put(@, grant.id, grant)], grant.id)

get(s, table, id) == Result(s, At(s[table], id))

remove(s, table, id) ==
  Result([s EXCEPT ![table] = Without(@, {id})], Done)

usedRefreshToken(s, id) ==
  Result(s, IF At(s.refreshTokens, id) = None THEN Rejected ELSE Done)

\* Refresh tokens stay.
MutantDeleteClientAuthorization(s, client, user) ==
  Result([t \in DOMAIN s |->
            IF t \in {"codes", "tokens"} THEN Unauthorized(s[t], client, user)
            ELSE s[t]], Done)

deleteClientAuthorization(s, client, user) ==
  Result([t \in DOMAIN s |->
            IF t \in Grants THEN Unauthorized(s[t], client, user) ELSE s[t]],
         Done)

\* deleteByUserId compares the user of an entry, a Buffer, with the string that
\* the account event gives, by ===: no entry is deleted.
removeUser(s, user) == Result(s, Done)

\* The tokens of such a client go whoever the user is.
removePublicAndCanGrantTokens(s, user) ==
  LET exposed == {c.id : c \in {c \in Range(s.clients) : c.public \/ c.canGrant}}
  IN Result([t \in DOMAIN s |->
               IF t \in {"tokens", "refreshTokens"}
               THEN Without(s[t], {k \in DOMAIN s[t] : s[t][k].client \in exposed})
               ELSE s[t]], Done)

\* Every token of the user, expired or not; one of a removed client throws.
getActiveClientsByUid(s, user) ==
  LET tokens == {t \in Range(s.tokens) : t.user = user}
  IN IF \E t \in tokens : t.client \notin DOMAIN s.clients
     THEN Result(s, Rejected)
     ELSE Result(s, {t \in tokens : ~s.clients[t.client].canGrant})

getScope(s, scope) == Result(s, At(s.scopes, scope))

registerScope(s, scope) ==
  Result([s EXCEPT !.scopes = Put(@, scope, scope)], Done)

\* The rows that the objects stand for
Tables(s) == [t \in DOMAIN s |-> Range(s[t])]
=============================================================================
