-------------------------- MODULE OAuthClientsProofs --------------------------
(***************************************************************************)
(* Theorems about OAuthClients: who may change a client, that no client is *)
(* left without an owner, that a server that listens serves what it is     *)
(* configured with, all of them about the rows of MySQL; and that the      *)
(* memory store mirrors those rows, call by call.                          *)
(***************************************************************************)
EXTENDS OAuthClients, TLAPS

-----------------------------------------------------------------------------
(* Types.                                                                  *)

OwnerRows == [row : 1..MaxId, developer : 1..MaxId, client : 1..MaxId]

Stores == [clients : SUBSET ClientRows, developers : SUBSET DeveloperRows,
           clientDevelopers : SUBSET OwnerRows, codes : SUBSET GrantRows,
           tokens : SUBSET GrantRows, refreshTokens : SUBSET GrantRows,
           scopes : SUBSET ScopesConfig]

\* What a request may want to set: all columns, or some of them.
Registers == [name : Names, canGrant : BOOLEAN]
Updates == [name : Names \cup {None}, canGrant : BOOLEAN \cup {None}]

Positions == {"idle", "getDeveloper", "activateDeveloper", "registerClient",
              "registerClientDeveloper", "ownsClient", "change", "getClients"}
ReqRecords == [kind : {"none", "activate", "register", "update", "delete", "list"},
               at : Positions, server : Servers \cup {None}, email : Emails \cup {None},
               id : Ids \cup {None}, developer : (1..MaxId) \cup {None},
               set : Registers \cup Updates \cup {None}]

\* What a request has when it comes to a call.
Requested(q, drawn) ==
  /\ q.at \in {"getDeveloper", "activateDeveloper"} => q.email \in Emails
  /\ q.at = "getDeveloper" => q.kind \in {"activate", "register"}
  /\ q.at \in {"getDeveloper", "registerClient"} /\ q.kind = "register" =>
       q.set \in Registers
  /\ q.at = "registerClient" => q.kind = "register"
  /\ q.at \in {"registerClient", "registerClientDeveloper"} => q.developer \in 1..MaxId
  /\ q.at = "registerClientDeveloper" => q.id \in drawn
  /\ q.at \in {"ownsClient", "change"} => /\ q.kind \in {"update", "delete"}
                                          /\ q.id \in Ids
                                          /\ q.kind = "update" => q.set \in Updates

\* Every id in a table is that of a predefined client or was drawn.
IdsDrawn ==
  /\ \A c \in my.clients : c.id \in DOMAIN Predefined \cup Drawn
  /\ \A row \in my.clientDevelopers : row.client \in Drawn
  /\ \A t \in MySQL!Grants : \A g \in my[t] : g.id \in Drawn

TypeInv ==
  /\ my \in Stores
  /\ req \in [Requests -> ReqRecords]
  /\ server \in [Servers -> ServerStates]
  /\ nextId \in 1..(MaxId + 1)
  /\ expired \subseteq 1..MaxId
  /\ failed \in BOOLEAN
  /\ IdsDrawn
  /\ \A r \in Requests : Requested(req[r], Drawn)

LEMMA NoRequestTyped ==
  NoRequest \in ReqRecords /\ NoRequest.at = "idle" /\ \A d : Requested(NoRequest, d)
BY DEF NoRequest, ReqRecords, Positions, Requested

LEMMA DownTyped == Down \in ServerStates /\ Down.at = "down"
BY DEF Down, ServerStates

LEMMA InitTyped == Init => TypeInv
<1> SUFFICES ASSUME Init PROVE TypeInv
  OBVIOUS
<1>1. PICK rows \in SUBSET Older : my = [MySQL!Empty EXCEPT !.clients = rows]
  BY DEF Init
<1>2. my \in Stores
  BY <1>1, RowAssumption DEF MySQL!Empty, Stores
<1>3. IdsDrawn
  BY <1>1, RowAssumption DEF MySQL!Empty, MySQL!Grants, IdsDrawn
<1>4. nextId \in 1..(MaxId + 1)
  BY ClientsAssumption DEF Init
<1> QED
  BY <1>2, <1>3, <1>4, NoRequestTyped, DownTyped DEF Init, TypeInv

\* A client is found exactly if it is there.
LEMMA FoundIsThere ==
  ASSUME TypeInv
  PROVE  \A i : MySQL!getClient(my, i) # None <=> \E c \in my.clients : c.id = i
BY RowAssumption DEF MySQL!getClient, MySQL!FirstRow, TypeInv, Stores

-----------------------------------------------------------------------------
(* What the steps do to the tables that the theorems are about.            *)

OnlyDevelopers == UNCHANGED <<my.clients, my.clientDevelopers, my.scopes>>
SameOwners == UNCHANGED <<my.developers, my.clientDevelopers>>
SameTables == OnlyDevelopers /\ SameOwners

\* The calls of the other routes, and what is changed by them.
LEMMA GrantSteps ==
  ASSUME TypeInv, GrantStep
  PROVE  /\ my' \in Stores /\ SameTables
         /\ UNCHANGED <<req, server, failed>>
         /\ nextId' \in {nextId, nextId + 1} /\ nextId' \in 1..(MaxId + 1)
         /\ expired' \subseteq 1..MaxId
         /\ \A t \in MySQL!Grants : \A g \in my'[t] : g.id \in 1..(nextId' - 1)
<1> USE DEF SameTables, OnlyDevelopers, SameOwners, MySQL!Grants
<1>0. /\ my \in Stores /\ nextId \in 1..(MaxId + 1) /\ MaxId \in Nat
      /\ \A t \in MySQL!Grants : \A g \in my[t] : g.id \in 1..(nextId - 1)
  BY ClientsAssumption DEF TypeInv, IdsDrawn, Drawn
<1>1. CASE Generate
  <2> PICK t \in MySQL!Grants, u \in Users, c \in my.clients, x \in TokenScopes :
        my' = MySQL!generate(my, t, [id |-> nextId, user |-> u, client |-> c.id,
                                     scope |-> {x}]).store
    BY <1>1 DEF Generate, Call
  <2> DEFINE g == [id |-> nextId, user |-> u, client |-> c.id, scope |-> {x}]
  <2>1. nextId' = nextId + 1 /\ nextId <= MaxId
    BY <1>1 DEF Generate, Fresh
  <2>2. g \in GrantRows /\ g.id = nextId
    BY <1>0, <2>1 DEF GrantRows, Stores, ClientRows
  <2> HIDE DEF g
  <2>3. my' = [my EXCEPT ![t] = @ \cup {g}]
    BY DEF MySQL!generate, MySQL!Result, g
  <2>4. my' \in Stores /\ SameTables /\ \A o \in MySQL!Grants : my'[o] \subseteq my[o] \cup {g}
    <3>1. CASE t = "codes"
      <4>1. my' = [my EXCEPT !.codes = @ \cup {g}]
        BY <2>3, <3>1
      <4> QED
        BY ONLY <1>0, <2>2, <4>1 DEF Stores, SameTables, OnlyDevelopers, SameOwners, MySQL!Grants
    <3>2. CASE t = "tokens"
      <4>1. my' = [my EXCEPT !.tokens = @ \cup {g}]
        BY <2>3, <3>2
      <4> QED
        BY ONLY <1>0, <2>2, <4>1 DEF Stores, SameTables, OnlyDevelopers, SameOwners, MySQL!Grants
    <3>3. CASE t = "refreshTokens"
      <4>1. my' = [my EXCEPT !.refreshTokens = @ \cup {g}]
        BY <2>3, <3>3
      <4> QED
        BY ONLY <1>0, <2>2, <4>1 DEF Stores, SameTables, OnlyDevelopers, SameOwners, MySQL!Grants
    <3> QED
      BY <3>1, <3>2, <3>3
  <2>5. UNCHANGED <<expired, req, server, failed>>
    BY <1>1 DEF Generate
  <2>6. ASSUME NEW o \in MySQL!Grants, NEW h \in my'[o] PROVE h.id \in 1..(nextId' - 1)
    <3>1. h.id \in 1..(nextId - 1) \/ h.id = nextId
      BY <1>0, <2>2, <2>4
    <3> QED
      BY <1>0, <2>1, <3>1
  <2>7. nextId' \in 1..(MaxId + 1)
    BY <1>0, <2>1
  <2> QED
    BY <2>1, <2>4, <2>5, <2>6, <2>7 DEF TypeInv
<1>2. ASSUME my' \in Stores, SameTables, Quiet, \A t \in MySQL!Grants : my'[t] \subseteq my[t]
      PROVE  /\ UNCHANGED <<req, server, failed>>
             /\ nextId' \in {nextId, nextId + 1} /\ nextId' \in 1..(MaxId + 1)
             /\ expired' \subseteq 1..MaxId
             /\ \A t \in MySQL!Grants : \A g \in my'[t] : g.id \in 1..(nextId' - 1)
  BY <1>0, <1>2 DEF Quiet, TypeInv
<1>3. CASE Get \/ UsedRefreshToken \/ GetScope \/ ListServices
  <2>1. my' = my /\ Quiet
    BY <1>3 DEF Get, UsedRefreshToken, GetScope, MySQL!getScope, ListServices, Call, MySQL!get, MySQL!usedRefreshToken,
                Aggregated, MySQL!getActiveClientsByUid, MySQL!Result
  <2> QED
    BY <1>0, <1>2, <2>1
<1>4. CASE Remove
  <2> PICK t \in MySQL!Grants, i \in Drawn : my' = MySQL!remove(my, t, i).store
    BY <1>4 DEF Remove, Call
  <2>1. my' = [my EXCEPT ![t] = {g \in @ : g.id # i}]
    BY DEF MySQL!remove, MySQL!Result
  <2>2. my' \in Stores /\ SameTables /\ \A u \in MySQL!Grants : my'[u] \subseteq my[u]
    <3>1. CASE t = "codes"
      BY <1>0, <2>1, <3>1 DEF Stores
    <3>2. CASE t = "tokens"
      BY <1>0, <2>1, <3>2 DEF Stores
    <3>3. CASE t = "refreshTokens"
      BY <1>0, <2>1, <3>3 DEF Stores
    <3> QED
      BY <3>1, <3>2, <3>3
  <2> QED
    BY <1>2, <1>4, <2>2 DEF Remove
<1>5. CASE DeleteClientAuthorization
  <2> PICK u \in Users, c \in Ids : my' = MySQL!deleteClientAuthorization(my, c, u).store
    BY <1>5 DEF DeleteClientAuthorization, Call
  <2>1. my' \in Stores /\ SameTables /\ \A t \in MySQL!Grants : my'[t] \subseteq my[t]
    BY <1>0 DEF MySQL!deleteClientAuthorization, MySQL!Result, Stores
  <2> QED
    BY <1>2, <1>5, <2>1 DEF DeleteClientAuthorization
<1>6. CASE RemoveUser
  <2> PICK u \in Users : my' = MySQL!removeUser(my, u).store
    BY <1>6 DEF RemoveUser, Call
  <2>1. my' \in Stores /\ SameTables /\ \A t \in MySQL!Grants : my'[t] \subseteq my[t]
    BY <1>0 DEF MySQL!removeUser, MySQL!Result, Stores
  <2> QED
    BY <1>2, <1>6, <2>1 DEF RemoveUser
<1>7. CASE RemovePublicAndCanGrantTokens
  <2> PICK u \in Users : my' = MySQL!removePublicAndCanGrantTokens(my, u).store
    BY <1>7 DEF RemovePublicAndCanGrantTokens, Call
  <2>1. my' \in Stores /\ SameTables /\ \A t \in MySQL!Grants : my'[t] \subseteq my[t]
    BY <1>0 DEF MySQL!removePublicAndCanGrantTokens, MySQL!Result, Stores
  <2> QED
    BY <1>2, <1>7, <2>1 DEF RemovePublicAndCanGrantTokens
<1>8. CASE Expire
  <2>1. my' = my /\ UNCHANGED <<nextId, req, server, failed>>
    BY <1>8 DEF Expire
  <2>2. expired' \subseteq 1..MaxId
    BY <1>0, <1>8 DEF Expire, TypeInv, Stores, GrantRows
  <2> QED
    BY <1>0, <2>1, <2>2
<1> QED
  BY <1>1, <1>3, <1>4, <1>5, <1>6, <1>7, <1>8 DEF GrantStep

\* A step with one request.
LEMMA OneRequest ==
  ASSUME TypeInv, NEW r \in Requests, Drawn \subseteq Drawn'
  PROVE  \A x \in ReqRecords :
           /\ req' = [req EXCEPT ![r] = x]
           /\ Requested(x, Drawn')
           => /\ req' \in [Requests -> ReqRecords]
              /\ \A q \in Requests : Requested(req'[q], Drawn')
              /\ req'[r] = x
              /\ \A q \in Requests \ {r} : req'[q] = req[q]
<1> SUFFICES ASSUME NEW x \in ReqRecords, req' = [req EXCEPT ![r] = x], Requested(x, Drawn')
             PROVE  /\ req' \in [Requests -> ReqRecords]
                    /\ \A q \in Requests : Requested(req'[q], Drawn')
                    /\ req'[r] = x
                    /\ \A q \in Requests \ {r} : req'[q] = req[q]
  OBVIOUS
<1>1. req' \in [Requests -> ReqRecords] /\ req'[r] = x /\ \A q \in Requests \ {r} : req'[q] = req[q]
  BY DEF TypeInv
<1>2. ASSUME NEW q \in Requests PROVE Requested(req'[q], Drawn')
  <2>1. CASE q = r
    BY <1>1, <2>1
  <2>2. CASE q # r
    <3>1. Requested(req[q], Drawn) /\ req'[q] = req[q]
      BY <1>1, <2>2 DEF TypeInv
    <3>2. \A d : Requested(req[q], Drawn) /\ Drawn \subseteq d => Requested(req[q], d)
      BY DEF Requested
    <3> QED
      BY <3>1, <3>2
  <2> QED
    BY <2>1, <2>2
<1> QED
  BY <1>1, <1>2

\* The request that is answered.
LEMMA Returned ==
  ASSUME TypeInv, NEW r \in Requests, Drawn \subseteq Drawn', Return(r)
  PROVE  /\ req' \in [Requests -> ReqRecords]
         /\ \A q \in Requests : Requested(req'[q], Drawn')
         /\ req'[r].at = "idle"
         /\ \A q \in Requests \ {r} : req'[q] = req[q]
BY NoRequestTyped, OneRequest DEF Return

\* A drawn id is new.
LEMMA FreshIsNew ==
  ASSUME TypeInv, Fresh
  PROVE  /\ nextId \in 1..MaxId /\ nextId' = nextId + 1 /\ nextId' \in 1..(MaxId + 1)
         /\ nextId \notin Drawn /\ nextId \in Drawn' /\ Drawn \subseteq Drawn'
         /\ nextId \notin DOMAIN Predefined /\ nextId \in Ids
BY ClientsAssumption DEF TypeInv, Fresh, Drawn, Ids

\* The calls of a request that only read.
Reads(r) ==
  \/ activateRegistration(r) \/ registerEndpoint(r) \/ updateClientEndpoint(r)
  \/ clientDeleteEndpoint(r) \/ listEndpoint(r)
  \/ GetDeveloper(r) \/ DeveloperOwnsClient(r) \/ ListClients(r) \/ Fail(r)

LEMMA Arrived ==
  ASSUME TypeInv, NEW r \in Requests,
         \/ activateRegistration(r) \/ registerEndpoint(r) \/ updateClientEndpoint(r)
         \/ clientDeleteEndpoint(r) \/ listEndpoint(r)
  PROVE  /\ UNCHANGED <<my, nextId, expired, server, failed>>
         /\ req[r].at = "idle"
         /\ \E x \in ReqRecords :
              /\ req' = [req EXCEPT ![r] = x]
              /\ Requested(x, Drawn)
              /\ x.at \in {"getDeveloper", "ownsClient", "getClients"}
<1> USE DEF Arrive
<1>0. Whitelisted \subseteq Emails
  BY ClientsAssumption
<1>6. UNCHANGED <<my, nextId, expired, server, failed>> /\ req[r].at = "idle"
  BY DEF activateRegistration, registerEndpoint, updateClientEndpoint, clientDeleteEndpoint,
         listEndpoint
<1>1. CASE activateRegistration(r)
  <2> PICK e \in Emails :
        Arrive(r, "activate", "getDeveloper", [email |-> e, id |-> None, set |-> None])
    BY <1>1 DEF activateRegistration
  <2> PICK s \in Servers :
        req' = [req EXCEPT ![r] = [kind |-> "activate", at |-> "getDeveloper", server |-> s,
                           email |-> e, id |-> None, developer |-> None, set |-> None]]
    OBVIOUS
  <2> DEFINE x == [kind |-> "activate", at |-> "getDeveloper", server |-> s,
                  email |-> e, id |-> None, developer |-> None, set |-> None]
  <2>2. x \in ReqRecords /\ Requested(x, Drawn) /\ x.at \in {"getDeveloper", "ownsClient", "getClients"}
    BY <1>0 DEF ReqRecords, Positions, Requested
  <2>3. req' = [req EXCEPT ![r] = x]
    OBVIOUS
  <2> HIDE DEF x
  <2> QED
    BY <2>2, <2>3, <1>6
<1>2. CASE registerEndpoint(r)
  <2> PICK e \in Emails, n \in Names, g \in BOOLEAN :
        Arrive(r, "register", "getDeveloper",
               [email |-> e, id |-> None, set |-> [name |-> n, canGrant |-> g]])
    BY <1>2 DEF registerEndpoint
  <2> PICK s \in Servers :
        req' = [req EXCEPT ![r] = [kind |-> "register", at |-> "getDeveloper", server |-> s,
                           email |-> e, id |-> None, developer |-> None,
                           set |-> [name |-> n, canGrant |-> g]]]
    OBVIOUS
  <2> DEFINE x == [kind |-> "register", at |-> "getDeveloper", server |-> s,
                  email |-> e, id |-> None, developer |-> None,
                  set |-> [name |-> n, canGrant |-> g]]
  <2>1. [name |-> n, canGrant |-> g] \in Registers
    BY DEF Registers
  <2>2. x \in ReqRecords /\ Requested(x, Drawn) /\ x.at \in {"getDeveloper", "ownsClient", "getClients"}
    BY <2>1, <1>0 DEF ReqRecords, Positions, Requested
  <2>3. req' = [req EXCEPT ![r] = x]
    OBVIOUS
  <2> HIDE DEF x
  <2> QED
    BY <2>2, <2>3, <1>6
<1>3. CASE updateClientEndpoint(r)
  <2> PICK e \in Emails, i \in Ids, n \in Names \cup {None}, g \in BOOLEAN \cup {None} :
        Arrive(r, "update", "ownsClient",
               [email |-> e, id |-> i, set |-> [name |-> n, canGrant |-> g]])
    BY <1>3 DEF updateClientEndpoint
  <2> PICK s \in Servers :
        req' = [req EXCEPT ![r] = [kind |-> "update", at |-> "ownsClient", server |-> s,
                           email |-> e, id |-> i, developer |-> None,
                           set |-> [name |-> n, canGrant |-> g]]]
    OBVIOUS
  <2> DEFINE x == [kind |-> "update", at |-> "ownsClient", server |-> s,
                  email |-> e, id |-> i, developer |-> None,
                  set |-> [name |-> n, canGrant |-> g]]
  <2>1. [name |-> n, canGrant |-> g] \in Updates
    BY DEF Updates
  <2>2. x \in ReqRecords /\ Requested(x, Drawn) /\ x.at \in {"getDeveloper", "ownsClient", "getClients"}
    BY <2>1, <1>0 DEF ReqRecords, Positions, Requested
  <2>3. req' = [req EXCEPT ![r] = x]
    OBVIOUS
  <2> HIDE DEF x
  <2> QED
    BY <2>2, <2>3, <1>6
<1>4. CASE clientDeleteEndpoint(r)
  <2> PICK e \in Emails, i \in Ids :
        Arrive(r, "delete", "ownsClient", [email |-> e, id |-> i, set |-> None])
    BY <1>4 DEF clientDeleteEndpoint
  <2> PICK s \in Servers :
        req' = [req EXCEPT ![r] = [kind |-> "delete", at |-> "ownsClient", server |-> s,
                           email |-> e, id |-> i, developer |-> None, set |-> None]]
    OBVIOUS
  <2> DEFINE x == [kind |-> "delete", at |-> "ownsClient", server |-> s,
                  email |-> e, id |-> i, developer |-> None, set |-> None]
  <2>2. x \in ReqRecords /\ Requested(x, Drawn) /\ x.at \in {"getDeveloper", "ownsClient", "getClients"}
    BY <1>0 DEF ReqRecords, Positions, Requested
  <2>3. req' = [req EXCEPT ![r] = x]
    OBVIOUS
  <2> HIDE DEF x
  <2> QED
    BY <2>2, <2>3, <1>6
<1>5. CASE listEndpoint(r)
  <2> PICK e \in Emails :
        Arrive(r, "list", "getClients", [email |-> e, id |-> None, set |-> None])
    BY <1>5 DEF listEndpoint
  <2> PICK s \in Servers :
        req' = [req EXCEPT ![r] = [kind |-> "list", at |-> "getClients", server |-> s,
                           email |-> e, id |-> None, developer |-> None, set |-> None]]
    OBVIOUS
  <2> DEFINE x == [kind |-> "list", at |-> "getClients", server |-> s,
                  email |-> e, id |-> None, developer |-> None, set |-> None]
  <2>2. x \in ReqRecords /\ Requested(x, Drawn) /\ x.at \in {"getDeveloper", "ownsClient", "getClients"}
    BY <1>0 DEF ReqRecords, Positions, Requested
  <2>3. req' = [req EXCEPT ![r] = x]
    OBVIOUS
  <2> HIDE DEF x
  <2> QED
    BY <2>2, <2>3, <1>6
<1> QED
  BY <1>1, <1>2, <1>3, <1>4, <1>5

Owner(e, i) == i \in MySQL!Owned(my, e)
Pending(r) == req[r].at = "registerClientDeveloper"

\* A request comes to a change only through the ownership that it was shown.
LEMMA Reading ==
  ASSUME TypeInv, NEW r \in Requests, Reads(r)
  PROVE  /\ UNCHANGED <<my, nextId, expired, server>>
         /\ failed' \in BOOLEAN /\ (failed => failed')
         /\ req' \in [Requests -> ReqRecords]
         /\ \A q \in Requests : Requested(req'[q], Drawn')
         /\ \A q \in Requests \ {r} : req'[q] = req[q]
         /\ req[r].at = "registerClientDeveloper" => failed'
         /\ req'[r].at # "registerClientDeveloper"
         /\ req'[r].at = "change" =>
              Owner(req'[r].email, req'[r].id) /\ req'[r].id \in Drawn
<1>0. req[r] \in ReqRecords /\ Requested(req[r], Drawn) /\ failed \in BOOLEAN
  BY DEF TypeInv
<1>1. CASE \/ activateRegistration(r) \/ registerEndpoint(r) \/ updateClientEndpoint(r)
           \/ clientDeleteEndpoint(r) \/ listEndpoint(r)
  <2>1. /\ UNCHANGED <<my, nextId, expired, server, failed>>
        /\ req[r].at = "idle"
        /\ \E x \in ReqRecords :
             /\ req' = [req EXCEPT ![r] = x]
             /\ Requested(x, Drawn)
             /\ x.at \in {"getDeveloper", "ownsClient", "getClients"}
    BY <1>1, Arrived
  <2>2. Drawn' = Drawn
    BY <2>1 DEF Drawn
  <2> QED
    BY <1>0, <2>1, <2>2, OneRequest
<1>2. CASE GetDeveloper(r)
  <2>1. /\ UNCHANGED <<my, nextId, expired, server, failed>>
        /\ req[r].at = "getDeveloper"
    BY <1>2 DEF GetDeveloper, Call, MySQL!Result
  <2>2. Drawn' = Drawn
    BY <2>1 DEF Drawn
  <2> DEFINE found == MySQL!getDeveloper(my, req[r].email)
  <2>3. \/ Return(r)
        \/ req[r].kind = "activate" /\ GoTo(r, "activateDeveloper")
        \/ /\ req[r].kind = "register" /\ found # None
           /\ req' = [req EXCEPT ![r].at = "registerClient", ![r].developer = found.id]
    BY <1>2 DEF GetDeveloper
  <2>4. found # None => found.id \in 1..MaxId
    BY DEF MySQL!getDeveloper, MySQL!FirstRow, TypeInv, Stores, DeveloperRows
  <2>5. CASE Return(r)
    BY <1>0, <2>1, <2>2, <2>5, Returned
  <2>6. CASE req[r].kind = "activate" /\ GoTo(r, "activateDeveloper")
    <3> DEFINE x == [req[r] EXCEPT !.at = "activateDeveloper"]
    <3>1. x \in ReqRecords /\ Requested(x, Drawn) /\ x.at = "activateDeveloper"
      BY <1>0, <2>1, <2>6 DEF ReqRecords, Requested, Positions
    <3>2. req' = [req EXCEPT ![r] = x]
      BY <2>6 DEF GoTo
    <3> HIDE DEF x
    <3> QED
      BY <1>0, <2>1, <2>2, <3>1, <3>2, OneRequest
  <2>7. CASE /\ req[r].kind = "register" /\ found # None
             /\ req' = [req EXCEPT ![r].at = "registerClient", ![r].developer = found.id]
    <3> HIDE DEF found
    <3> DEFINE x == [req[r] EXCEPT !.at = "registerClient", !.developer = found.id]
    <3>1. x \in ReqRecords /\ Requested(x, Drawn) /\ x.at = "registerClient"
      BY <1>0, <2>1, <2>4, <2>7 DEF ReqRecords, Requested, Positions
    <3>2. req' = [req EXCEPT ![r] = x]
      BY <2>7
    <3> HIDE DEF x
    <3> QED
      BY <1>0, <2>1, <2>2, <3>1, <3>2, OneRequest
  <2> QED
    BY <2>3, <2>5, <2>6, <2>7
<1>3. CASE DeveloperOwnsClient(r)
  <2>1. /\ UNCHANGED <<my, nextId, expired, server, failed>>
        /\ req[r].at = "ownsClient"
    BY <1>3 DEF DeveloperOwnsClient, Call, MySQL!developerOwnsClient, MySQL!Result
  <2>2. Drawn' = Drawn
    BY <2>1 DEF Drawn
  <2>3. Return(r) \/ (Owner(req[r].email, req[r].id) /\ GoTo(r, "change"))
    <3>0. \/ /\ MySQL!developerOwnsClient(my, req[r].email, req[r].id).answer = Rejected
             /\ Return(r)
          \/ GoTo(r, "change")
      BY ONLY <1>3 DEF DeveloperOwnsClient
    <3>1. CASE Owner(req[r].email, req[r].id)
      BY <3>0, <3>1
    <3>2. CASE ~Owner(req[r].email, req[r].id)
      <4>1. MySQL!developerOwnsClient(my, req[r].email, req[r].id).answer = Rejected
        BY <3>2 DEF MySQL!developerOwnsClient, MySQL!Result, Owner
      <4> QED
        BY <1>3, <4>1 DEF DeveloperOwnsClient
    <3> QED
      BY <3>1, <3>2
  <2>4. CASE Return(r)
    BY <1>0, <2>1, <2>2, <2>4, Returned
  <2>5. CASE Owner(req[r].email, req[r].id) /\ GoTo(r, "change")
    <3> DEFINE x == [req[r] EXCEPT !.at = "change"]
    <3>1. /\ x \in ReqRecords /\ Requested(x, Drawn) /\ x.at = "change"
          /\ x.email = req[r].email /\ x.id = req[r].id
      BY <1>0, <2>1 DEF ReqRecords, Requested, Positions
    <3>2. req' = [req EXCEPT ![r] = x]
      BY <2>5 DEF GoTo
    <3> HIDE DEF x
    <3>3. req[r].id \in Drawn
      BY <2>5 DEF Owner, MySQL!Owned, TypeInv, IdsDrawn
    <3> QED
      BY <1>0, <2>1, <2>2, <2>5, <3>1, <3>2, <3>3, OneRequest
  <2> QED
    BY <2>3, <2>4, <2>5
<1>4. CASE ListClients(r) \/ Fail(r)
  <2>1. /\ UNCHANGED <<my, nextId, expired, server>>
        /\ Return(r)
        /\ (failed' = failed /\ req[r].at = "getClients") \/ failed' = TRUE
    BY <1>4 DEF ListClients, Fail, Call, MySQL!getClients, MySQL!Result
  <2>2. Drawn' = Drawn
    BY <2>1 DEF Drawn
  <2>3. CASE failed' = failed /\ req[r].at = "getClients"
    BY <1>0, <2>1, <2>2, <2>3, Returned
  <2>4. CASE failed' = TRUE
    BY <2>1, <2>2, <2>4, Returned
  <2> QED
    BY <2>1, <2>3, <2>4
<1> QED
  BY <1>1, <1>2, <1>3, <1>4 DEF Reads

SameGrants == UNCHANGED <<my.codes, my.tokens, my.refreshTokens>>
Same == UNCHANGED <<server, failed, expired>>

LEMMA Activating ==
  ASSUME TypeInv, NEW r \in Requests, ActivateDeveloper(r)
  PROVE  /\ my' \in Stores /\ OnlyDevelopers /\ SameGrants /\ Same
         /\ my.developers \subseteq my'.developers
         /\ Fresh /\ Return(r) /\ ~Pending(r)
<1>1. /\ req[r].at = "activateDeveloper" /\ Fresh /\ Return(r) /\ Same
      /\ my' = MySQL!activateDeveloper(my, nextId, req[r].email).store
  BY DEF ActivateDeveloper, Call, Same
<1>2. req[r].email \in Emails /\ nextId \in 1..MaxId /\ my \in Stores
  BY <1>1, FreshIsNew DEF TypeInv, Requested
<1> DEFINE d == [id |-> nextId, email |-> req[r].email]
<1>3. d \in DeveloperRows
  BY <1>2 DEF DeveloperRows
<1>4. my' = my \/ my' = [my EXCEPT !.developers = @ \cup {d}]
  BY <1>1 DEF MySQL!activateDeveloper, MySQL!Result
<1> HIDE DEF d
<1> QED
  BY <1>1, <1>2, <1>3, <1>4 DEF Stores, OnlyDevelopers, SameGrants, Pending

\* The id of a new client is in no table, so that the INSERT succeeds.
LEMMA Registering ==
  ASSUME TypeInv, NEW r \in Requests, RegisterClient(r)
  PROVE  /\ my' \in Stores /\ SameOwners /\ SameGrants /\ Same
         /\ my'.scopes = my.scopes
         /\ Fresh /\ ~Pending(r)
         /\ \E c \in ClientRows : c.id = nextId /\ my'.clients = my.clients \cup {c}
         /\ req' \in [Requests -> ReqRecords]
         /\ \A q \in Requests : Requested(req'[q], Drawn')
         /\ \A q \in Requests \ {r} : req'[q] = req[q]
         /\ req'[r].at = "registerClientDeveloper" /\ req'[r].id = nextId
<1> DEFINE c == [id |-> nextId, name |-> req[r].set.name,
                 canGrant |-> req[r].set.canGrant, public |-> FALSE]
<1>1. /\ req[r].at = "registerClient" /\ Fresh /\ Same
      /\ req' = [req EXCEPT ![r].at = "registerClientDeveloper", ![r].id = nextId]
      /\ my' = MySQL!registerClient(my, c).store
  BY DEF RegisterClient, Call, Same
<1>2. /\ my \in Stores /\ req[r] \in ReqRecords /\ req[r].kind = "register"
      /\ req[r].set \in Registers /\ req[r].developer \in 1..MaxId
  BY <1>1 DEF TypeInv, Requested
<1>3. c \in ClientRows /\ c.id = nextId
  BY <1>1, <1>2, FreshIsNew DEF ClientRows, Registers
<1> HIDE DEF c
<1>4. MySQL!getClient(my, c.id) = None
  BY <1>1, <1>3, FreshIsNew, FoundIsThere DEF TypeInv, IdsDrawn
<1>5. my' = [my EXCEPT !.clients = @ \cup {c}]
  BY <1>1, <1>4 DEF MySQL!registerClient, MySQL!Result
<1>6. my' \in Stores /\ SameOwners /\ SameGrants /\ my'.scopes = my.scopes /\ my'.clients = my.clients \cup {c}
  BY ONLY <1>2, <1>3, <1>5 DEF Stores, SameOwners, SameGrants
<1> DEFINE x == [req[r] EXCEPT !.at = "registerClientDeveloper", !.id = nextId]
<1>7. /\ x \in ReqRecords /\ Requested(x, Drawn')
      /\ x.at = "registerClientDeveloper" /\ x.id = nextId
  BY <1>1, <1>2, FreshIsNew DEF ReqRecords, Requested, Positions
<1>8. req' = [req EXCEPT ![r] = x]
  BY <1>1
<1> HIDE DEF x
<1> QED
  BY <1>1, <1>3, <1>6, <1>7, <1>8, FreshIsNew, OneRequest DEF Pending

LEMMA RegisteringDeveloper ==
  ASSUME TypeInv, NEW r \in Requests, RegisterClientDeveloper(r)
  PROVE  /\ my' \in Stores /\ SameGrants /\ Same
         /\ UNCHANGED <<my.clients, my.developers, my.scopes>>
         /\ \E o \in OwnerRows : /\ o.client = req[r].id
                                 /\ my'.clientDevelopers = my.clientDevelopers \cup {o}
         /\ Fresh /\ Return(r) /\ Pending(r) /\ req[r].id \in Drawn
<1> DEFINE o == [row |-> nextId, developer |-> req[r].developer, client |-> req[r].id]
<1>1. /\ Pending(r) /\ Fresh /\ Return(r) /\ Same
      /\ my' = [my EXCEPT !.clientDevelopers = @ \cup {o}]
  BY DEF RegisterClientDeveloper, Call, Same, Pending, MySQL!registerClientDeveloper,
         MySQL!Result
<1>2. /\ my \in Stores /\ req[r].developer \in 1..MaxId /\ req[r].id \in Drawn
      /\ Drawn \subseteq 1..MaxId
  BY <1>1, ClientsAssumption DEF TypeInv, Requested, Pending, Drawn
<1>3. o \in OwnerRows /\ o.client = req[r].id
  BY <1>1, <1>2, FreshIsNew DEF OwnerRows
<1> HIDE DEF o
<1>4. /\ my' \in Stores /\ SameGrants /\ UNCHANGED <<my.clients, my.developers, my.scopes>>
      /\ my'.clientDevelopers = my.clientDevelopers \cup {o}
  BY ONLY <1>1, <1>2, <1>3 DEF Stores, SameGrants
<1> QED
  BY <1>1, <1>2, <1>3, <1>4

\* The client with an id, after an update
Updated(c, id, name, canGrant) ==
  IF c.id # id THEN c
  ELSE [c EXCEPT !.name = MySQL!Coalesce(name, @), !.canGrant = MySQL!Coalesce(canGrant, @)]

\* What an UPDATE leaves: every row is where it was, and the rows of other
\* clients are as they were.
LEMMA UpdateKeeps ==
  ASSUME my \in Stores
  PROVE  \A i \in Ids, n \in Names \cup {None}, g \in BOOLEAN \cup {None} :
           my' = [my EXCEPT !.clients = {Updated(c, i, n, g) : c \in @}] =>
             /\ my' \in Stores /\ SameOwners /\ SameGrants /\ my'.scopes = my.scopes
             /\ my'.clients = {Updated(c, i, n, g) : c \in my.clients}
             /\ \A c \in my.clients : Updated(c, i, n, g).id = c.id
             /\ \A c \in my.clients : c.id # i => c \in my'.clients
             /\ {c.id : c \in my'.clients} = {c.id : c \in my.clients}
<1> SUFFICES ASSUME NEW i \in Ids, NEW n \in Names \cup {None}, NEW g \in BOOLEAN \cup {None},
                    my' = [my EXCEPT !.clients = {Updated(c, i, n, g) : c \in @}]
             PROVE  /\ my' \in Stores /\ SameOwners /\ SameGrants /\ my'.scopes = my.scopes
                    /\ my'.clients = {Updated(c, i, n, g) : c \in my.clients}
                    /\ \A c \in my.clients : Updated(c, i, n, g).id = c.id
                    /\ \A c \in my.clients : c.id # i => c \in my'.clients
                    /\ {c.id : c \in my'.clients} = {c.id : c \in my.clients}
  OBVIOUS
<1> DEFINE new == {Updated(c, i, n, g) : c \in my.clients}
<1>1. ASSUME NEW c \in ClientRows
      PROVE  Updated(c, i, n, g) \in ClientRows /\ Updated(c, i, n, g).id = c.id
  BY DEF Updated, ClientRows, MySQL!Coalesce
<1>2. my.clients \subseteq ClientRows
  BY DEF Stores
<1>3. new \subseteq ClientRows
  BY <1>1, <1>2
<1>4. my' = [my EXCEPT !.clients = new]
  OBVIOUS
<1>5. \A c \in my.clients : c.id # i => c \in new
  BY DEF Updated
<1>6. {c.id : c \in new} = {c.id : c \in my.clients}
  BY <1>1, <1>2
<1> HIDE DEF new
<1>7. my' \in Stores /\ SameOwners /\ SameGrants /\ my'.scopes = my.scopes /\ my'.clients = new
  BY ONLY my \in Stores, <1>3, <1>4 DEF Stores, SameOwners, SameGrants
<1> QED
  BY <1>1, <1>2, <1>5, <1>6, <1>7 DEF new

LEMMA Updating ==
  ASSUME TypeInv, NEW r \in Requests, UpdateClient(r)
  PROVE  /\ req[r].at = "change" /\ req[r].id \in Ids /\ Return(r) /\ Same /\ nextId' = nextId
         /\ my' \in Stores /\ SameOwners /\ SameGrants /\ my'.scopes = my.scopes
         /\ \A c \in my.clients : c.id # req[r].id => c \in my'.clients
         /\ {c.id : c \in my'.clients} = {c.id : c \in my.clients}
<1> DEFINE client == [id |-> req[r].id, name |-> req[r].set.name,
                      canGrant |-> req[r].set.canGrant]
<1>1. /\ req[r].at = "change" /\ req[r].kind = "update" /\ Return(r) /\ Same /\ nextId' = nextId
      /\ my' = MySQL!updateClient(my, client).store
  BY DEF UpdateClient, Call, Same
<1>2. my \in Stores /\ req[r].id \in Ids /\ req[r].set \in Updates
  BY <1>1 DEF TypeInv, Requested
<1>3. client.name \in Names \cup {None} /\ client.canGrant \in BOOLEAN \cup {None} /\ client.id = req[r].id
  BY <1>2 DEF Updates
<1> HIDE DEF client
<1>4. my' = [my EXCEPT !.clients = {Updated(c, client.id, client.name, client.canGrant) : c \in @}]
  BY <1>1 DEF MySQL!updateClient, MySQL!Result, Updated
<1> PICK i \in Ids : i = req[r].id
  BY <1>2
<1> PICK n \in Names \cup {None}, g \in BOOLEAN \cup {None} :
      n = client.name /\ g = client.canGrant
  BY <1>3
<1>5. my' = [my EXCEPT !.clients = {Updated(c, i, n, g) : c \in @}]
  BY <1>3, <1>4
<1>6. /\ my' \in Stores /\ SameOwners /\ SameGrants /\ my'.scopes = my.scopes
      /\ my'.clients = {Updated(c, i, n, g) : c \in my.clients}
      /\ \A c \in my.clients : Updated(c, i, n, g).id = c.id
      /\ \A c \in my.clients : c.id # i => c \in my'.clients
      /\ {c.id : c \in my'.clients} = {c.id : c \in my.clients}
  BY <1>2, <1>5, UpdateKeeps, ZenonT(60)
<1> QED
  BY <1>1, <1>2, <1>6

LEMMA Removing ==
  ASSUME TypeInv, NEW r \in Requests, RemoveClient(r)
  PROVE  /\ req[r].at = "change" /\ req[r].id \in Ids /\ Return(r) /\ Same /\ nextId' = nextId
         /\ my' \in Stores /\ UNCHANGED <<my.developers, my.scopes>>
         /\ my'.clients = {c \in my.clients : c.id # req[r].id}
         /\ \/ my' = my /\ \A c \in my.clients : c.id # req[r].id
            \/ my'.clientDevelopers = {o \in my.clientDevelopers : o.client # req[r].id}
         /\ \A t \in MySQL!Grants : my'[t] \subseteq my[t]
<1> DEFINE id == req[r].id
<1>1. /\ req[r].at = "change" /\ Return(r) /\ Same /\ nextId' = nextId
      /\ my' = MySQL!removeClient(my, id).store
  BY DEF RemoveClient, Call, Same
<1>2. my \in Stores /\ id \in Ids
  BY <1>1 DEF TypeInv, Requested
<1>3. CASE MySQL!getClient(my, id) = None
  <2>1. my' = my
    BY <1>1, <1>3 DEF MySQL!removeClient, MySQL!Result
  <2>2. \A c \in my.clients : c.id # id
    BY <1>3, FoundIsThere
  <2> QED
    BY <1>1, <1>2, <2>1, <2>2
<1>4. CASE MySQL!getClient(my, id) # None
  <2>1. my' = [t \in DOMAIN my |->
                 CASE t = "clients" -> {c \in my.clients : c.id # id}
                   [] t \in MySQL!Grants \cup {"clientDevelopers"} ->
                        {row \in my[t] : row.client # id}
                   [] OTHER -> my[t]]
    BY <1>1, <1>4 DEF MySQL!removeClient, MySQL!Result
  <2> HIDE DEF id
  <2>2. DOMAIN my = {"clients", "developers", "clientDevelopers", "codes", "tokens",
                     "refreshTokens", "scopes"}
    BY <1>2 DEF Stores
  <2>3. /\ my'.clients = {c \in my.clients : c.id # id}
        /\ my'.clientDevelopers = {o \in my.clientDevelopers : o.client # id}
        /\ my'.developers = my.developers /\ my'.scopes = my.scopes
        /\ my'.codes = {g \in my.codes : g.client # id}
        /\ my'.tokens = {g \in my.tokens : g.client # id}
        /\ my'.refreshTokens = {g \in my.refreshTokens : g.client # id}
    BY ONLY <2>1, <2>2 DEF MySQL!Grants
  <2>4. my' = [clients |-> my'.clients, developers |-> my'.developers,
               clientDevelopers |-> my'.clientDevelopers, codes |-> my'.codes,
               tokens |-> my'.tokens, refreshTokens |-> my'.refreshTokens,
               scopes |-> my'.scopes]
    BY ONLY <2>1, <2>2
  <2>5. my' \in Stores
    BY ONLY <1>2, <2>3, <2>4 DEF Stores
  <2> QED
    BY <1>1, <1>2, <2>3, <2>5 DEF MySQL!Grants, id
<1> QED
  BY <1>3, <1>4

\* Of the predefined clients, a store serves those that are as configured.
ServedIn(store, p) ==
  \E c \in store.clients : /\ c.id = p
                           /\ c.name = Predefined[p].name
                           /\ c.canGrant = Predefined[p].canGrant

\* What a step of a server that is starting keeps of the tables.
ServerKeeps ==
  /\ my' \in Stores /\ SameOwners /\ SameGrants /\ UNCHANGED <<nextId, expired>>
  /\ my.scopes \subseteq my'.scopes
  /\ \A c \in my.clients : c \in my'.clients \/ c.id \in DOMAIN Predefined
  /\ {c.id : c \in my.clients} \subseteq {c.id : c \in my'.clients}
  /\ {c.id : c \in my'.clients} \subseteq {c.id : c \in my.clients} \cup DOMAIN Predefined
  /\ \A p \in DOMAIN Predefined : ServedIn(my, p) => ServedIn(my', p)

LEMMA SameKeep ==
  ASSUME TypeInv, UNCHANGED <<my, nextId, expired>>
  PROVE  ServerKeeps
BY DEF ServerKeeps, TypeInv, SameOwners, SameGrants, ServedIn

LEMMA Exiting ==
  ASSUME TypeInv, NEW s \in Servers, Exit(s), nextId' = nextId
  PROVE  /\ req' \in [Requests -> ReqRecords] /\ server' \in [Servers -> ServerStates]
         /\ \A q \in Requests : Requested(req'[q], Drawn')
         /\ failed' = TRUE
         /\ \A q \in Requests : req'[q] = req[q] \/ req'[q] = NoRequest
         /\ server'[s] = Down /\ \A o \in Servers \ {s} : server'[o] = server[o]
<1>1. \A q \in Requests : req'[q] = IF req[q].server = s THEN NoRequest ELSE req[q]
  BY DEF Exit
<1>2. req' \in [Requests -> ReqRecords]
  BY <1>1, NoRequestTyped DEF Exit, TypeInv
<1>3. Drawn' = Drawn
  BY DEF Drawn
<1>4. \A q \in Requests : Requested(req'[q], Drawn')
  BY <1>1, <1>3, NoRequestTyped DEF TypeInv
<1>5. server' = [server EXCEPT ![s] = Down] /\ failed' = TRUE
  BY DEF Exit
<1> QED
  BY <1>1, <1>2, <1>4, <1>5, DownTyped DEF TypeInv

\* The client that a server writes, or looks for
Configure(p) == [id |-> p, name |-> Predefined[p].name, canGrant |-> Predefined[p].canGrant,
                 public |-> Predefined[p].public]

LEMMA ConfigureTyped ==
  ASSUME NEW p \in DOMAIN Predefined
  PROVE  Configure(p) \in ClientRows /\ Configure(p).id = p
BY RowAssumption DEF Configure, ClientRows, Ids

\* A predefined client is inserted, or another server was faster.
LEMMA RegisteringPredefined ==
  ASSUME TypeInv, NEW s \in Servers, NEW p \in DOMAIN Predefined, RegisterPredefined(s, p)
  PROVE  /\ ServerKeeps
         /\ server[s].at = "clients" /\ p \in server[s].absent
         /\ \/ Exit(s)
            \/ /\ server' = [server EXCEPT ![s].absent = @ \ {p}]
               /\ UNCHANGED <<req, failed>>
               /\ ServedIn(my', p)
<1> DEFINE c == Configure(p)
           m == MySQL!registerClient(my, c)
<1>1. /\ my' = m.store /\ UNCHANGED <<nextId, expired>>
      /\ server[s].at = "clients" /\ p \in server[s].absent
      /\ Registered(s, p, m)
  BY DEF RegisterPredefined, Call, Configure
<1>2. c \in ClientRows /\ c.id = p /\ my \in Stores
  BY ConfigureTyped DEF TypeInv
<1>3. CASE MySQL!getClient(my, p) # None
  <2>1. my' = my /\ m.answer = Rejected
    BY <1>1, <1>2, <1>3 DEF MySQL!registerClient, MySQL!Result
  <2>2. Exit(s)
    BY <1>1, <2>1 DEF Registered
  <2> QED
    BY <1>1, <2>1, <2>2, SameKeep
<1>4. CASE MySQL!getClient(my, p) = None
  <2>1. my' = [my EXCEPT !.clients = @ \cup {c}]
    BY <1>1, <1>2, <1>4 DEF MySQL!registerClient, MySQL!Result
  <2>2. \/ Exit(s)
        \/ /\ server' = [server EXCEPT ![s].absent = @ \ {p}]
           /\ UNCHANGED <<req, failed>>
    BY <1>1 DEF Registered
  <2>3. c.name = Predefined[p].name /\ c.canGrant = Predefined[p].canGrant
    BY DEF Configure
  <2> HIDE DEF c
  <2>4. /\ my' \in Stores /\ SameOwners /\ SameGrants /\ my'.scopes = my.scopes
        /\ my'.clients = my.clients \cup {c}
    BY ONLY <1>2, <2>1 DEF Stores, SameOwners, SameGrants
  <2>5. ServedIn(my', p) /\ \A o \in DOMAIN Predefined : ServedIn(my, o) => ServedIn(my', o)
    BY <1>2, <2>3, <2>4 DEF ServedIn
  <2>6. ServerKeeps
    BY <1>1, <1>2, <2>4, <2>5 DEF ServerKeeps
  <2> QED
    BY <1>1, <2>2, <2>5, <2>6
<1> QED
  BY <1>3, <1>4

\* A predefined client is brought up to date.
LEMMA UpdatingPredefined ==
  ASSUME TypeInv, NEW s \in Servers, NEW p \in DOMAIN Predefined, UpdatePredefined(s, p)
  PROVE  /\ ServerKeeps
         /\ server[s].at = "clients" /\ p \in server[s].present
         /\ server' = [server EXCEPT ![s].present = @ \ {p}]
         /\ UNCHANGED <<req, failed>>
         /\ (\E c \in my.clients : c.id = p) => ServedIn(my', p)
<1>1. /\ my' = MySQL!updateClient(my, Configure(p)).store /\ UNCHANGED <<nextId, expired, req, failed>>
      /\ server[s].at = "clients" /\ p \in server[s].present
      /\ server' = [server EXCEPT ![s].present = @ \ {p}]
  BY DEF UpdatePredefined, Call, Configure
<1> PICK n \in Names \cup {None}, g \in BOOLEAN \cup {None} :
      n = Predefined[p].name /\ g = Predefined[p].canGrant
  BY RowAssumption
<1>2. my \in Stores /\ p \in Ids /\ n # None /\ g # None
  BY RowAssumption DEF TypeInv, Ids
<1>3. my' = [my EXCEPT !.clients = {Updated(c, p, n, g) : c \in @}]
  BY <1>1 DEF MySQL!updateClient, MySQL!Result, Updated, Configure
<1>4. /\ my' \in Stores /\ SameOwners /\ SameGrants /\ my'.scopes = my.scopes
      /\ my'.clients = {Updated(c, p, n, g) : c \in my.clients}
      /\ \A c \in my.clients : Updated(c, p, n, g).id = c.id
      /\ \A c \in my.clients : c.id # p => c \in my'.clients
      /\ {c.id : c \in my'.clients} = {c.id : c \in my.clients}
  BY <1>2, <1>3, UpdateKeeps, ZenonT(60)
<1>5. ASSUME NEW c \in my.clients, c.id = p PROVE ServedIn(my', p)
  <2>1. c \in ClientRows
    BY <1>2 DEF Stores
  <2>2. Updated(c, p, n, g).name = n /\ Updated(c, p, n, g).canGrant = g
    BY <1>2, <1>5, <2>1 DEF Updated, MySQL!Coalesce, ClientRows
  <2> QED
    BY <1>4, <1>5, <2>2 DEF ServedIn
<1>6. ASSUME NEW o \in DOMAIN Predefined, ServedIn(my, o) PROVE ServedIn(my', o)
  BY <1>4, <1>5, <1>6 DEF ServedIn
<1>7. ServerKeeps
  BY <1>1, <1>4, <1>6 DEF ServerKeeps
<1> QED
  BY <1>1, <1>5, <1>7

LEMMA RegisteringScope ==
  ASSUME TypeInv, NEW s \in Servers, NEW c \in ScopesConfig, RegisterScope(s, c)
  PROVE  /\ ServerKeeps
         /\ server[s].at = "scopes" /\ c \in server[s].absent
         /\ \/ Exit(s)
            \/ /\ server' = [server EXCEPT ![s].absent = @ \ {c}]
               /\ UNCHANGED <<req, failed>>
               /\ c \in my'.scopes
<1> DEFINE m == MySQL!registerScope(my, c)
<1>1. /\ my' = m.store /\ UNCHANGED <<nextId, expired>>
      /\ server[s].at = "scopes" /\ c \in server[s].absent
      /\ Registered(s, c, m)
  BY DEF RegisterScope, Call
<1>2. my \in Stores
  BY DEF TypeInv
<1>3. CASE c \in my.scopes
  <2>1. my' = my
    BY <1>1, <1>3 DEF MySQL!registerScope, MySQL!Result
  <2>2. \/ Exit(s)
        \/ /\ server' = [server EXCEPT ![s].absent = @ \ {c}]
           /\ UNCHANGED <<req, failed>>
    BY <1>1 DEF Registered
  <2> QED
    BY <1>1, <1>3, <2>1, <2>2, SameKeep
<1>4. CASE c \notin my.scopes
  <2>1. my' = [my EXCEPT !.scopes = @ \cup {c}]
    BY <1>1, <1>4 DEF MySQL!registerScope, MySQL!Result
  <2>2. \/ Exit(s)
        \/ /\ server' = [server EXCEPT ![s].absent = @ \ {c}]
           /\ UNCHANGED <<req, failed>>
    BY <1>1 DEF Registered
  <2>3. /\ my' \in Stores /\ SameOwners /\ SameGrants /\ my'.clients = my.clients
        /\ my'.scopes = my.scopes \cup {c}
    BY ONLY <1>2, <2>1, c \in ScopesConfig DEF Stores, SameOwners, SameGrants
  <2>4. ServerKeeps
    BY <1>1, <2>3 DEF ServerKeeps, ServedIn
  <2> QED
    BY <1>1, <2>2, <2>3, <2>4
<1> QED
  BY <1>3, <1>4

\* What is known while a server starts: a predefined client that is neither to
\* be looked up nor to be written is served, and one that was found is there.
ServesWell(s, v, store) ==
  /\ v.at = "clients" /\ s \in Updaters => \A p \in DOMAIN Predefined :
       p \in v.toLookUp \cup v.absent \cup v.present \/ ServedIn(store, p)
  /\ v.at = "clients" /\ s \notin Updaters => v.toLookUp \cup v.absent \cup v.present = {}
  /\ v.at = "clients" => \A p \in DOMAIN Predefined :
       p \in v.present => \E c \in store.clients : c.id = p
  /\ v.at \in {"scopes", "listening"} /\ s \in Updaters =>
       \A p \in DOMAIN Predefined : ServedIn(store, p)
  /\ v.at = "scopes" => ScopesConfig \subseteq v.toLookUp \cup v.absent \cup store.scopes
  /\ v.at = "listening" => ScopesConfig \subseteq store.scopes

KeepsServed ==
  /\ my.scopes \subseteq my'.scopes
  /\ \A p \in DOMAIN Predefined :
       /\ ServedIn(my, p) => ServedIn(my', p)
       /\ (\E c \in my.clients : c.id = p) => \E c \in my'.clients : c.id = p

LEMMA StillServesWell ==
  ASSUME KeepsServed, NEW s, NEW v \in ServerStates, ServesWell(s, v, my)
  PROVE  ServesWell(s, v, my')
<1>1. v.at = "clients" /\ s \in Updaters => \A p \in DOMAIN Predefined :
        p \in v.toLookUp \cup v.absent \cup v.present \/ ServedIn(my', p)
  BY DEF KeepsServed, ServesWell
<1>2. v.at = "clients" => \A p \in DOMAIN Predefined :
        p \in v.present => \E c \in my'.clients : c.id = p
  BY DEF KeepsServed, ServesWell
<1>3. v.at \in {"scopes", "listening"} /\ s \in Updaters =>
        \A p \in DOMAIN Predefined : ServedIn(my', p)
  BY DEF KeepsServed, ServesWell
<1>4. /\ v.at = "scopes" => ScopesConfig \subseteq v.toLookUp \cup v.absent \cup my'.scopes
      /\ v.at = "listening" => ScopesConfig \subseteq my'.scopes
  BY DEF KeepsServed, ServesWell
<1> QED
  BY <1>1, <1>2, <1>3, <1>4 DEF ServesWell

LEMMA OneServer ==
  ASSUME TypeInv, NEW s \in Servers
  PROVE  \A x \in ServerStates : server' = [server EXCEPT ![s] = x] =>
           /\ server' \in [Servers -> ServerStates] /\ server'[s] = x
           /\ \A o \in Servers \ {s} : server'[o] = server[o]
BY DEF TypeInv

ServerReads(s) ==
  \/ StartServer(s) \/ ClientsLoaded(s) \/ Listen(s)
  \/ \E p \in DOMAIN Predefined : LookUpClient(s, p)
  \/ \E c \in ScopesConfig : LookUpScope(s, c)

LEMMA Starting ==
  ASSUME TypeInv, NEW s \in Servers, ServerReads(s)
  PROVE  /\ UNCHANGED <<my, nextId, expired, req, failed>>
         /\ server' \in [Servers -> ServerStates]
         /\ \A o \in Servers \ {s} : server'[o] = server[o]
         /\ ServesWell(s, server[s], my) => ServesWell(s, server'[s], my')
<1> DEFINE v == server[s]
<1>0. v \in ServerStates /\ server \in [Servers -> ServerStates]
  BY DEF TypeInv
<1>1. CASE StartServer(s)
  <2> DEFINE x == [Down EXCEPT !.at = "clients",
                             !.toLookUp = IF s \in Updaters THEN DOMAIN Predefined ELSE {}]
  <2>1. UNCHANGED <<my, nextId, expired, req, failed>> /\ server' = [server EXCEPT ![s] = x]
    BY <1>1 DEF StartServer
  <2>2. x \in ServerStates /\ ServesWell(s, x, my)
    BY DEF Down, ServerStates, Configured, ServesWell
  <2> HIDE DEF x
  <2> QED
    BY <2>1, <2>2, OneServer
<1>2. CASE ClientsLoaded(s)
  <2> DEFINE x == [v EXCEPT !.at = "scopes", !.toLookUp = ScopesConfig]
  <2>1. /\ UNCHANGED <<my, nextId, expired, req, failed>> /\ server' = [server EXCEPT ![s] = x]
        /\ v.at = "clients" /\ v.toLookUp = {} /\ v.absent = {} /\ v.present = {}
    BY <1>0, <1>2 DEF ClientsLoaded, Loaded
  <2>2. x \in ServerStates /\ (ServesWell(s, v, my) => ServesWell(s, x, my))
    BY <1>0, <2>1 DEF ServerStates, Configured, ServesWell
  <2> HIDE DEF x
  <2> QED
    BY <2>1, <2>2, OneServer
<1>3. CASE Listen(s)
  <2> DEFINE x == [v EXCEPT !.at = "listening"]
  <2>1. /\ UNCHANGED <<my, nextId, expired, req, failed>> /\ server' = [server EXCEPT ![s] = x]
        /\ v.at = "scopes" /\ v.toLookUp = {} /\ v.absent = {} /\ v.present = {}
    BY <1>0, <1>3 DEF Listen, Loaded
  <2>2. x \in ServerStates /\ (ServesWell(s, v, my) => ServesWell(s, x, my))
    BY <1>0, <2>1 DEF ServerStates, ServesWell
  <2> HIDE DEF x
  <2> QED
    BY <2>1, <2>2, OneServer
<1>4. ASSUME NEW p \in DOMAIN Predefined, LookUpClient(s, p)
      PROVE  /\ UNCHANGED <<my, nextId, expired, req, failed>>
             /\ server' \in [Servers -> ServerStates]
             /\ \A o \in Servers \ {s} : server'[o] = server[o]
             /\ ServesWell(s, server[s], my) => ServesWell(s, server'[s], my')
  <2> DEFINE found == MySQL!getClient(my, p)
             x == [v EXCEPT !.toLookUp = @ \ {p},
                            !.absent = IF found = None THEN @ \cup {p} ELSE @,
                            !.present = IF found = None THEN @ ELSE @ \cup {p}]
  <2>1. /\ UNCHANGED <<my, nextId, expired, req, failed>> /\ server' = [server EXCEPT ![s] = x]
        /\ v.at = "clients" /\ p \in v.toLookUp
    BY <1>0, <1>4 DEF LookUpClient, Learn, Call, MySQL!Result
  <2>2. found # None => \E c \in my.clients : c.id = p
    BY FoundIsThere
  <2> HIDE DEF found
  <2>3. x \in ServerStates
    BY <1>0 DEF ServerStates, Configured
  <2>4. ServesWell(s, v, my) => ServesWell(s, x, my)
    BY <1>0, <2>1, <2>2 DEF ServerStates, ServesWell
  <2> HIDE DEF x
  <2> QED
    BY <2>1, <2>3, <2>4, OneServer
<1>5. ASSUME NEW c \in ScopesConfig, LookUpScope(s, c)
      PROVE  /\ UNCHANGED <<my, nextId, expired, req, failed>>
             /\ server' \in [Servers -> ServerStates]
             /\ \A o \in Servers \ {s} : server'[o] = server[o]
             /\ ServesWell(s, server[s], my) => ServesWell(s, server'[s], my')
  <2> DEFINE found == MySQL!getScope(my, c).answer
             x == [v EXCEPT !.toLookUp = @ \ {c},
                            !.absent = IF found = None THEN @ \cup {c} ELSE @]
  <2>1. /\ UNCHANGED <<my, nextId, expired, req, failed>> /\ server' = [server EXCEPT ![s] = x]
        /\ v.at = "scopes"
    BY <1>0, <1>5 DEF LookUpScope, Call, MySQL!getScope, MySQL!Result
  <2>2. found # None => c \in my.scopes
    BY DEF MySQL!getScope, MySQL!Result
  <2> HIDE DEF found
  <2>3. x \in ServerStates
    BY <1>0 DEF ServerStates, Configured
  <2>4. ServesWell(s, v, my) => ServesWell(s, x, my)
    BY <1>0, <2>1, <2>2 DEF ServerStates, ServesWell
  <2> HIDE DEF x
  <2> QED
    BY <2>1, <2>3, <2>4, OneServer
<1> QED
  BY <1>1, <1>2, <1>3, <1>4, <1>5 DEF ServerReads

\* What a server that changes the clients has found.
Writes(v) == v.at = "clients" /\ v.absent \cup v.present # {}

LEMMA ServerSteps ==
  ASSUME TypeInv, NEW s \in Servers, ServerStep(s)
  PROVE  /\ ServerKeeps
         /\ \A c \in my.clients : c \in my'.clients \/ Writes(server[s])
         /\ server' \in [Servers -> ServerStates]
         /\ \A o \in Servers \ {s} : server'[o] = server[o]
         /\ ServesWell(s, server[s], my) => ServesWell(s, server'[s], my')
         /\ req' \in [Requests -> ReqRecords]
         /\ \A q \in Requests : Requested(req'[q], Drawn')
         /\ failed' \in BOOLEAN /\ (failed => failed')
         /\ \A q \in Requests : req'[q] = req[q] \/ (req'[q] = NoRequest /\ failed' = TRUE)
<1> DEFINE Kept == /\ req' \in [Requests -> ReqRecords]
                   /\ \A q \in Requests : Requested(req'[q], Drawn')
                   /\ failed' \in BOOLEAN /\ (failed => failed')
                   /\ \A q \in Requests :
                        req'[q] = req[q] \/ (req'[q] = NoRequest /\ failed' = TRUE)
           Goes == /\ server' \in [Servers -> ServerStates]
                   /\ \A o \in Servers \ {s} : server'[o] = server[o]
                   /\ ServesWell(s, server[s], my) => ServesWell(s, server'[s], my')
           Rows == \A c \in my.clients : c \in my'.clients \/ Writes(server[s])
<1>0. server[s] \in ServerStates /\ server \in [Servers -> ServerStates] /\ failed \in BOOLEAN
  BY DEF TypeInv
<1>1. ServerKeeps => nextId' = nextId /\ KeepsServed
  <2> SUFFICES ASSUME ServerKeeps PROVE nextId' = nextId /\ KeepsServed
    OBVIOUS
  <2>1. ASSUME NEW p \in DOMAIN Predefined, NEW c \in my.clients, c.id = p
        PROVE  \E d \in my'.clients : d.id = p
    <3>1. c.id \in {d.id : d \in my'.clients}
      BY DEF ServerKeeps
    <3> QED
      BY <2>1, <3>1
  <2> QED
    BY <2>1 DEF ServerKeeps, KeepsServed
<1>2. ServerKeeps /\ Exit(s) => Kept /\ Goes
  <2> SUFFICES ASSUME ServerKeeps, Exit(s) PROVE Kept /\ Goes
    OBVIOUS
  <2>1. ServesWell(s, Down, my')
    BY DownTyped DEF ServesWell
  <2> QED
    BY <1>1, <2>1, Exiting
<1>3. ServerKeeps /\ UNCHANGED <<req, failed>> => Kept
  <2> SUFFICES ASSUME ServerKeeps, UNCHANGED <<req, failed>> PROVE Kept
    OBVIOUS
  <2>1. Drawn' = Drawn
    BY <1>1 DEF Drawn
  <2> QED
    BY <1>0, <2>1 DEF TypeInv
<1>4. CASE ServerReads(s)
  <2>1. /\ UNCHANGED <<my, nextId, expired, req, failed>> /\ Goes
    BY <1>4, Starting
  <2> HIDE DEF Kept, Goes
  <2>2. ServerKeeps /\ Rows
    BY <2>1, SameKeep
  <2>3. Kept
    BY <1>3, <2>1, <2>2
  <2> QED
    BY <2>1, <2>2, <2>3 DEF Kept, Goes
<1>5. CASE Stop(s)
  <2>1. UNCHANGED <<my, nextId, expired>> /\ Exit(s)
    BY <1>5 DEF Stop
  <2>2. ServerKeeps /\ Rows
    BY <2>1, SameKeep
  <2> QED
    BY <1>2, <2>1, <2>2
<1>6. ASSUME NEW p \in DOMAIN Predefined, RegisterPredefined(s, p)
      PROVE  ServerKeeps /\ Kept /\ Goes /\ Rows
  <2>1. /\ ServerKeeps /\ server[s].at = "clients" /\ Rows
        /\ \/ Exit(s)
           \/ /\ server' = [server EXCEPT ![s].absent = @ \ {p}]
              /\ UNCHANGED <<req, failed>>
              /\ ServedIn(my', p)
    BY <1>6, RegisteringPredefined DEF Writes
  <2>2. CASE /\ server' = [server EXCEPT ![s].absent = @ \ {p}]
             /\ UNCHANGED <<req, failed>> /\ ServedIn(my', p)
    <3> DEFINE x == [server[s] EXCEPT !.absent = @ \ {p}]
    <3>1. x \in ServerStates /\ server' = [server EXCEPT ![s] = x]
      BY <1>0, <2>2 DEF ServerStates
    <3>2. ServesWell(s, server[s], my')  => ServesWell(s, x, my')
      BY <1>0, <2>1, <2>2 DEF ServesWell, ServerStates
    <3> HIDE DEF x
    <3>3. ServesWell(s, server[s], my)  => ServesWell(s, server[s], my')
      BY <1>0, <1>1, <2>1, StillServesWell
    <3>4. Goes
      BY <3>1, <3>2, <3>3, OneServer
    <3> QED
      BY <1>3, <2>1, <2>2, <3>4
  <2> QED
    BY <1>2, <2>1, <2>2
<1>7. ASSUME NEW p \in DOMAIN Predefined, UpdatePredefined(s, p)
      PROVE  ServerKeeps /\ Kept /\ Goes /\ Rows
  <2>1. /\ ServerKeeps /\ server[s].at = "clients" /\ p \in server[s].present /\ Rows
        /\ server' = [server EXCEPT ![s].present = @ \ {p}]
        /\ UNCHANGED <<req, failed>>
        /\ (\E c \in my.clients : c.id = p) => ServedIn(my', p)
    BY <1>7, UpdatingPredefined DEF Writes
  <2> DEFINE x == [server[s] EXCEPT !.present = @ \ {p}]
  <2>2. x \in ServerStates /\ server' = [server EXCEPT ![s] = x]
    BY <1>0, <2>1 DEF ServerStates
  <2>3. ServesWell(s, server[s], my) => ServedIn(my', p)
    BY <2>1 DEF ServesWell
  <2>4. ServesWell(s, server[s], my') /\ ServedIn(my', p) => ServesWell(s, x, my')
    BY <1>0, <2>1 DEF ServesWell, ServerStates
  <2> HIDE DEF x
  <2>5. ServesWell(s, server[s], my)  => ServesWell(s, server[s], my')
    BY <1>0, <1>1, <2>1, StillServesWell
  <2>6. Goes
    BY <2>2, <2>3, <2>4, <2>5, OneServer
  <2> QED
    BY <1>3, <2>1, <2>6
<1>8. ASSUME NEW c \in ScopesConfig, RegisterScope(s, c)
      PROVE  ServerKeeps /\ Kept /\ Goes /\ Rows
  <2>1. /\ ServerKeeps /\ server[s].at = "scopes"
        /\ \/ Exit(s)
           \/ /\ server' = [server EXCEPT ![s].absent = @ \ {c}]
              /\ UNCHANGED <<req, failed>>
              /\ c \in my'.scopes
    BY <1>8, RegisteringScope
  <2>9. Rows
    BY <1>8 DEF RegisterScope, Call, MySQL!registerScope, MySQL!Result, TypeInv, Stores
  <2>2. CASE /\ server' = [server EXCEPT ![s].absent = @ \ {c}]
             /\ UNCHANGED <<req, failed>> /\ c \in my'.scopes
    <3> DEFINE x == [server[s] EXCEPT !.absent = @ \ {c}]
    <3>1. x \in ServerStates /\ server' = [server EXCEPT ![s] = x]
      BY <1>0, <2>2 DEF ServerStates
    <3>2. ServesWell(s, server[s], my')  => ServesWell(s, x, my')
      BY <1>0, <2>1, <2>2 DEF ServesWell, ServerStates
    <3> HIDE DEF x
    <3>3. ServesWell(s, server[s], my)  => ServesWell(s, server[s], my')
      BY <1>0, <1>1, <2>1, StillServesWell
    <3>4. Goes
      BY <3>1, <3>2, <3>3, OneServer
    <3> QED
      BY <1>3, <2>1, <2>2, <2>9, <3>4
  <2> QED
    BY <1>2, <2>1, <2>2, <2>9
<1> QED
  <2> HIDE DEF Kept, Goes, Rows
  <2>1. ServerKeeps /\ Kept /\ Goes /\ Rows
    BY <1>4, <1>5, <1>6, <1>7, <1>8 DEF ServerStep, ServerReads, Kept, Goes, Rows
  <2> QED
    BY <2>1 DEF Kept, Goes, Rows

-----------------------------------------------------------------------------
(* Types are kept.                                                         *)

LEMMA DrawnGrow ==
  ASSUME TypeInv, nextId' \in {nextId, nextId + 1}
  PROVE  Drawn \subseteq Drawn' /\ (nextId' = nextId => Drawn' = Drawn)
<1>1. nextId \in 1..(MaxId + 1) /\ MaxId \in Nat
  BY ClientsAssumption DEF TypeInv
<1>2. CASE nextId' = nextId
  BY <1>2 DEF Drawn
<1>3. CASE nextId' = nextId + 1
  BY <1>1, <1>3 DEF Drawn
<1> QED
  BY <1>2, <1>3

\* Grants that stay, and owners of drawn clients.
LEMMA IdsStayDrawn ==
  ASSUME TypeInv, SameGrants, Drawn \subseteq Drawn',
         \A c \in my'.clients : c.id \in DOMAIN Predefined \cup Drawn',
         \A row \in my'.clientDevelopers : row.client \in Drawn'
  PROVE  IdsDrawn'
<1>1. ASSUME NEW t \in MySQL!Grants, NEW g \in my'[t] PROVE g.id \in Drawn'
  BY DEF TypeInv, IdsDrawn, SameGrants, MySQL!Grants
<1> QED
  BY <1>1 DEF IdsDrawn, MySQL!Grants

LEMMA RequestTyped ==
  ASSUME TypeInv, NEW r \in Requests, RequestStep(r)
  PROVE  TypeInv'
<1>0. /\ my \in Stores /\ server \in [Servers -> ServerStates] /\ nextId \in 1..(MaxId + 1)
      /\ expired \subseteq 1..MaxId /\ failed \in BOOLEAN
      /\ \A c \in my.clients : c.id \in DOMAIN Predefined \cup Drawn
      /\ \A row \in my.clientDevelopers : row.client \in Drawn
  BY DEF TypeInv, IdsDrawn
<1>1. CASE Reads(r)
  <2>1. /\ UNCHANGED <<my, nextId, expired, server>> /\ failed' \in BOOLEAN
        /\ req' \in [Requests -> ReqRecords]
        /\ \A q \in Requests : Requested(req'[q], Drawn')
    BY <1>1, Reading
  <2>2. IdsDrawn'
    BY <2>1 DEF TypeInv, IdsDrawn, Drawn
  <2> QED
    BY <1>0, <2>1, <2>2 DEF TypeInv
<1>2. CASE ActivateDeveloper(r)
  <2>1. /\ my' \in Stores /\ OnlyDevelopers /\ SameGrants /\ Same /\ Fresh /\ Return(r)
    BY <1>2, Activating
  <2>2. /\ req' \in [Requests -> ReqRecords] /\ \A q \in Requests : Requested(req'[q], Drawn')
    BY <2>1, FreshIsNew, Returned
  <2>3. IdsDrawn'
    BY <1>0, <2>1, FreshIsNew, IdsStayDrawn DEF OnlyDevelopers
  <2> QED
    BY <1>0, <2>1, <2>2, <2>3, FreshIsNew DEF TypeInv, Same
<1>3. CASE RegisterClient(r)
  <2>1. /\ my' \in Stores /\ SameOwners /\ SameGrants /\ Same /\ Fresh
        /\ \E c \in ClientRows : c.id = nextId /\ my'.clients = my.clients \cup {c}
        /\ req' \in [Requests -> ReqRecords]
        /\ \A q \in Requests : Requested(req'[q], Drawn')
    BY <1>3, Registering
  <2>2. IdsDrawn'
    BY <1>0, <2>1, FreshIsNew, IdsStayDrawn DEF SameOwners
  <2> QED
    BY <1>0, <2>1, <2>2, FreshIsNew DEF TypeInv, Same
<1>4. CASE RegisterClientDeveloper(r)
  <2>1. /\ my' \in Stores /\ SameGrants /\ Same /\ my'.clients = my.clients
        /\ \E o \in OwnerRows : /\ o.client = req[r].id
                                /\ my'.clientDevelopers = my.clientDevelopers \cup {o}
        /\ Fresh /\ Return(r) /\ req[r].id \in Drawn
    BY <1>4, RegisteringDeveloper
  <2>2. /\ req' \in [Requests -> ReqRecords] /\ \A q \in Requests : Requested(req'[q], Drawn')
    BY <2>1, FreshIsNew, Returned
  <2>3. IdsDrawn'
    BY <1>0, <2>1, FreshIsNew, IdsStayDrawn
  <2> QED
    BY <1>0, <2>1, <2>2, <2>3, FreshIsNew DEF TypeInv, Same
<1>5. CASE UpdateClient(r)
  <2>1. /\ Return(r) /\ Same /\ nextId' = nextId
        /\ my' \in Stores /\ SameOwners /\ SameGrants
        /\ {c.id : c \in my'.clients} = {c.id : c \in my.clients}
    BY <1>5, Updating
  <2>2. Drawn' = Drawn
    BY <2>1 DEF Drawn
  <2>3. /\ req' \in [Requests -> ReqRecords] /\ \A q \in Requests : Requested(req'[q], Drawn')
    BY <2>1, <2>2, Returned
  <2>4. \A c \in my'.clients : c.id \in DOMAIN Predefined \cup Drawn'
    BY <1>0, <2>1, <2>2
  <2>5. IdsDrawn'
    BY <1>0, <2>1, <2>2, <2>4, IdsStayDrawn DEF SameOwners
  <2> QED
    BY <1>0, <2>1, <2>3, <2>5 DEF TypeInv, Same
<1>6. CASE RemoveClient(r)
  <2>1. /\ Return(r) /\ Same /\ nextId' = nextId /\ my' \in Stores
        /\ my'.clients = {c \in my.clients : c.id # req[r].id}
        /\ my'.clientDevelopers \subseteq my.clientDevelopers
        /\ \A t \in MySQL!Grants : my'[t] \subseteq my[t]
    BY <1>6, Removing
  <2>2. Drawn' = Drawn
    BY <2>1 DEF Drawn
  <2>3. /\ req' \in [Requests -> ReqRecords] /\ \A q \in Requests : Requested(req'[q], Drawn')
    BY <2>1, <2>2, Returned
  <2>4. IdsDrawn'
    BY <2>1, <2>2 DEF TypeInv, IdsDrawn, MySQL!Grants
  <2> QED
    BY <1>0, <2>1, <2>3, <2>4 DEF TypeInv, Same
<1> QED
  BY <1>1, <1>2, <1>3, <1>4, <1>5, <1>6 DEF RequestStep, Reads

LEMMA ServerTyped ==
  ASSUME TypeInv, NEW s \in Servers, ServerStep(s)
  PROVE  TypeInv'
<1>1. /\ ServerKeeps
      /\ server' \in [Servers -> ServerStates]
      /\ req' \in [Requests -> ReqRecords]
      /\ \A q \in Requests : Requested(req'[q], Drawn')
      /\ failed' \in BOOLEAN
  BY ServerSteps
<1>2. my' \in Stores /\ SameOwners /\ SameGrants /\ UNCHANGED <<nextId, expired>>
  BY <1>1 DEF ServerKeeps
<1>3. Drawn' = Drawn
  BY <1>2 DEF Drawn
<1>4. ASSUME NEW c \in my'.clients PROVE c.id \in DOMAIN Predefined \cup Drawn'
  <2>1. c.id \in {o.id : o \in my.clients} \cup DOMAIN Predefined
    BY <1>1 DEF ServerKeeps
  <2> QED
    BY <1>3, <2>1 DEF TypeInv, IdsDrawn
<1>5. \A row \in my'.clientDevelopers : row.client \in Drawn'
  BY <1>2, <1>3 DEF TypeInv, IdsDrawn, SameOwners
<1>6. IdsDrawn'
  BY <1>2, <1>3, <1>4, <1>5, IdsStayDrawn
<1> QED
  BY <1>1, <1>2, <1>6 DEF TypeInv

LEMMA StepTyped ==
  ASSUME TypeInv, [Next]_vars
  PROVE  TypeInv'
<1>1. ASSUME NEW r \in Requests, RequestStep(r) PROVE TypeInv'
  BY <1>1, RequestTyped
<1>2. ASSUME NEW s \in Servers, ServerStep(s) PROVE TypeInv'
  BY <1>2, ServerTyped
<1>3. CASE GrantStep
  <2>1. /\ my' \in Stores /\ SameTables /\ UNCHANGED <<req, server, failed>>
        /\ nextId' \in {nextId, nextId + 1} /\ nextId' \in 1..(MaxId + 1)
        /\ expired' \subseteq 1..MaxId
        /\ \A t \in MySQL!Grants : \A g \in my'[t] : g.id \in 1..(nextId' - 1)
    BY <1>3, GrantSteps
  <2>2. Drawn \subseteq Drawn'
    BY <2>1, DrawnGrow
  <2>3. IdsDrawn'
    BY <2>1, <2>2 DEF TypeInv, IdsDrawn, SameTables, OnlyDevelopers, SameOwners, MySQL!Grants,
                      Drawn
  <2>4. \A d : \A q \in Requests : Requested(req[q], Drawn) /\ Drawn \subseteq d => Requested(req[q], d)
    BY DEF Requested
  <2>5. \A q \in Requests : Requested(req'[q], Drawn')
    BY <2>1, <2>2, <2>4 DEF TypeInv
  <2> QED
    BY <2>1, <2>3, <2>5 DEF TypeInv
<1>4. CASE UNCHANGED vars
  BY <1>4 DEF vars, TypeInv, IdsDrawn, Drawn
<1> QED
  BY <1>1, <1>2, <1>3, <1>4 DEF Next

\* The type invariant of OAuthClients: the ids of clients are configured or
\* were drawn, no grant has an id that is yet to be drawn, and a server that
\* starts looks for nothing but what it is configured with.
THEOREM ClientTypes == Spec => []TypeOK
<1>1. TypeInv => TypeOK
  BY ClientsAssumption
     DEF TypeInv, TypeOK, Stores, ClientRows, IdsDrawn, MySQL!Grants, GrantRows, Drawn
<1>2. Spec => []TypeInv
  BY InitTyped, StepTyped, PTL DEF Spec
<1> QED
  BY <1>1, <1>2, PTL

-----------------------------------------------------------------------------
(* Ownership.  A client that is registered has an owner or a registration  *)
(* that is about to give it one, and not both; a request that comes to a   *)
(* change was shown ownership, which lasts as long as the client.          *)

ClientIds == {c.id : c \in my.clients}

PendingIsThere ==
  \A r \in Requests : Pending(r) =>
    /\ req[r].id \in ClientIds
    /\ \A row \in my.clientDevelopers : row.client # req[r].id

PendingDiffer ==
  \A r, q \in Requests : Pending(r) /\ Pending(q) /\ r # q => req[r].id # req[q].id

RowsHaveClients == \A row \in my.clientDevelopers : row.client \in ClientIds

ChangesAreOwned ==
  \A r \in Requests : req[r].at = "change" =>
    /\ req[r].id \in Drawn
    /\ Owner(req[r].email, req[r].id) \/ req[r].id \notin ClientIds

NoneIsLost ==
  failed = FALSE => \A i \in ClientIds :
    \/ i \in DOMAIN Predefined
    \/ \E row \in my.clientDevelopers : row.client = i
    \/ \E r \in Requests : Pending(r) /\ req[r].id = i

OwnInv ==
  PendingIsThere /\ PendingDiffer /\ RowsHaveClients /\ ChangesAreOwned /\ NoneIsLost

\* What most steps do to ownership: nothing is taken, and a request that comes
\* to a change was shown that it may.
KeepsOwners ==
  /\ my'.clientDevelopers = my.clientDevelopers /\ my.developers \subseteq my'.developers
  /\ Drawn \subseteq Drawn'
  /\ ClientIds \subseteq ClientIds' /\ ClientIds' \subseteq ClientIds \cup DOMAIN Predefined
  /\ failed = TRUE => failed' = TRUE
  /\ \A q \in Requests :
       \/ req'[q] = req[q]
       \/ /\ req'[q].at # "registerClientDeveloper"
          /\ req[q].at = "registerClientDeveloper" => failed' = TRUE
          /\ req'[q].at = "change" =>
               req'[q].id \in MySQL!Owned(my', req'[q].email) /\ req'[q].id \in Drawn'

\* Ownership is a row of one table that names a row of another.
LEMMA OwnedMeans ==
  \A e, i : i \in MySQL!Owned(my, e) <=>
              \E row \in my.clientDevelopers : /\ row.client = i
                 /\ \E d \in my.developers : d.id = row.developer /\ d.email = e
BY DEF MySQL!Owned

LEMMA OwnersLast ==
  ASSUME my.clientDevelopers \subseteq my'.clientDevelopers,
         my.developers \subseteq my'.developers
  PROVE  \A e, i : i \in MySQL!Owned(my, e) => i \in MySQL!Owned(my', e)
BY DEF MySQL!Owned

LEMMA KeptOwners ==
  ASSUME TypeInv, OwnInv, KeepsOwners, failed' \in BOOLEAN
  PROVE  OwnInv'
<1>0. /\ \A q \in Requests : Pending(q)' => Pending(q) /\ req'[q] = req[q]
      /\ failed \in BOOLEAN
  BY DEF KeepsOwners, Pending, TypeInv
<1>1. PendingIsThere'
  BY <1>0 DEF OwnInv, PendingIsThere, KeepsOwners
<1>2. PendingDiffer'
  BY <1>0 DEF OwnInv, PendingDiffer
<1>3. RowsHaveClients'
  BY DEF OwnInv, RowsHaveClients, KeepsOwners
<1>4. ASSUME NEW r \in Requests, req'[r].at = "change"
      PROVE  /\ req'[r].id \in Drawn'
             /\ req'[r].id \in MySQL!Owned(my', req'[r].email) \/ req'[r].id \notin ClientIds'
  <2>1. CASE req'[r] = req[r]
    <3>1. /\ req[r].id \in Drawn
          /\ req[r].id \in MySQL!Owned(my, req[r].email) \/ req[r].id \notin ClientIds
      BY <1>4, <2>1 DEF OwnInv, ChangesAreOwned, Owner
    <3>2. Drawn \cap DOMAIN Predefined = {}
      BY ClientsAssumption DEF TypeInv, Drawn
    <3>3. \A e, i : i \in MySQL!Owned(my, e) => i \in MySQL!Owned(my', e)
      BY OwnersLast DEF KeepsOwners
    <3> QED
      BY <2>1, <3>1, <3>2, <3>3 DEF KeepsOwners
  <2>2. CASE req'[r] # req[r]
    BY <1>4, <2>2 DEF KeepsOwners
  <2> QED
    BY <2>1, <2>2
<1>5. ChangesAreOwned'
  BY <1>4 DEF ChangesAreOwned, Owner
<1>6. ASSUME failed' = FALSE PROVE \A q \in Requests : Pending(q) => req'[q] = req[q]
  BY <1>6 DEF KeepsOwners, Pending
<1>7. NoneIsLost'
  <2> SUFFICES ASSUME failed' = FALSE, NEW i \in ClientIds'
               PROVE  \/ i \in DOMAIN Predefined
                      \/ \E row \in my'.clientDevelopers : row.client = i
                      \/ \E r \in Requests : Pending(r)' /\ req'[r].id = i
    BY DEF NoneIsLost
  <2>1. failed = FALSE /\ (i \in ClientIds \/ i \in DOMAIN Predefined)
    BY <1>0 DEF KeepsOwners
  <2>2. \/ i \in DOMAIN Predefined
        \/ \E row \in my.clientDevelopers : row.client = i
        \/ \E r \in Requests : Pending(r) /\ req[r].id = i
    BY <2>1 DEF OwnInv, NoneIsLost
  <2> QED
    BY <1>6, <2>2 DEF KeepsOwners, Pending
<1> QED
  BY <1>1, <1>2, <1>3, <1>5, <1>7 DEF OwnInv

\* A client is registered: its id is that of no other.
LEMMA RegisteredIsPending ==
  ASSUME TypeInv, OwnInv, NEW r \in Requests, RegisterClient(r)
  PROVE  OwnInv'
<1>1. /\ SameOwners /\ Same /\ Fresh /\ ~Pending(r)
      /\ \E c \in ClientRows : c.id = nextId /\ my'.clients = my.clients \cup {c}
      /\ \A q \in Requests \ {r} : req'[q] = req[q]
      /\ req'[r].at = "registerClientDeveloper" /\ req'[r].id = nextId
  BY Registering
<1>2. ClientIds' = ClientIds \cup {nextId}
  BY <1>1 DEF ClientIds
<1>3. /\ nextId \notin Drawn /\ nextId \notin DOMAIN Predefined /\ Drawn \subseteq Drawn'
      /\ \A row \in my.clientDevelopers : row.client \in Drawn
      /\ \A q \in Requests : Pending(q) => req[q].id \in Drawn
  BY <1>1, FreshIsNew DEF TypeInv, IdsDrawn, Requested, Pending
<1>4. my'.clientDevelopers = my.clientDevelopers /\ my'.developers = my.developers
  BY <1>1 DEF SameOwners
<1>5. \A q \in Requests \ {r} : Pending(q)' <=> Pending(q)
  BY <1>1 DEF Pending
<1>6. PendingIsThere'
  BY <1>1, <1>2, <1>3, <1>4, <1>5 DEF OwnInv, PendingIsThere
<1>7. PendingDiffer'
  BY <1>1, <1>3, <1>5 DEF OwnInv, PendingDiffer
<1>8. RowsHaveClients'
  BY <1>2, <1>4 DEF OwnInv, RowsHaveClients
<1>9. ChangesAreOwned'
  <2>1. \A e, i : i \in MySQL!Owned(my, e) => i \in MySQL!Owned(my', e)
    BY <1>4, OwnersLast
  <2>2. ASSUME NEW q \in Requests, req'[q].at = "change"
        PROVE  /\ req'[q].id \in Drawn'
               /\ req'[q].id \in MySQL!Owned(my', req'[q].email) \/ req'[q].id \notin ClientIds'
    <3>1. q # r /\ req'[q] = req[q]
      BY <1>1, <2>2
    <3>2. /\ req[q].id \in Drawn
          /\ req[q].id \in MySQL!Owned(my, req[q].email) \/ req[q].id \notin ClientIds
      BY <2>2, <3>1 DEF OwnInv, ChangesAreOwned, Owner
    <3> QED
      BY <1>2, <1>3, <2>1, <3>1, <3>2
  <2> QED
    BY <2>2 DEF ChangesAreOwned, Owner
<1>10. NoneIsLost'
  <2>1. Pending(r)' /\ req'[r].id = nextId /\ failed' = failed
    BY <1>1 DEF Pending, Same
  <2> QED
    BY <1>1, <1>2, <1>4, <1>5, <2>1 DEF OwnInv, NoneIsLost
<1> QED
  BY <1>6, <1>7, <1>8, <1>9, <1>10 DEF OwnInv

\* A registered client gets its owner.
LEMMA PendingIsOwned ==
  ASSUME TypeInv, OwnInv, NEW r \in Requests, RegisterClientDeveloper(r)
  PROVE  OwnInv'
<1>1. /\ Same /\ UNCHANGED <<my.clients, my.developers>> /\ Fresh /\ Return(r) /\ Pending(r)
      /\ \E o \in OwnerRows : /\ o.client = req[r].id
                              /\ my'.clientDevelopers = my.clientDevelopers \cup {o}
  BY RegisteringDeveloper
<1>2. Drawn \subseteq Drawn'
  BY <1>1, FreshIsNew
<1>3. req'[r].at = "idle" /\ \A q \in Requests \ {r} : req'[q] = req[q]
  BY <1>1, <1>2, Returned
<1>4. ClientIds' = ClientIds /\ my.clientDevelopers \subseteq my'.clientDevelopers
  BY <1>1 DEF ClientIds
<1>5. \A q \in Requests : Pending(q)' => q # r /\ Pending(q) /\ req'[q] = req[q]
  BY <1>3 DEF Pending
<1>6. PendingIsThere'
  BY <1>1, <1>4, <1>5 DEF OwnInv, PendingIsThere, PendingDiffer
<1>7. PendingDiffer'
  BY <1>5 DEF OwnInv, PendingDiffer
<1>8. RowsHaveClients'
  BY <1>1, <1>4 DEF OwnInv, RowsHaveClients, PendingIsThere
<1>9. ChangesAreOwned'
  <2>1. \A e, i : i \in MySQL!Owned(my, e) => i \in MySQL!Owned(my', e)
    BY <1>1, <1>4, OwnersLast
  <2>2. ASSUME NEW q \in Requests, req'[q].at = "change"
        PROVE  /\ req'[q].id \in Drawn'
               /\ req'[q].id \in MySQL!Owned(my', req'[q].email) \/ req'[q].id \notin ClientIds'
    <3>1. q # r /\ req'[q] = req[q]
      BY <1>3, <2>2
    <3>2. /\ req[q].id \in Drawn
          /\ req[q].id \in MySQL!Owned(my, req[q].email) \/ req[q].id \notin ClientIds
      BY <2>2, <3>1 DEF OwnInv, ChangesAreOwned, Owner
    <3> QED
      BY <1>2, <1>4, <2>1, <3>1, <3>2
  <2> QED
    BY <2>2 DEF ChangesAreOwned, Owner
<1>10. NoneIsLost'
  <2> SUFFICES ASSUME failed' = FALSE, NEW i \in ClientIds'
               PROVE  \/ i \in DOMAIN Predefined
                      \/ \E row \in my'.clientDevelopers : row.client = i
                      \/ \E q \in Requests : Pending(q)' /\ req'[q].id = i
    BY DEF NoneIsLost
  <2>1. \/ i \in DOMAIN Predefined
        \/ \E row \in my.clientDevelopers : row.client = i
        \/ \E q \in Requests : Pending(q) /\ req[q].id = i
    BY <1>1, <1>4 DEF OwnInv, NoneIsLost, Same
  <2>2. ASSUME NEW q \in Requests, Pending(q), req[q].id = i
        PROVE  \/ \E row \in my'.clientDevelopers : row.client = i
               \/ Pending(q)' /\ req'[q].id = i
    BY <1>1, <1>3, <2>2 DEF Pending
  <2> QED
    BY <1>4, <2>1, <2>2
<1> QED
  BY <1>6, <1>7, <1>8, <1>9, <1>10 DEF OwnInv

\* A client is deleted, with the rows that name it.  It was not pending: the
\* request was shown a row that names it.
LEMMA RemovedHasOwner ==
  ASSUME TypeInv, OwnInv, NEW r \in Requests, RemoveClient(r)
  PROVE  OwnInv'
<1>1. /\ req[r].at = "change" /\ Return(r) /\ Same /\ nextId' = nextId
      /\ my'.developers = my.developers
      /\ my'.clients = {c \in my.clients : c.id # req[r].id}
      /\ \/ my' = my /\ \A c \in my.clients : c.id # req[r].id
         \/ my'.clientDevelopers = {o \in my.clientDevelopers : o.client # req[r].id}
  BY Removing
<1>2. Drawn' = Drawn
  BY <1>1 DEF Drawn
<1>3. req'[r].at = "idle" /\ \A q \in Requests \ {r} : req'[q] = req[q]
  BY <1>1, <1>2, Returned
<1>4. /\ \A i : i \in ClientIds' <=> i \in ClientIds /\ i # req[r].id
      /\ my'.clientDevelopers \subseteq my.clientDevelopers
  BY <1>1 DEF ClientIds
<1>5. \A row \in my.clientDevelopers : row \in my'.clientDevelopers <=> row.client # req[r].id
  BY <1>1 DEF OwnInv, RowsHaveClients, ClientIds
<1>6. \A q \in Requests : Pending(q)' <=> Pending(q)
  BY <1>1, <1>3 DEF Pending
<1>7. ASSUME NEW q \in Requests, Pending(q) PROVE req[q].id # req[r].id /\ req'[q] = req[q]
  <2>1. /\ req[r].id \in MySQL!Owned(my, req[r].email) \/ req[r].id \notin ClientIds
    BY <1>1 DEF OwnInv, ChangesAreOwned, Owner
  <2>2. req[q].id \in ClientIds /\ \A row \in my.clientDevelopers : row.client # req[q].id
    BY <1>7 DEF OwnInv, PendingIsThere
  <2> QED
    BY <1>1, <1>3, <1>7, <2>1, <2>2, OwnedMeans DEF Pending
<1>8. PendingIsThere'
  BY <1>4, <1>6, <1>7 DEF OwnInv, PendingIsThere
<1>9. PendingDiffer'
  BY <1>6, <1>7 DEF OwnInv, PendingDiffer
<1>10. RowsHaveClients'
  BY <1>4, <1>5 DEF OwnInv, RowsHaveClients
<1>11. ChangesAreOwned'
  <2>1. ASSUME NEW e, NEW i, i # req[r].id, i \in MySQL!Owned(my, e)
        PROVE  i \in MySQL!Owned(my', e)
    <3> PICK row \in my.clientDevelopers : /\ row.client = i
               /\ \E d \in my.developers : d.id = row.developer /\ d.email = e
      BY <2>1, OwnedMeans
    <3>1. row \in my'.clientDevelopers
      BY <1>5, <2>1
    <3> QED
      BY <1>1, <3>1 DEF MySQL!Owned
  <2>2. ASSUME NEW q \in Requests, req'[q].at = "change"
        PROVE  /\ req'[q].id \in Drawn'
               /\ req'[q].id \in MySQL!Owned(my', req'[q].email) \/ req'[q].id \notin ClientIds'
    <3>1. q # r /\ req'[q] = req[q]
      BY <1>3, <2>2
    <3>2. /\ req[q].id \in Drawn
          /\ req[q].id \in MySQL!Owned(my, req[q].email) \/ req[q].id \notin ClientIds
      BY <2>2, <3>1 DEF OwnInv, ChangesAreOwned, Owner
    <3> QED
      BY <1>2, <1>4, <2>1, <3>1, <3>2
  <2> QED
    BY <2>2 DEF ChangesAreOwned, Owner
<1>12. NoneIsLost'
  <2> SUFFICES ASSUME failed' = FALSE, NEW i \in ClientIds'
               PROVE  \/ i \in DOMAIN Predefined
                      \/ \E row \in my'.clientDevelopers : row.client = i
                      \/ \E q \in Requests : Pending(q)' /\ req'[q].id = i
    BY DEF NoneIsLost
  <2>1. \/ i \in DOMAIN Predefined
        \/ \E row \in my.clientDevelopers : row.client = i
        \/ \E q \in Requests : Pending(q) /\ req[q].id = i
    BY <1>1, <1>4 DEF OwnInv, NoneIsLost, Same
  <2> QED
    BY <1>4, <1>5, <1>6, <1>7, <2>1
<1> QED
  BY <1>8, <1>9, <1>10, <1>11, <1>12 DEF OwnInv

LEMMA RequestKeepsOwn ==
  ASSUME TypeInv, OwnInv, NEW r \in Requests, RequestStep(r)
  PROVE  OwnInv'
<1>0. TypeInv' /\ failed' \in BOOLEAN
  BY RequestTyped DEF TypeInv
<1>1. CASE Reads(r)
  <2>1. /\ UNCHANGED <<my, nextId>> /\ (failed => failed')
        /\ \A q \in Requests \ {r} : req'[q] = req[q]
        /\ req[r].at = "registerClientDeveloper" => failed'
        /\ req'[r].at # "registerClientDeveloper"
        /\ req'[r].at = "change" =>
             req'[r].id \in MySQL!Owned(my, req'[r].email) /\ req'[r].id \in Drawn
    BY <1>1, Reading DEF Owner
  <2>2. Drawn' = Drawn /\ ClientIds' = ClientIds
    BY <2>1 DEF Drawn, ClientIds
  <2>3. KeepsOwners
    BY <1>0, <2>1, <2>2 DEF KeepsOwners, TypeInv
  <2> QED
    BY <1>0, <2>3, KeptOwners
<1>2. CASE ActivateDeveloper(r)
  <2>1. /\ OnlyDevelopers /\ Same /\ my.developers \subseteq my'.developers
        /\ Fresh /\ Return(r) /\ ~Pending(r)
    BY <1>2, Activating
  <2>2. Drawn \subseteq Drawn' /\ ClientIds' = ClientIds
    BY <2>1, FreshIsNew DEF ClientIds, OnlyDevelopers
  <2>3. req'[r].at = "idle" /\ \A q \in Requests \ {r} : req'[q] = req[q]
    BY <2>1, <2>2, Returned
  <2>4. KeepsOwners
    BY <2>1, <2>2, <2>3 DEF KeepsOwners, OnlyDevelopers, Same, Pending
  <2> QED
    BY <1>0, <2>4, KeptOwners
<1>3. CASE UpdateClient(r)
  <2>1. /\ req[r].at = "change" /\ Return(r) /\ Same /\ nextId' = nextId /\ SameOwners
        /\ {c.id : c \in my'.clients} = {c.id : c \in my.clients}
    BY <1>3, Updating
  <2>2. Drawn' = Drawn /\ ClientIds' = ClientIds
    BY <2>1 DEF ClientIds, Drawn
  <2>3. req'[r].at = "idle" /\ \A q \in Requests \ {r} : req'[q] = req[q]
    BY <2>1, <2>2, Returned
  <2>4. KeepsOwners
    BY <2>1, <2>2, <2>3 DEF KeepsOwners, SameOwners, Same
  <2> QED
    BY <1>0, <2>4, KeptOwners
<1> QED
  BY <1>1, <1>2, <1>3, RegisteredIsPending, PendingIsOwned, RemovedHasOwner
     DEF RequestStep, Reads

LEMMA StepKeepsOwn ==
  ASSUME TypeInv, OwnInv, [Next]_vars
  PROVE  OwnInv'
<1>1. ASSUME NEW r \in Requests, RequestStep(r) PROVE OwnInv'
  BY <1>1, RequestKeepsOwn
<1>2. ASSUME NEW s \in Servers, ServerStep(s) PROVE OwnInv'
  <2>1. /\ ServerKeeps /\ failed' \in BOOLEAN /\ (failed => failed')
        /\ \A q \in Requests : req'[q] = req[q] \/ (req'[q] = NoRequest /\ failed' = TRUE)
    BY <1>2, ServerSteps
  <2>2. Drawn' = Drawn /\ SameOwners
    BY <2>1 DEF Drawn, ServerKeeps
  <2>3. ClientIds \subseteq ClientIds' /\ ClientIds' \subseteq ClientIds \cup DOMAIN Predefined
    BY <2>1 DEF ClientIds, ServerKeeps
  <2>4. KeepsOwners
    BY <2>1, <2>2, <2>3, NoRequestTyped DEF KeepsOwners, SameOwners
  <2> QED
    BY <2>1, <2>4, KeptOwners
<1>3. CASE GrantStep
  <2>1. SameTables /\ UNCHANGED <<req, failed>> /\ nextId' \in {nextId, nextId + 1}
    BY <1>3, GrantSteps
  <2>2. Drawn \subseteq Drawn' /\ ClientIds' = ClientIds
    BY <2>1, DrawnGrow DEF ClientIds, SameTables, OnlyDevelopers
  <2>3. KeepsOwners
    BY <2>1, <2>2 DEF KeepsOwners, SameTables, SameOwners
  <2> QED
    BY <2>1, <2>3, KeptOwners DEF TypeInv
<1>4. CASE UNCHANGED vars
  BY <1>4 DEF vars, OwnInv, PendingIsThere, PendingDiffer, RowsHaveClients, ChangesAreOwned,
              NoneIsLost, Pending, Owner, ClientIds, Drawn, MySQL!Owned
<1> QED
  BY <1>1, <1>2, <1>3, <1>4 DEF Next

LEMMA InitOwned == Init => OwnInv
<1> SUFFICES ASSUME Init PROVE OwnInv
  OBVIOUS
<1>1. PICK rows \in SUBSET Older : my = [MySQL!Empty EXCEPT !.clients = rows]
  BY DEF Init
<1>2. my.clients = rows /\ my.clientDevelopers = {}
  BY <1>1 DEF MySQL!Empty
<1>3. \A r \in Requests : req[r].at = "idle"
  BY NoRequestTyped DEF Init
<1>4. \A i \in ClientIds : i \in DOMAIN Predefined
  BY <1>2, RowAssumption DEF ClientIds
<1> QED
  BY <1>2, <1>3, <1>4 DEF OwnInv, PendingIsThere, PendingDiffer, RowsHaveClients,
                          ChangesAreOwned, NoneIsLost, Pending

\* While no statement fails, a client that is registered always has an owner,
\* or the request that gives it one is under way, and no row of
\* clientDevelopers outlives its client, whoever deletes clients meanwhile.
THEOREM ClientsHaveOwners == Spec => []ClientsAreOwned
<1>1. TypeInv /\ OwnInv => ClientsAreOwned
  <2> SUFFICES ASSUME TypeInv, OwnInv, failed = FALSE
               PROVE  /\ \A c \in my.clients :
                           \/ c.id \in DOMAIN Predefined
                           \/ \E row \in my.clientDevelopers : row.client = c.id
                           \/ \E r \in Requests :
                                req[r].at = "registerClientDeveloper" /\ req[r].id = c.id
                      /\ \A row \in my.clientDevelopers :
                           MySQL!getClient(my, row.client) # None
    BY DEF ClientsAreOwned, TypeInv
  <2>1. \A c \in my.clients : c.id \in ClientIds
    BY DEF ClientIds
  <2>2. \A row \in my.clientDevelopers : \E c \in my.clients : c.id = row.client
    BY DEF OwnInv, RowsHaveClients, ClientIds
  <2>3. \A row \in my.clientDevelopers : MySQL!getClient(my, row.client) # None
    BY <2>2, FoundIsThere
  <2> QED
    BY <2>1, <2>3 DEF OwnInv, NoneIsLost, Pending
<1>2. Spec => [](TypeInv /\ OwnInv)
  BY InitTyped, StepTyped, InitOwned, StepKeepsOwn, PTL DEF Spec
<1> QED
  BY <1>1, <1>2, PTL

-----------------------------------------------------------------------------
(* The configured clients and scopes.                                      *)

ServeInv == \A s \in Servers : ServesWell(s, server[s], my)

LEMMA StepServes ==
  ASSUME TypeInv, OwnInv, ServeInv, [Next]_vars
  PROVE  ServeInv'
<1>0. server \in [Servers -> ServerStates] /\ Drawn \cap DOMAIN Predefined = {}
  BY ClientsAssumption DEF TypeInv, Drawn
<1>1. ASSUME KeepsServed, server' = server PROVE ServeInv'
  BY <1>0, <1>1, StillServesWell DEF ServeInv
<1>2. ASSUME my.scopes \subseteq my'.scopes,
             \A c \in my.clients : c.id \in DOMAIN Predefined => c \in my'.clients
      PROVE  KeepsServed
  BY <1>2 DEF KeepsServed, ServedIn
<1>3. ASSUME NEW r \in Requests, RequestStep(r) PROVE ServeInv'
  <2>1. CASE Reads(r) \/ ActivateDeveloper(r) \/ RegisterClient(r) \/ RegisterClientDeveloper(r)
    <3>1. server' = server /\ my.scopes = my'.scopes /\ my.clients \subseteq my'.clients
      BY <2>1, Reading, Activating, Registering, RegisteringDeveloper DEF OnlyDevelopers, Same
    <3> QED
      BY <1>1, <1>2, <3>1
  <2>2. CASE UpdateClient(r) \/ RemoveClient(r)
    <3>1. /\ req[r].at = "change" /\ Same /\ my'.scopes = my.scopes
          /\ \A c \in my.clients : c.id # req[r].id => c \in my'.clients
      BY <2>2, Updating, Removing
    <3>2. req[r].id \in Drawn
      BY <3>1 DEF OwnInv, ChangesAreOwned
    <3> QED
      BY <1>0, <1>1, <1>2, <3>1, <3>2 DEF Same
  <2> QED
    BY <1>3, <2>1, <2>2 DEF RequestStep, Reads
<1>4. ASSUME NEW s \in Servers, ServerStep(s) PROVE ServeInv'
  <2>1. /\ ServerKeeps
        /\ \A o \in Servers \ {s} : server'[o] = server[o]
        /\ ServesWell(s, server[s], my) => ServesWell(s, server'[s], my')
    BY <1>4, ServerSteps
  <2>2. ASSUME NEW p \in DOMAIN Predefined, NEW c \in my.clients, c.id = p
        PROVE  \E d \in my'.clients : d.id = p
    <3>1. c.id \in {d.id : d \in my'.clients}
      BY <2>1 DEF ServerKeeps
    <3> QED
      BY <2>2, <3>1
  <2>3. KeepsServed
    BY <2>1, <2>2 DEF ServerKeeps, KeepsServed
  <2> QED
    BY <1>0, <2>1, <2>3, StillServesWell DEF ServeInv
<1>5. CASE GrantStep
  <2>1. SameTables /\ server' = server
    BY <1>5, GrantSteps
  <2> QED
    BY <1>1, <1>2, <2>1 DEF SameTables, OnlyDevelopers
<1>6. CASE UNCHANGED vars
  BY <1>1, <1>2, <1>6 DEF vars
<1> QED
  BY <1>3, <1>4, <1>5, <1>6 DEF Next

LEMMA InitServes == Init => ServeInv
BY DownTyped DEF Init, ServeInv, ServesWell

\* While a server listens that may update clients, every predefined client is
\* there as configured, and while any server listens, every configured scope,
\* whatever other servers and developers do.
THEOREM ListenersServe == Spec => []PredefinedAreServed
<1>2. TypeInv /\ ServeInv => PredefinedAreServed
  BY DEF ServeInv, ServesWell, ServedIn, PredefinedAreServed
<1>3. Spec => [](TypeInv /\ OwnInv /\ ServeInv)
  BY InitServes, InitTyped, StepTyped, InitOwned, StepKeepsOwn, StepServes, PTL DEF Spec
<1> QED
  BY <1>2, <1>3, PTL

-----------------------------------------------------------------------------
(* Who changes clients.                                                    *)

\* Nothing takes away a client, or changes it, but a developer who owns it at
\* that moment, and a server that starts and may update clients, if the client is
\* predefined, although
\* the owner is looked up one call before.
THEOREM OwnersManageClients == Spec => OwnersManage
<1> DEFINE Managed ==
      \A c \in my.clients :
        \/ c \in my'.clients
        \/ \E r \in Requests :
             /\ req[r].at = "change"
             /\ req'[r].at = "idle"
             /\ Owns(req[r].email, c.id)
        \/ /\ c.id \in DOMAIN Predefined
           /\ \E s \in Updaters : server[s].at = "clients"
<1>1. ASSUME TypeInv, OwnInv, NEW r \in Requests, RequestStep(r) PROVE Managed
  <2>1. CASE Reads(r) \/ ActivateDeveloper(r) \/ RegisterClient(r) \/ RegisterClientDeveloper(r)
    BY <1>1, <2>1, Reading, Activating, Registering, RegisteringDeveloper DEF OnlyDevelopers
  <2>2. CASE UpdateClient(r) \/ RemoveClient(r)
    <3>1. /\ req[r].at = "change" /\ Return(r) /\ nextId' = nextId
          /\ \A c \in my.clients : c.id # req[r].id => c \in my'.clients
      BY <1>1, <2>2, Updating, Removing
    <3>2. Drawn' = Drawn
      BY <3>1 DEF Drawn
    <3>3. req'[r].at = "idle"
      BY <1>1, <3>1, <3>2, Returned
    <3>4. req[r].id \in MySQL!Owned(my, req[r].email) \/ req[r].id \notin ClientIds
      BY <1>1, <3>1 DEF OwnInv, ChangesAreOwned, Owner
    <3>5. ASSUME NEW c \in my.clients, c.id = req[r].id PROVE Owns(req[r].email, c.id)
      BY <3>4, <3>5 DEF ClientIds, Owns, MySQL!developerOwnsClient, MySQL!Result
    <3> QED
      BY <3>1, <3>3, <3>5
  <2> QED
    BY <1>1, <2>1, <2>2 DEF RequestStep, Reads
<1>2. ASSUME TypeInv, ServeInv, NEW s \in Servers, ServerStep(s) PROVE Managed
  <2>1. /\ ServerKeeps
        /\ \A c \in my.clients : c \in my'.clients \/ Writes(server[s])
    BY <1>2, ServerSteps
  <2>2. Writes(server[s]) => server[s].at = "clients" /\ s \in Updaters
    BY <1>2 DEF Writes, ServeInv, ServesWell
  <2> QED
    BY <2>1, <2>2 DEF ServerKeeps
<1>3. ASSUME TypeInv, GrantStep PROVE Managed
  BY <1>3, GrantSteps DEF SameTables, OnlyDevelopers
<1>4. TypeInv /\ OwnInv /\ ServeInv /\ Next => Managed
  <2> HIDE DEF Managed
  <2> QED
    BY <1>1, <1>2, <1>3 DEF Next
<1>5. TypeInv /\ OwnInv /\ ServeInv /\ [Next]_vars => [Managed]_vars
  BY <1>4
<1>6. Spec => [](TypeInv /\ OwnInv /\ ServeInv)
  BY InitTyped, StepTyped, InitOwned, StepKeepsOwn, InitServes, StepServes, PTL DEF Spec
<1>7. Spec => [][Managed]_vars
  <2> HIDE DEF Managed
  <2> QED
    BY <1>5, <1>6, PTL DEF Spec
<1> QED
  BY <1>7 DEF OwnersManage

-----------------------------------------------------------------------------
(* The two stores.  Each object of memory.js holds the rows of a table of  *)
(* MySQL under their keys, and every call keeps it so and answers alike.   *)

AllTables == Memory!Objects \cup {"scopes"}

\* The property of memory.js under which it stores a row
KeyOf(t, row) ==
  IF t = "clientDevelopers" THEN row.row ELSE IF t = "scopes" THEN row ELSE row.id

Holds(object, rows, t) ==
  /\ object = [k \in DOMAIN object |-> object[k]]
  /\ \A k \in DOMAIN object : object[k] \in rows /\ KeyOf(t, object[k]) = k
  /\ \A row \in rows : KeyOf(t, row) \in DOMAIN object /\ object[KeyOf(t, row)] = row

Mirrored(n, m) ==
  /\ n = [t \in AllTables |-> n[t]]
  /\ m = [t \in AllTables |-> m[t]]
  /\ \A t \in AllTables : Holds(n[t], m[t], t)

\* A call on MySQL and the same in memory
Alike(m, n) == m.answer = n.answer /\ Mirrored(n.store, m.store)

LEMMA StoresAreFunctions == \A m \in Stores : m = [t \in AllTables |-> m[t]]
BY DEF Stores, AllTables, Memory!Objects

LEMMA HoldsAll ==
  ASSUME NEW o, NEW R, NEW t, Holds(o, R, t)
  PROVE  Memory!Range(o) = R
BY DEF Holds, Memory!Range

\* The objects stand for the tables.
LEMMA MirrorsTables ==
  ASSUME NEW n, NEW m, Mirrored(n, m)
  PROVE  Memory!Tables(n) = m
<1>1. DOMAIN n = AllTables
  BY DEF Mirrored
<1>2. \A t \in AllTables : Memory!Range(n[t]) = m[t]
  BY HoldsAll DEF Mirrored
<1>3. Memory!Tables(n) = [t \in AllTables |-> Memory!Range(n[t])]
  BY <1>1 DEF Memory!Tables
<1>4. m = [t \in AllTables |-> m[t]]
  BY DEF Mirrored
<1> QED
  BY <1>2, <1>3, <1>4

\* A row is found under its key, in either store.
LEMMA FoundAlike ==
  ASSUME NEW o, NEW R, NEW t, Holds(o, R, t), NEW k
  PROVE  MySQL!FirstRow({row \in R : KeyOf(t, row) = k}) = Memory!At(o, k)
<1> DEFINE F == {row \in R : KeyOf(t, row) = k}
<1>1. CASE k \in DOMAIN o
  <2>1. F = {o[k]}
    BY <1>1 DEF Holds
  <2>2. (CHOOSE row \in F : TRUE) = o[k]
    BY <2>1
  <2> QED
    BY <1>1, <2>1, <2>2 DEF MySQL!FirstRow, Memory!At
<1>2. CASE k \notin DOMAIN o
  <2>1. F = {}
    BY <1>2 DEF Holds
  <2> QED
    BY <1>2, <2>1 DEF MySQL!FirstRow, Memory!At
<1> QED
  BY <1>1, <1>2

LEMMA PutHolds ==
  ASSUME NEW o, NEW R, NEW t, Holds(o, R, t), NEW row,
         \A x \in R : KeyOf(t, x) # KeyOf(t, row)
  PROVE  Holds(Memory!Put(o, KeyOf(t, row), row), R \cup {row}, t)
<1> DEFINE k == KeyOf(t, row)
           p == Memory!Put(o, k, row)
<1>1. p = [j \in DOMAIN o \cup {k} |-> IF j = k THEN row ELSE o[j]]
  BY DEF Memory!Put
<1>2. k = KeyOf(t, row)
  OBVIOUS
<1> HIDE DEF k, p
<1>3. /\ DOMAIN p = DOMAIN o \cup {k} /\ p[k] = row
      /\ \A j \in DOMAIN o : j # k => p[j] = o[j]
  BY <1>1
<1>4. p = [j \in DOMAIN p |-> p[j]]
  BY <1>1
<1>5. \A j \in DOMAIN o : j # k
  BY <1>2 DEF Holds
<1>6. \A j \in DOMAIN p : p[j] \in R \cup {row} /\ KeyOf(t, p[j]) = j
  BY <1>2, <1>3 DEF Holds
<1>7. \A x \in R \cup {row} : KeyOf(t, x) \in DOMAIN p /\ p[KeyOf(t, x)] = x
  BY <1>2, <1>3, <1>5 DEF Holds
<1>8. Holds(p, R \cup {row}, t)
  BY <1>4, <1>6, <1>7 DEF Holds
<1> QED
  BY <1>8 DEF k, p

LEMMA WithoutHolds ==
  ASSUME NEW o, NEW R, NEW t, Holds(o, R, t), NEW S, NEW L, L \subseteq R,
         \A x \in R : x \in L <=> KeyOf(t, x) \notin S
  PROVE  Holds(Memory!Without(o, S), L, t)
<1> DEFINE p == Memory!Without(o, S)
<1>1. p = [j \in DOMAIN o \ S |-> o[j]]
  BY DEF Memory!Without, Memory!Restrict
<1> HIDE DEF p
<1>2. DOMAIN p = DOMAIN o \ S /\ \A j \in DOMAIN p : p[j] = o[j]
  BY <1>1
<1>3. p = [j \in DOMAIN p |-> p[j]]
  BY <1>1
<1>4. \A j \in DOMAIN p : p[j] \in L /\ KeyOf(t, p[j]) = j
  BY <1>2 DEF Holds
<1>5. \A x \in L : KeyOf(t, x) \in DOMAIN p /\ p[KeyOf(t, x)] = x
  BY <1>2 DEF Holds
<1>6. Holds(p, L, t)
  BY <1>3, <1>4, <1>5 DEF Holds
<1> QED
  BY <1>6 DEF p

\* What changes one table of each store
LEMMA OneTable ==
  ASSUME NEW n, NEW m, Mirrored(n, m), NEW t \in AllTables, NEW o, NEW R, Holds(o, R, t)
  PROVE  Mirrored([n EXCEPT ![t] = o], [m EXCEPT ![t] = R])
<1> DEFINE p == [n EXCEPT ![t] = o]
           q == [m EXCEPT ![t] = R]
<1>1. DOMAIN n = AllTables /\ DOMAIN m = AllTables
  BY DEF Mirrored
<1>2. /\ p = [x \in AllTables |-> p[x]] /\ p[t] = o
      /\ \A x \in AllTables \ {t} : p[x] = n[x]
  BY <1>1
<1>3. /\ q = [x \in AllTables |-> q[x]] /\ q[t] = R
      /\ \A x \in AllTables \ {t} : q[x] = m[x]
  BY <1>1
<1> HIDE DEF p, q
<1>4. ASSUME NEW x \in AllTables PROVE Holds(p[x], q[x], x)
  BY <1>2, <1>3 DEF Mirrored
<1>5. Mirrored(p, q)
  BY <1>2, <1>3, <1>4 DEF Mirrored
<1> QED
  BY <1>5 DEF p, q

-----------------------------------------------------------------------------
(* The calls, one by one.                                                  *)

LEMMA KeysOfTables ==
  /\ \A t \in AllTables \ {"clientDevelopers", "scopes"} : \A row : KeyOf(t, row) = row.id
  /\ \A row : KeyOf("clientDevelopers", row) = row.row /\ KeyOf("scopes", row) = row
  /\ AllTables = {"clients", "developers", "clientDevelopers", "scopes"} \cup MySQL!Grants
  /\ Memory!Grants = MySQL!Grants /\ MySQL!Grants = {"codes", "tokens", "refreshTokens"}
BY DEF KeyOf, AllTables, Memory!Objects, MySQL!Grants, Memory!Grants

\* A row is there in both stores or in none.
LEMMA RowsThere ==
  ASSUME Mirrored(mem, my), NEW t \in AllTables \ {"clientDevelopers", "scopes"}
  PROVE  /\ Holds(mem[t], my[t], t)
         /\ \A i : MySQL!FirstRow({row \in my[t] : row.id = i}) = Memory!At(mem[t], i)
<1>1. Holds(mem[t], my[t], t)
  BY DEF Mirrored
<1> SUFFICES ASSUME NEW i
             PROVE  MySQL!FirstRow({row \in my[t] : row.id = i}) = Memory!At(mem[t], i)
  BY <1>1
<1>2. {row \in my[t] : row.id = i} = {row \in my[t] : KeyOf(t, row) = i}
  BY KeysOfTables
<1> QED
  BY <1>1, <1>2, FoundAlike

\* A row that is inserted in table t and stored in the object
LEMMA InsertAlike ==
  ASSUME Mirrored(mem, my), NEW t \in AllTables, NEW row,
         \A x \in my[t] : KeyOf(t, x) # KeyOf(t, row)
  PROVE  Mirrored([mem EXCEPT ![t] = Memory!Put(@, KeyOf(t, row), row)],
                  [my EXCEPT ![t] = @ \cup {row}])
<1>1. Holds(Memory!Put(mem[t], KeyOf(t, row), row), my[t] \cup {row}, t)
  BY PutHolds DEF Mirrored
<1> QED
  BY <1>1, OneTable

LEMMA RegisterAlike ==
  ASSUME Mirrored(mem, my), NEW c, \A x \in my.clients : x.id # c.id
  PROVE  Alike(MySQL!registerClient(my, c), Memory!registerClient(mem, c))
<1>1. MySQL!getClient(my, c.id) = None
  BY DEF MySQL!getClient, MySQL!FirstRow
<1>2. Mirrored([mem EXCEPT !["clients"] = Memory!Put(@, c.id, c)],
               [my EXCEPT !["clients"] = @ \cup {c}])
  BY InsertAlike, KeysOfTables
<1> QED
  BY <1>1, <1>2 DEF Alike, MySQL!registerClient, Memory!registerClient, MySQL!Result, Memory!Result

LEMMA ScopeAlike ==
  ASSUME Mirrored(mem, my), NEW c, c \notin my.scopes
  PROVE  Alike(MySQL!registerScope(my, c), Memory!registerScope(mem, c))
<1>1. Mirrored([mem EXCEPT !["scopes"] = Memory!Put(@, c, c)],
               [my EXCEPT !["scopes"] = @ \cup {c}])
  <2>1. \A x \in my["scopes"] : KeyOf("scopes", x) # KeyOf("scopes", c)
    BY KeysOfTables
  <2> QED
    BY <2>1, InsertAlike, KeysOfTables
<1> QED
  BY <1>1 DEF Alike, MySQL!registerScope, Memory!registerScope, MySQL!Result, Memory!Result

LEMMA UpdateAlike ==
  ASSUME TypeInv, Mirrored(mem, my), NEW i, NEW name \in Names \cup {None},
         NEW g \in BOOLEAN \cup {None}, MySQL!getClient(my, i) # None
  PROVE  Alike(MySQL!updateClient(my, [id |-> i, name |-> name, canGrant |-> g]),
               Memory!updateClient(mem, [id |-> i, name |-> name, canGrant |-> g]))
<1> DEFINE u == [id |-> i, name |-> name, canGrant |-> g]
           R == my["clients"]
           o == mem["clients"]
           New(c) == [c EXCEPT !.name = MySQL!Coalesce(u.name, @),
                               !.canGrant = MySQL!Coalesce(u.canGrant, @)]
           L == {IF c.id # u.id THEN c ELSE New(c) : c \in R}
<1>1. PICK c \in R : c.id = i
  BY FoundIsThere
<1>2. /\ R \subseteq ClientRows /\ Holds(o, R, "clients")
      /\ \A row : KeyOf("clients", row) = row.id
  BY RowsThere, KeysOfTables DEF TypeInv, Stores
<1>3. i \in DOMAIN o /\ o[i] = c /\ \A x \in R : x.id = i => x = c
  BY <1>1, <1>2 DEF Holds
<1>4. New(c) \in ClientRows /\ New(c).id = i
  BY <1>1, <1>2 DEF ClientRows, MySQL!Coalesce
<1>5. New(c) = [f \in DOMAIN o[i] |-> IF f \in DOMAIN u /\ u[f] # None THEN u[f] ELSE o[i][f]]
  <2>1. c = [id |-> c.id, name |-> c.name, canGrant |-> c.canGrant, public |-> c.public]
    BY <1>2 DEF ClientRows
  <2>2. DOMAIN c = {"id", "name", "canGrant", "public"} /\ DOMAIN u = {"id", "name", "canGrant"}
    BY <1>2 DEF ClientRows
  <2>3. New(c) = [f \in DOMAIN c |-> IF f = "name" THEN MySQL!Coalesce(name, c.name)
                                     ELSE IF f = "canGrant" THEN MySQL!Coalesce(g, c.canGrant)
                                     ELSE c[f]]
    BY <2>1, <2>2
  <2>4. \A f \in DOMAIN c : (IF f \in DOMAIN u /\ u[f] # None THEN u[f] ELSE c[f])
                            = (IF f = "name" THEN MySQL!Coalesce(name, c.name)
                               ELSE IF f = "canGrant" THEN MySQL!Coalesce(g, c.canGrant)
                               ELSE c[f])
    BY <1>1, <2>2 DEF MySQL!Coalesce
  <2> QED
    BY <1>3, <2>3, <2>4
<1>6. PICK d : d = New(c)
  OBVIOUS
<1>7. L = {IF x.id # i THEN x ELSE d : x \in R}
  BY <1>3, <1>6
<1> HIDE DEF New, L
<1>8. Holds([o EXCEPT ![i] = d], L, "clients")
  <2>1. d.id = i
    BY <1>4, <1>6
  <2>2. \A x \in L : (x \in R /\ x.id # i) \/ x = d
    BY <1>7
  <2>3. d \in L /\ \A x \in R : x.id # i => x \in L
    BY <1>1, <1>7
  <2>4. DOMAIN [o EXCEPT ![i] = d] = DOMAIN o
    OBVIOUS
  <2> QED
    BY <1>2, <1>3, <2>1, <2>2, <2>3, <2>4 DEF Holds
<1> DEFINE inMemory == [mem EXCEPT !["clients"] = [o EXCEPT ![i] = d]]
           inMySQL == [my EXCEPT !["clients"] = L]
<1>9. Mirrored(inMemory, inMySQL)
  BY <1>8, OneTable, KeysOfTables
<1>10. Memory!At(mem.clients, u.id) # None
  BY <1>2, <1>3, RowAssumption DEF Memory!At
<1>11. Memory!updateClient(mem, u) = [store |-> inMemory, answer |-> Done]
  BY <1>5, <1>6, <1>10 DEF Memory!updateClient, Memory!Result
<1>12. MySQL!updateClient(my, u) = [store |-> inMySQL, answer |-> Done]
  BY DEF MySQL!updateClient, MySQL!Result, L, New
<1> HIDE DEF inMemory, inMySQL
<1> QED
  BY <1>9, <1>11, <1>12 DEF Alike

\* A client that no row names
LEMMA RemoveClientAlike ==
  ASSUME TypeInv, Mirrored(mem, my), NEW i,
         \A t \in MySQL!Grants \cup {"clientDevelopers"} : \A row \in my[t] : row.client # i
  PROVE  Alike(MySQL!removeClient(my, i), Memory!removeClient(mem, i))
<1> DEFINE R == {c \in my["clients"] : c.id # i}
<1>1. Holds(Memory!Without(mem["clients"], {i}), R, "clients")
  <2>1. \A x \in my["clients"] : x \in R <=> KeyOf("clients", x) \notin {i}
    BY KeysOfTables
  <2> QED
    BY <2>1, RowsThere, KeysOfTables, WithoutHolds
<1>2. Mirrored([mem EXCEPT !["clients"] = Memory!Without(@, {i})], [my EXCEPT !["clients"] = R])
  BY <1>1, OneTable, KeysOfTables
<1>3. MySQL!removeClient(my, i) = [store |-> [my EXCEPT !["clients"] = R], answer |-> Done]
  <2>1. my = [t \in AllTables |-> my[t]]
    BY DEF Mirrored
  <2>2. CASE MySQL!getClient(my, i) = None
    <3>1. R = my["clients"]
      BY <2>2, FoundIsThere
    <3>2. [my EXCEPT !["clients"] = R] = my
      BY <2>1, <3>1
    <3> QED
      BY <2>2, <3>2 DEF MySQL!removeClient, MySQL!Result
  <2>3. CASE MySQL!getClient(my, i) # None
    <3> DEFINE left == [t \in DOMAIN my |->
                          CASE t = "clients" -> {c \in my.clients : c.id # i}
                            [] t \in MySQL!Grants \cup {"clientDevelopers"} ->
                                 {row \in my[t] : row.client # i}
                            [] OTHER -> my[t]]
    <3>1. \A t \in DOMAIN my : left[t] = [my EXCEPT !["clients"] = R][t]
      BY DEF MySQL!Grants
    <3>2. left = [my EXCEPT !["clients"] = R]
      BY <2>1, <3>1
    <3> QED
      BY <2>3, <3>2 DEF MySQL!removeClient, MySQL!Result
  <2> QED
    BY <2>2, <2>3
<1> QED
  BY <1>2, <1>3 DEF Alike, Memory!removeClient, Memory!Result

\* UNIQUE(email)
EmailsDiffer == \A d, e \in my.developers : d.email = e.email => d = e

LEMMA DeveloperAlike ==
  ASSUME TypeInv, Mirrored(mem, my), EmailsDiffer, NEW e
  PROVE  /\ MySQL!getDeveloper(my, e) = Memory!getDeveloper(mem, e)
         /\ \A d \in my.developers : d.email = e => MySQL!getDeveloper(my, e) = d
         /\ (\A d \in my.developers : d.email # e) => MySQL!getDeveloper(my, e) = None
<1> DEFINE o == mem.developers
           found == {k \in DOMAIN o : o[k].email = e}
           rows == {d \in my.developers : d.email = e}
<1>1. Holds(o, my.developers, "developers") /\ \A row : KeyOf("developers", row) = row.id
  BY RowsThere, KeysOfTables
<1>2. CASE \E d \in my.developers : d.email = e
  <2> PICK d \in my.developers : d.email = e
    BY <1>2
  <2>1. rows = {d}
    BY DEF EmailsDiffer
  <2>2. found = {d.id} /\ o[d.id] = d
    BY <1>1 DEF Holds, EmailsDiffer
  <2>3. (CHOOSE k \in found : TRUE) = d.id /\ (CHOOSE row \in rows : TRUE) = d
    BY <2>1, <2>2
  <2>4. MySQL!getDeveloper(my, e) = d /\ Memory!getDeveloper(mem, e) = d
    BY <2>1, <2>2, <2>3 DEF MySQL!getDeveloper, MySQL!FirstRow, Memory!getDeveloper
  <2> QED
    BY <1>2, <2>1, <2>4
<1>3. CASE \A d \in my.developers : d.email # e
  <2>1. rows = {} /\ found = {}
    BY <1>1, <1>3 DEF Holds
  <2>2. MySQL!getDeveloper(my, e) = None /\ Memory!getDeveloper(mem, e) = None
    BY <2>1 DEF MySQL!getDeveloper, MySQL!FirstRow, Memory!getDeveloper
  <2> QED
    BY <1>3, <2>2
<1> QED
  BY <1>2, <1>3

LEMMA NoDeveloperIsNull == ASSUME TypeInv PROVE \A d \in my.developers : d # None
BY RowAssumption DEF TypeInv, Stores

LEMMA ActivateAlike ==
  ASSUME TypeInv, Mirrored(mem, my), EmailsDiffer, NEW i, NEW e,
         \A d \in my.developers : d.id # i
  PROVE  Alike(MySQL!activateDeveloper(my, i, e), Memory!activateDeveloper(mem, i, e))
<1> DEFINE row == [id |-> i, email |-> e]
           inserted == [my EXCEPT !["developers"] = @ \cup {row}]
<1>1. MySQL!getDeveloper(my, e) = Memory!getDeveloper(mem, e)
  BY DeveloperAlike
<1>2. CASE MySQL!getDeveloper(my, e) # None
  BY <1>1, <1>2 DEF MySQL!activateDeveloper, Memory!activateDeveloper, MySQL!Result,
                    Memory!Result, Alike
<1>3. CASE MySQL!getDeveloper(my, e) = None
  <2>1. \A d \in my.developers : d.email # e
    BY <1>3, DeveloperAlike, NoDeveloperIsNull
  <2>2. Mirrored([mem EXCEPT !["developers"] = Memory!Put(@, i, row)], inserted)
    <3>1. KeyOf("developers", row) = i
      BY KeysOfTables
    <3>2. \A x \in my["developers"] : KeyOf("developers", x) # i
      BY KeysOfTables
    <3> QED
      BY <3>1, <3>2, InsertAlike, KeysOfTables
  <2>3. MySQL!getDeveloper(inserted, e) = row
    <3>1. DOMAIN my = AllTables
      BY DEF Mirrored
    <3>2. inserted.developers = my.developers \cup {row}
      BY <3>1, KeysOfTables
    <3>3. {d \in inserted.developers : d.email = e} = {row}
      BY <2>1, <3>2
    <3> HIDE DEF row, inserted
    <3> QED
      BY <3>3 DEF MySQL!getDeveloper, MySQL!FirstRow
  <2>4. MySQL!activateDeveloper(my, i, e) = [store |-> inserted, answer |-> row]
    BY <1>3, <2>3 DEF MySQL!activateDeveloper, MySQL!Result
  <2>5. Memory!activateDeveloper(mem, i, e) =
          [store |-> [mem EXCEPT !["developers"] = Memory!Put(@, i, row)], answer |-> row]
    BY <1>1, <1>3 DEF Memory!activateDeveloper, Memory!Result
  <2> HIDE DEF inserted, row
  <2> QED
    BY <2>2, <2>4, <2>5 DEF Alike
<1> QED
  BY <1>2, <1>3

LEMMA OwnershipAlike ==
  ASSUME Mirrored(mem, my), NEW i, NEW d, NEW c, \A row \in my.clientDevelopers : row.row # i
  PROVE  Alike(MySQL!registerClientDeveloper(my, i, d, c),
               Memory!registerClientDeveloper(mem, i, d, c))
<1> DEFINE row == [row |-> i, developer |-> d, client |-> c]
<1>1. KeyOf("clientDevelopers", row) = i
  BY KeysOfTables
<1>2. \A x \in my["clientDevelopers"] : KeyOf("clientDevelopers", x) # i
  BY KeysOfTables
<1>3. Mirrored([mem EXCEPT !["clientDevelopers"] = Memory!Put(@, i, row)],
               [my EXCEPT !["clientDevelopers"] = @ \cup {row}])
  BY <1>1, <1>2, InsertAlike, KeysOfTables
<1> QED
  BY <1>3 DEF Alike, MySQL!registerClientDeveloper, Memory!registerClientDeveloper, MySQL!Result,
              Memory!Result

\* The join of MySQL, and the two look-ups of memory.js
LEMMA OwnedAlike ==
  ASSUME TypeInv, Mirrored(mem, my), EmailsDiffer, NEW e
  PROVE  LET d == Memory!getDeveloper(mem, e)
         IN  \A c : c \in MySQL!Owned(my, e) <=>
               \E row \in my.clientDevelopers :
                 row.client = c /\ d # None /\ row.developer = d.id
<1>1. CASE \E d \in my.developers : d.email = e
  <2> PICK d \in my.developers : d.email = e
    BY <1>1
  <2>1. Memory!getDeveloper(mem, e) = d /\ d # None
    BY DeveloperAlike, NoDeveloperIsNull
  <2>2. \A x \in my.developers : x.email = e => x = d
    BY DEF EmailsDiffer
  <2> QED
    BY <2>1, <2>2, OwnedMeans
<1>2. CASE \A d \in my.developers : d.email # e
  <2>1. Memory!getDeveloper(mem, e) = None
    BY <1>2, DeveloperAlike
  <2> QED
    BY <1>2, <2>1, OwnedMeans
<1> QED
  BY <1>1, <1>2

LEMMA OwnsAlike ==
  ASSUME TypeInv, Mirrored(mem, my), EmailsDiffer, NEW e, NEW c
  PROVE  Alike(MySQL!developerOwnsClient(my, e, c), Memory!developerOwnsClient(mem, e, c))
<1>1. Memory!Range(mem.clientDevelopers) = my.clientDevelopers
  BY HoldsAll, KeysOfTables DEF Mirrored
<1>2. \A i : i \in Memory!getClientDevelopers(mem, c) <=>
               \E row \in my.clientDevelopers : row.client = c /\ row.developer = i
  BY <1>1 DEF Memory!getClientDevelopers
<1>3. c \in MySQL!Owned(my, e) <=>
        /\ Memory!getDeveloper(mem, e) # None
        /\ Memory!getDeveloper(mem, e).id \in Memory!getClientDevelopers(mem, c)
  BY <1>2, OwnedAlike
<1> QED
  BY <1>3 DEF Alike, MySQL!developerOwnsClient, Memory!developerOwnsClient, MySQL!Result,
              Memory!Result

LEMMA ListAlike ==
  ASSUME TypeInv, Mirrored(mem, my), EmailsDiffer, RowsHaveClients, NEW e
  PROVE  Alike(MySQL!getClients(my, e), Memory!getClients(mem, e))
<1> DEFINE d == Memory!getDeveloper(mem, e)
           entries == {row \in Memory!Range(mem.clientDevelopers) :
                         d # None /\ row.developer = d.id}
           ids == {row.client : row \in entries}
           o == mem.clients
           Shown(c) == [id |-> c.id, name |-> c.name, canGrant |-> c.canGrant]
           Listed(i) == [id |-> i, name |-> o[i].name, canGrant |-> o[i].canGrant]
<1>1. Memory!Range(mem.clientDevelopers) = my.clientDevelopers
  BY HoldsAll, KeysOfTables DEF Mirrored
<1>2. ids = MySQL!Owned(my, e)
  <2>1. \A c : c \in ids <=> \E row \in my.clientDevelopers :
                               row.client = c /\ d # None /\ row.developer = d.id
    BY <1>1
  <2> HIDE DEF ids, d
  <2>2. \A c : c \in ids <=> c \in MySQL!Owned(my, e)
    BY <2>1, OwnedAlike DEF d
  <2> QED
    BY <2>2
<1>3. Holds(o, my.clients, "clients") /\ \A row : KeyOf("clients", row) = row.id
  BY RowsThere, KeysOfTables
<1>4. ids \subseteq DOMAIN o
  <2>1. ASSUME NEW i \in MySQL!Owned(my, e) PROVE i \in DOMAIN o
    <3>1. PICK c \in my.clients : c.id = i
      BY <2>1, OwnedMeans DEF RowsHaveClients, ClientIds
    <3> QED
      BY <1>3, <3>1 DEF Holds
  <2> QED
    BY <1>2, <2>1
<1> HIDE DEF ids
<1>5. {Shown(c) : c \in {c \in my.clients : c.id \in MySQL!Owned(my, e)}}
      = {Listed(i) : i \in ids}
  <2>1. ASSUME NEW c \in my.clients, c.id \in MySQL!Owned(my, e)
        PROVE  c.id \in ids /\ Shown(c) = Listed(c.id)
    BY <1>2, <1>3, <2>1 DEF Holds
  <2>2. ASSUME NEW i \in ids
        PROVE  o[i] \in my.clients /\ o[i].id \in MySQL!Owned(my, e) /\ Listed(i) = Shown(o[i])
    BY <1>2, <1>3, <1>4, <2>2 DEF Holds
  <2> HIDE DEF Shown, Listed, o
  <2> QED
    BY <2>1, <2>2
<1>6. MySQL!getClients(my, e) =
        [store |-> my,
         answer |-> {Shown(c) : c \in {c \in my.clients : c.id \in MySQL!Owned(my, e)}}]
  BY DEF MySQL!getClients, MySQL!Result
<1>7. Memory!getClients(mem, e) = [store |-> mem, answer |-> {Listed(i) : i \in ids}]
  BY <1>4 DEF Memory!getClients, Memory!Result, ids
<1> QED
  BY <1>5, <1>6, <1>7 DEF Alike
LEMMA GenerateAlike ==
  ASSUME Mirrored(mem, my), NEW t \in MySQL!Grants, NEW g, \A x \in my[t] : x.id # g.id
  PROVE  Alike(MySQL!generate(my, t, g), Memory!generate(mem, t, g))
<1>1. t \in AllTables /\ \A row : KeyOf(t, row) = row.id
  BY KeysOfTables
<1>2. Mirrored([mem EXCEPT ![t] = Memory!Put(@, g.id, g)], [my EXCEPT ![t] = @ \cup {g}])
  BY <1>1, InsertAlike
<1> QED
  BY <1>2 DEF Alike, MySQL!generate, Memory!generate, MySQL!Result, Memory!Result

LEMMA GetAlike ==
  ASSUME Mirrored(mem, my), NEW t \in MySQL!Grants, NEW i
  PROVE  Alike(MySQL!get(my, t, i), Memory!get(mem, t, i))
<1>1. t \in AllTables \ {"clientDevelopers", "scopes"}
  BY KeysOfTables
<1>2. MySQL!FirstRow({g \in my[t] : g.id = i}) = Memory!At(mem[t], i)
  BY <1>1, RowsThere
<1> QED
  BY <1>2 DEF Alike, MySQL!get, Memory!get, MySQL!Result, Memory!Result

LEMMA RemoveAlike ==
  ASSUME Mirrored(mem, my), NEW t \in MySQL!Grants, NEW i
  PROVE  Alike(MySQL!remove(my, t, i), Memory!remove(mem, t, i))
<1> DEFINE L == {g \in my[t] : g.id # i}
<1>1. t \in AllTables \ {"clientDevelopers", "scopes"} /\ \A row : KeyOf(t, row) = row.id
  BY KeysOfTables
<1>2. \A x \in my[t] : x \in L <=> KeyOf(t, x) \notin {i}
  BY <1>1
<1>3. Holds(Memory!Without(mem[t], {i}), L, t)
  BY <1>1, <1>2, RowsThere, WithoutHolds
<1>4. Mirrored([mem EXCEPT ![t] = Memory!Without(@, {i})], [my EXCEPT ![t] = L])
  BY <1>1, <1>3, OneTable
<1> QED
  BY <1>4 DEF Alike, MySQL!remove, Memory!remove, MySQL!Result, Memory!Result

\* A token that is there
LEMMA UsedAlike ==
  ASSUME TypeInv, Mirrored(mem, my), NEW g \in my.refreshTokens
  PROVE  Alike(MySQL!usedRefreshToken(my, g.id), Memory!usedRefreshToken(mem, g.id))
<1>1. Holds(mem.refreshTokens, my.refreshTokens, "refreshTokens")
  BY RowsThere, KeysOfTables
<1>2. KeyOf("refreshTokens", g) = g.id
  BY KeysOfTables
<1>3. Memory!At(mem.refreshTokens, g.id) = g
  BY <1>1, <1>2 DEF Holds, Memory!At
<1>4. g # None
  BY RowAssumption DEF TypeInv, Stores
<1> QED
  BY <1>3, <1>4 DEF Alike, MySQL!usedRefreshToken, Memory!usedRefreshToken, MySQL!Result,
                    Memory!Result

\* What filters some tables
LEMMA FilterAlike ==
  ASSUME Mirrored(mem, my), NEW n, NEW m,
         DOMAIN n = DOMAIN mem, DOMAIN m = DOMAIN my,
         n = [t \in DOMAIN n |-> n[t]], m = [t \in DOMAIN m |-> m[t]],
         \A t \in AllTables : (n[t] = mem[t] /\ m[t] = my[t]) \/ Holds(n[t], m[t], t)
  PROVE  Mirrored(n, m)
<1>1. DOMAIN mem = AllTables /\ DOMAIN my = AllTables
  BY DEF Mirrored
<1>2. \A t \in AllTables : Holds(n[t], m[t], t)
  BY DEF Mirrored
<1> QED
  BY <1>1, <1>2 DEF Mirrored

LEMMA DeleteAlike ==
  ASSUME Mirrored(mem, my), NEW c, NEW u
  PROVE  Alike(MySQL!deleteClientAuthorization(my, c, u),
               Memory!deleteClientAuthorization(mem, c, u))
<1> DEFINE n == [t \in DOMAIN mem |->
                   IF t \in Memory!Grants THEN Memory!Unauthorized(mem[t], c, u) ELSE mem[t]]
           m == [t \in DOMAIN my |->
                   IF t \in MySQL!Grants THEN {g \in my[t] : g.client # c \/ g.user # u}
                   ELSE my[t]]
<1>1. ASSUME NEW t \in MySQL!Grants
      PROVE  Holds(Memory!Unauthorized(mem[t], c, u),
                   {g \in my[t] : g.client # c \/ g.user # u}, t)
  <2> DEFINE o == mem[t]
             S == {k \in DOMAIN o : o[k].client = c /\ o[k].user = u}
             L == {g \in my[t] : g.client # c \/ g.user # u}
  <2>1. Holds(o, my[t], t)
    BY KeysOfTables, RowsThere
  <2>2. \A x \in my[t] : x \in L <=> KeyOf(t, x) \notin S
    BY <2>1 DEF Holds
  <2> HIDE DEF S
  <2>3. Holds(Memory!Without(o, S), L, t)
    BY <2>1, <2>2, WithoutHolds
  <2> QED
    BY <2>3 DEF S, Memory!Unauthorized
<1>2. DOMAIN mem = AllTables /\ DOMAIN my = AllTables
  BY DEF Mirrored
<1>3. \A t \in AllTables : (n[t] = mem[t] /\ m[t] = my[t]) \/ Holds(n[t], m[t], t)
  BY <1>1, <1>2, KeysOfTables
<1>4. Mirrored(n, m)
  <2>1. /\ DOMAIN n = DOMAIN mem /\ n = [t \in DOMAIN n |-> n[t]]
        /\ DOMAIN m = DOMAIN my /\ m = [t \in DOMAIN m |-> m[t]]
    OBVIOUS
  <2> HIDE DEF n, m
  <2> QED
    BY <1>3, <2>1, FilterAlike
<1> QED
  BY <1>4 DEF Alike, MySQL!deleteClientAuthorization, Memory!deleteClientAuthorization,
              MySQL!Result, Memory!Result

\* A user who has no grants
LEMMA RemoveUserAlike ==
  ASSUME Mirrored(mem, my), NEW u,
         \A t \in MySQL!Grants : \A g \in my[t] : g.user # u
  PROVE  Alike(MySQL!removeUser(my, u), Memory!removeUser(mem, u))
<1> DEFINE m == [t \in DOMAIN my |->
                   IF t \in MySQL!Grants THEN {g \in my[t] : g.user # u} ELSE my[t]]
<1>1. \A t \in DOMAIN my : m[t] = my[t]
  OBVIOUS
<1>2. my = [t \in DOMAIN my |-> my[t]]
  BY DEF Mirrored
<1>3. m = my
  BY <1>1, <1>2
<1> QED
  BY <1>3 DEF Alike, MySQL!removeUser, Memory!removeUser, MySQL!Result, Memory!Result

\* A scope that is a URL, or that is not there
LEMMA GetScopeAlike ==
  ASSUME Mirrored(mem, my), NEW c, c \notin my.scopes \ UrlScopes
  PROVE  Alike(MySQL!getScope(my, c), Memory!getScope(mem, c))
<1>1. Holds(mem.scopes, my.scopes, "scopes") /\ \A row : KeyOf("scopes", row) = row
  BY KeysOfTables DEF Mirrored
<1>2. Memory!At(mem.scopes, c) = IF c \in my.scopes \cap UrlScopes THEN c ELSE None
  BY <1>1 DEF Holds, Memory!At
<1> QED
  BY <1>2 DEF Alike, MySQL!getScope, Memory!getScope, MySQL!Result, Memory!Result

\* Tokens that no other user has
LEMMA RemovePublicAlike ==
  ASSUME Mirrored(mem, my), NEW u,
         \A g \in my.tokens \cup my.refreshTokens : g.user # u => g.client \notin Exposed
  PROVE  Alike(MySQL!removePublicAndCanGrantTokens(my, u),
               Memory!removePublicAndCanGrantTokens(mem, u))
<1> DEFINE Both == {"tokens", "refreshTokens"}
           exposed == {c.id : c \in {c \in Memory!Range(mem.clients) : c.public \/ c.canGrant}}
           Left(t) == {g \in my[t] : g.user # u \/ g.client \notin Exposed}
           Kept(t) == Memory!Without(mem[t], {k \in DOMAIN mem[t] : mem[t][k].client \in exposed})
           n == [t \in DOMAIN mem |-> IF t \in Both THEN Kept(t) ELSE mem[t]]
           m == [t \in DOMAIN my |-> IF t \in Both THEN Left(t) ELSE my[t]]
<1>0. exposed = Exposed
  <2>1. Memory!Range(mem.clients) = my.clients
    BY HoldsAll, KeysOfTables DEF Mirrored
  <2> QED
    BY <2>1 DEF Exposed
<1> HIDE DEF exposed
<1>1. ASSUME NEW t \in Both PROVE Holds(Kept(t), Left(t), t)
  <2> DEFINE o == mem[t]
             S == {k \in DOMAIN o : o[k].client \in Exposed}
             L == Left(t)
  <2>1. Holds(o, my[t], t)
    BY KeysOfTables, RowsThere
  <2>2. \A g \in my[t] : g.user # u => g.client \notin Exposed
    OBVIOUS
  <2>3. \A x \in my[t] : x \in L <=> KeyOf(t, x) \notin S
    BY <2>1, <2>2 DEF Holds
  <2> HIDE DEF S
  <2>4. Holds(Memory!Without(o, S), L, t)
    BY <2>1, <2>3, WithoutHolds
  <2> QED
    BY <1>0, <2>4 DEF S
<1>2. DOMAIN mem = AllTables /\ DOMAIN my = AllTables
  BY DEF Mirrored
<1> HIDE DEF Kept, Left
<1>3. \A t \in AllTables : (n[t] = mem[t] /\ m[t] = my[t]) \/ Holds(n[t], m[t], t)
  BY <1>1, <1>2, KeysOfTables
<1>4. Mirrored(n, m)
  <2>1. /\ DOMAIN n = DOMAIN mem /\ n = [t \in DOMAIN n |-> n[t]]
        /\ DOMAIN m = DOMAIN my /\ m = [t \in DOMAIN m |-> m[t]]
    OBVIOUS
  <2> HIDE DEF n, m
  <2> QED
    BY <1>3, <2>1, FilterAlike
<1>5. MySQL!removePublicAndCanGrantTokens(my, u) = [store |-> m, answer |-> Done]
  BY DEF MySQL!removePublicAndCanGrantTokens, MySQL!Result, Left, Exposed
<1>6. Memory!removePublicAndCanGrantTokens(mem, u) = [store |-> n, answer |-> Done]
  BY DEF Memory!removePublicAndCanGrantTokens, Memory!Result, Kept, exposed
<1> HIDE DEF n, m
<1> QED
  BY <1>4, <1>5, <1>6 DEF Alike

\* Tokens of clients that are there, none of which has expired
LEMMA ServicesAlike ==
  ASSUME Mirrored(mem, my), NEW u, \A t \in my.tokens : t.client \in ClientIds,
         \A t \in my.tokens : t.user = u => t.id \notin expired
  PROVE  Alike(Aggregated(MySQL!getActiveClientsByUid(my, u, expired)),
               Aggregated(Memory!getActiveClientsByUid(mem, u)))
<1> DEFINE o == mem.clients
           mine == {t \in Memory!Range(mem.tokens) : t.user = u}
           shown == {t \in mine : ~o[t.client].canGrant}
           answer == {t \in my.tokens : /\ t.user = u
                                        /\ t.id \notin expired
                                        /\ \E c \in my.clients : c.id = t.client /\ ~c.canGrant}
<1>1. Memory!Range(mem.tokens) = my.tokens
  BY HoldsAll, KeysOfTables DEF Mirrored
<1>2. Holds(o, my.clients, "clients") /\ \A row : KeyOf("clients", row) = row.id
  BY RowsThere, KeysOfTables
<1>3. ASSUME NEW t \in my.tokens
      PROVE  /\ t.client \in DOMAIN o
             /\ ~o[t.client].canGrant <=> \E c \in my.clients : c.id = t.client /\ ~c.canGrant
  <2>1. PICK c \in my.clients : c.id = t.client
    BY DEF ClientIds
  <2>2. t.client \in DOMAIN o /\ o[t.client] = c /\ \A d \in my.clients : d.id = t.client => d = c
    BY <1>2, <2>1 DEF Holds
  <2> QED
    BY <2>1, <2>2
<1>4. shown = answer
  BY <1>1, <1>3
<1>5. Memory!getActiveClientsByUid(mem, u) = [store |-> mem, answer |-> shown]
  BY <1>1, <1>3 DEF Memory!getActiveClientsByUid, Memory!Result
<1>6. MySQL!getActiveClientsByUid(my, u, expired) = [store |-> my, answer |-> answer]
  BY DEF MySQL!getActiveClientsByUid, MySQL!Result
<1> HIDE DEF shown, answer
<1> DEFINE both == IF answer = Rejected THEN answer ELSE Aggregate(answer)
<1>7. /\ Aggregated(MySQL!getActiveClientsByUid(my, u, expired)) = [store |-> my, answer |-> both]
      /\ Aggregated(Memory!getActiveClientsByUid(mem, u)) = [store |-> mem, answer |-> both]
  BY <1>4, <1>5, <1>6 DEF Aggregated
<1> HIDE DEF both
<1> QED
  BY <1>7 DEF Alike
-----------------------------------------------------------------------------
(* When the stores are compared.                                           *)

\* The ids of the tables of developers and owners were drawn.
KeysDrawn ==
  /\ \A d \in my.developers : d.id \in Drawn
  /\ \A row \in my.clientDevelopers : row.row \in Drawn

GrantsHaveClients ==
  \A t \in MySQL!Grants : \A g \in my[t] : g.client \in ClientIds

\* The only server that runs, which began with empty tables, finds none of the
\* rows that it is configured with.
FindsNothing(v, store) ==
  /\ v.at = "clients" =>
       /\ v.present = {} /\ store.scopes = {} /\ v.toLookUp \cap v.absent = {}
       /\ v.toLookUp \cup v.absent \subseteq DOMAIN Predefined
       /\ \A c \in store.clients : c.id \notin v.toLookUp \cup v.absent
  /\ v.at = "scopes" =>
       /\ v.toLookUp \cap v.absent = {}
       /\ (v.toLookUp \cup v.absent) \cap store.scopes = {}

RunsAlone ==
  /\ \A s, o \in Servers : server[s].at # "down" /\ server[o].at # "down" => s = o
  /\ \A s \in Servers : FindsNothing(server[s], my)

Compared == agree = TRUE /\ Mirrored(mem, my) /\ GrantsHaveClients /\ RunsAlone

AgreeInv ==
  /\ split \in BOOLEAN
  /\ EmailsDiffer
  /\ KeysDrawn
  /\ split = FALSE => Compared

\* A call that both stores treat alike, and one that they may not
LEMMA Compares ==
  \A m, n : /\ Call(m, n, FALSE)
            /\ split \in BOOLEAN
            /\ split = FALSE => Alike(m, n)
            => /\ split' = split
               /\ split' = FALSE => agree' = TRUE /\ Mirrored(mem', my')
<1> SUFFICES ASSUME NEW m, NEW n, Call(m, n, FALSE), split \in BOOLEAN,
                    split = FALSE => Alike(m, n)
             PROVE  /\ split' = split
                    /\ split' = FALSE => agree' = TRUE /\ Mirrored(mem', my')
  OBVIOUS
<1>1. split' = split
  BY DEF Call
<1>2. ASSUME split' = FALSE PROVE agree' = TRUE /\ Mirrored(mem', my')
  <2>1. my' = m.store /\ mem' = n.store /\ m.answer = n.answer /\ Mirrored(n.store, m.store)
    BY <1>1, <1>2 DEF Call, Alike
  <2>2. agree' = TRUE
    BY <2>1 DEF Call
  <2> QED
    BY <2>1, <2>2
<1> QED
  BY <1>1, <1>2

LEMMA Differs == \A m, n : Call(m, n, TRUE) => split' = TRUE
BY DEF Call

\* Whatever leaves the servers as they are
LEMMA KeepsAgree ==
  ASSUME TypeInv, AgreeInv, server' = server, Drawn \subseteq Drawn',
         nextId' \in 1..(MaxId + 1), split' \in BOOLEAN,
         split' = FALSE => /\ split = FALSE /\ agree' = TRUE /\ Mirrored(mem', my')
                           /\ GrantsHaveClients',
         EmailsDiffer', KeysDrawn', my'.scopes = my.scopes,
         \A c \in my'.clients : c.id \in ClientIds \cup Drawn'
  PROVE  AgreeInv'
<1>1. Drawn' \cap DOMAIN Predefined = {}
  BY ClientsAssumption DEF Drawn
<1>2. ASSUME NEW s \in Servers, FindsNothing(server[s], my)
      PROVE  FindsNothing(server'[s], my')
  BY <1>1, <1>2 DEF FindsNothing, ClientIds
<1>3. RunsAlone => RunsAlone'
  BY <1>2 DEF RunsAlone
<1> QED
  BY <1>3 DEF AgreeInv, Compared

\* Whoever the owners and developers are, if they are the same
LEMMA SameOwnersAgree ==
  ASSUME TypeInv, AgreeInv, SameOwners, Drawn \subseteq Drawn'
  PROVE  EmailsDiffer' /\ KeysDrawn'
BY DEF AgreeInv, SameOwners, EmailsDiffer, KeysDrawn

LEMMA SameGrantsAgree ==
  ASSUME SameGrants, ClientIds \subseteq ClientIds'
  PROVE  GrantsHaveClients => GrantsHaveClients'
BY DEF SameGrants, GrantsHaveClients, MySQL!Grants
\* A step that changes no table
LEMMA ReadsAgree ==
  ASSUME TypeInv, AgreeInv, UNCHANGED <<my, nextId, server, split>>,
         split' = FALSE => agree' = TRUE /\ Mirrored(mem', my')
  PROVE  AgreeInv'
<1>1. Drawn' = Drawn /\ nextId' \in 1..(MaxId + 1)
  BY DEF Drawn, TypeInv
<1>2. SameOwners /\ SameGrants
  BY DEF SameOwners, SameGrants
<1>3. EmailsDiffer' /\ KeysDrawn'
  BY <1>1, <1>2, SameOwnersAgree
<1>4. GrantsHaveClients => GrantsHaveClients'
  BY <1>2, SameGrantsAgree DEF ClientIds
<1>5. \A c \in my'.clients : c.id \in ClientIds \cup Drawn'
  BY DEF ClientIds
<1> QED
  BY <1>1, <1>3, <1>4, <1>5, KeepsAgree DEF AgreeInv, Compared

LEMMA RequestReadsAgree ==
  ASSUME TypeInv, OwnInv, AgreeInv, NEW r \in Requests, Reads(r)
  PROVE  AgreeInv'
<1>0. UNCHANGED <<my, nextId, server>>
  BY Reading
<1>1. split \in BOOLEAN /\ (split = FALSE => agree = TRUE /\ Mirrored(mem, my)) /\ EmailsDiffer
  BY DEF AgreeInv, Compared
<1>2. CASE \/ activateRegistration(r) \/ registerEndpoint(r) \/ updateClientEndpoint(r)
           \/ clientDeleteEndpoint(r) \/ listEndpoint(r) \/ Fail(r)
  <2>1. UNCHANGED <<my, mem, split, agree>>
    BY <1>2 DEF activateRegistration, registerEndpoint, updateClientEndpoint,
                clientDeleteEndpoint, listEndpoint, Arrive, Fail
  <2> QED
    BY <1>0, <1>1, <2>1, ReadsAgree
<1>3. CASE GetDeveloper(r)
  <2> PICK e : e = req[r].email
    OBVIOUS
  <2> DEFINE m == MySQL!Result(my, MySQL!getDeveloper(my, e))
             n == Memory!Result(mem, Memory!getDeveloper(mem, e))
  <2>1. Call(m, n, FALSE)
    BY <1>3 DEF GetDeveloper
  <2>2. split = FALSE => Alike(m, n)
    BY <1>1, DeveloperAlike DEF Alike, MySQL!Result, Memory!Result
  <2> HIDE DEF m, n
  <2>3. split' = split /\ (split' = FALSE => agree' = TRUE /\ Mirrored(mem', my'))
    BY <1>1, <2>1, <2>2, Compares
  <2> QED
    BY <1>0, <2>3, ReadsAgree
<1>4. CASE DeveloperOwnsClient(r)
  <2> PICK e, i : e = req[r].email /\ i = req[r].id
    OBVIOUS
  <2> DEFINE m == MySQL!developerOwnsClient(my, e, i)
             n == Memory!developerOwnsClient(mem, e, i)
  <2>1. Call(m, n, FALSE)
    BY <1>4 DEF DeveloperOwnsClient
  <2>2. split = FALSE => Alike(m, n)
    BY <1>1, OwnsAlike
  <2> HIDE DEF m, n
  <2>3. split' = split /\ (split' = FALSE => agree' = TRUE /\ Mirrored(mem', my'))
    BY <1>1, <2>1, <2>2, Compares
  <2> QED
    BY <1>0, <2>3, ReadsAgree
<1>5. CASE ListClients(r)
  <2> PICK e : e = req[r].email
    OBVIOUS
  <2> DEFINE m == MySQL!getClients(my, e)
             n == Memory!getClients(mem, e)
  <2>1. Call(m, n, FALSE)
    BY <1>5 DEF ListClients
  <2>2. split = FALSE => Alike(m, n)
    BY <1>1, ListAlike DEF OwnInv
  <2> HIDE DEF m, n
  <2>3. split' = split /\ (split' = FALSE => agree' = TRUE /\ Mirrored(mem', my'))
    BY <1>1, <2>1, <2>2, Compares
  <2> QED
    BY <1>0, <2>3, ReadsAgree
<1> QED
  BY <1>2, <1>3, <1>4, <1>5 DEF Reads

LEMMA ActivatingAgrees ==
  ASSUME TypeInv, AgreeInv, NEW r \in Requests, ActivateDeveloper(r)
  PROVE  AgreeInv'
<1> PICK e : e = req[r].email
  OBVIOUS
<1> DEFINE m == MySQL!activateDeveloper(my, nextId, e)
           n == Memory!activateDeveloper(mem, nextId, e)
           d == [id |-> nextId, email |-> e]
<1>0. /\ split \in BOOLEAN /\ EmailsDiffer /\ KeysDrawn
      /\ split = FALSE => Compared
  BY DEF AgreeInv
<1>1. /\ Call(m, n, FALSE) /\ OnlyDevelopers /\ SameGrants /\ server' = server /\ Fresh
      /\ my' = m.store /\ my \in Stores
  BY Activating DEF ActivateDeveloper, Same, Call, TypeInv
<1>2. /\ nextId \notin Drawn /\ nextId \in Drawn' /\ Drawn \subseteq Drawn'
      /\ nextId' \in 1..(MaxId + 1)
  BY <1>1, FreshIsNew
<1>3. split = FALSE => Alike(m, n)
  BY <1>0, <1>2, ActivateAlike DEF KeysDrawn, Compared
<1>4. \/ my' = my
      \/ /\ my'.developers = my.developers \cup {d}
         /\ \A x \in my.developers : x.email # e
  <2>1. CASE MySQL!getDeveloper(my, e) # None
    BY <1>1, <2>1 DEF MySQL!activateDeveloper, MySQL!Result
  <2>2. CASE MySQL!getDeveloper(my, e) = None
    <3>1. my' = [my EXCEPT !.developers = @ \cup {d}]
      BY <1>1, <2>2 DEF MySQL!activateDeveloper, MySQL!Result
    <3> HIDE DEF d
    <3>2. my'.developers = my.developers \cup {d}
      BY ONLY <1>1, <3>1 DEF Stores
    <3>3. \A x \in my.developers : x.email # e
      <4> SUFFICES ASSUME NEW x \in my.developers, x.email = e PROVE FALSE
        OBVIOUS
      <4>1. PICK y \in {z \in my.developers : z.email = e} :
              y = CHOOSE z \in {z \in my.developers : z.email = e} : TRUE
        OBVIOUS
      <4>2. y = None
        BY <2>2, <4>1 DEF MySQL!getDeveloper, MySQL!FirstRow
      <4> QED
        BY <4>2, NoDeveloperIsNull
    <3> QED
      BY <3>2, <3>3
  <2> QED
    BY <2>1, <2>2
<1> HIDE DEF m, n
<1>5. split' = split /\ (split' = FALSE => agree' = TRUE /\ Mirrored(mem', my'))
  BY <1>0, <1>1, <1>3, Compares
<1>6. EmailsDiffer'
  BY <1>0, <1>4 DEF EmailsDiffer
<1>7. KeysDrawn'
  BY <1>0, <1>1, <1>2, <1>4 DEF KeysDrawn, OnlyDevelopers
<1>8. /\ GrantsHaveClients => GrantsHaveClients'
      /\ my'.scopes = my.scopes
      /\ \A c \in my'.clients : c.id \in ClientIds \cup Drawn'
  BY <1>1, SameGrantsAgree DEF OnlyDevelopers, ClientIds
<1> QED
  BY <1>0, <1>1, <1>2, <1>5, <1>6, <1>7, <1>8, KeepsAgree DEF Compared

LEMMA RegisteringAgrees ==
  ASSUME TypeInv, AgreeInv, NEW r \in Requests, RegisterClient(r)
  PROVE  AgreeInv'
<1> PICK c : c = [id |-> nextId, name |-> req[r].set.name,
                  canGrant |-> req[r].set.canGrant, public |-> FALSE]
  OBVIOUS
<1> DEFINE m == MySQL!registerClient(my, c)
           n == Memory!registerClient(mem, c)
<1>0. split \in BOOLEAN /\ (split = FALSE => Compared)
  BY DEF AgreeInv
<1>1. /\ Call(m, n, FALSE) /\ SameOwners /\ SameGrants /\ my'.scopes = my.scopes
      /\ server' = server /\ Fresh
  BY Registering DEF RegisterClient, Same
<1>2. PICK x \in ClientRows : x.id = nextId /\ my'.clients = my.clients \cup {x}
  BY Registering
<1>3. /\ nextId \notin Drawn /\ nextId \in Drawn' /\ Drawn \subseteq Drawn'
      /\ nextId' \in 1..(MaxId + 1) /\ nextId \notin DOMAIN Predefined
  BY <1>1, FreshIsNew
<1>4. \A y \in my.clients : y.id # c.id
  BY <1>3 DEF TypeInv, IdsDrawn
<1>5. split = FALSE => Alike(m, n)
  BY <1>0, <1>4, RegisterAlike DEF Compared
<1> HIDE DEF m, n
<1>6. split' = split /\ (split' = FALSE => agree' = TRUE /\ Mirrored(mem', my'))
  BY <1>0, <1>1, <1>5, Compares
<1>7. EmailsDiffer' /\ KeysDrawn'
  BY <1>1, <1>3, SameOwnersAgree
<1>8. /\ ClientIds \subseteq ClientIds'
      /\ \A y \in my'.clients : y.id \in ClientIds \cup Drawn'
  BY <1>2, <1>3 DEF ClientIds
<1>9. GrantsHaveClients => GrantsHaveClients'
  BY <1>1, <1>8, SameGrantsAgree
<1> QED
  BY <1>0, <1>1, <1>3, <1>6, <1>7, <1>8, <1>9, KeepsAgree DEF Compared

LEMMA RegisteringDeveloperAgrees ==
  ASSUME TypeInv, AgreeInv, NEW r \in Requests, RegisterClientDeveloper(r)
  PROVE  AgreeInv'
<1> PICK d, i : d = req[r].developer /\ i = req[r].id
  OBVIOUS
<1> DEFINE m == MySQL!registerClientDeveloper(my, nextId, d, i)
           n == Memory!registerClientDeveloper(mem, nextId, d, i)
           row == [row |-> nextId, developer |-> d, client |-> i]
<1>0. /\ split \in BOOLEAN /\ EmailsDiffer /\ KeysDrawn
      /\ split = FALSE => Compared
  BY DEF AgreeInv
<1>1. /\ Call(m, n, FALSE) /\ SameGrants /\ server' = server /\ Fresh
      /\ UNCHANGED <<my.clients, my.developers, my.scopes>>
      /\ my' = m.store /\ my \in Stores
  BY RegisteringDeveloper DEF RegisterClientDeveloper, Same, Call, TypeInv
<1>2. /\ nextId \notin Drawn /\ nextId \in Drawn' /\ Drawn \subseteq Drawn'
      /\ nextId' \in 1..(MaxId + 1)
  BY <1>1, FreshIsNew
<1>3. split = FALSE => Alike(m, n)
  BY <1>0, <1>2, OwnershipAlike DEF KeysDrawn, Compared
<1>4. my'.clientDevelopers = my.clientDevelopers \cup {row}
  <2>1. my' = [my EXCEPT !.clientDevelopers = @ \cup {row}]
    BY <1>1 DEF MySQL!registerClientDeveloper, MySQL!Result
  <2> HIDE DEF row
  <2> QED
    BY ONLY <1>1, <2>1 DEF Stores
<1> HIDE DEF m, n
<1>5. split' = split /\ (split' = FALSE => agree' = TRUE /\ Mirrored(mem', my'))
  BY <1>0, <1>1, <1>3, Compares
<1>6. EmailsDiffer' /\ KeysDrawn'
  BY <1>0, <1>1, <1>2, <1>4 DEF EmailsDiffer, KeysDrawn
<1>7. /\ GrantsHaveClients => GrantsHaveClients'
      /\ \A c \in my'.clients : c.id \in ClientIds \cup Drawn'
  BY <1>1, SameGrantsAgree DEF ClientIds
<1> QED
  BY <1>0, <1>1, <1>2, <1>5, <1>6, <1>7, KeepsAgree DEF Compared
\* In memory a client that is gone is not updated.
LEMMA UpdatingAgrees ==
  ASSUME TypeInv, AgreeInv, NEW r \in Requests, UpdateClient(r)
  PROVE  AgreeInv'
<1>0. /\ split \in BOOLEAN /\ (split = FALSE => Compared)
      /\ req[r].set \in Updates
  BY DEF AgreeInv, UpdateClient, TypeInv, Requested
<1> PICK i : i = req[r].id
  OBVIOUS
<1>v. req[r].set.name \in Names \cup {None} /\ req[r].set.canGrant \in BOOLEAN \cup {None}
  BY <1>0 DEF Updates
<1> PICK name \in Names \cup {None}, g \in BOOLEAN \cup {None} :
      name = req[r].set.name /\ g = req[r].set.canGrant
  BY <1>v
<1> DEFINE u == [id |-> i, name |-> name, canGrant |-> g]
           m == MySQL!updateClient(my, u)
           n == Memory!updateClient(mem, u)
<1>1. /\ server' = server /\ nextId' = nextId /\ SameOwners /\ SameGrants
      /\ my'.scopes = my.scopes /\ ClientIds' = ClientIds
      /\ Call(m, n, MySQL!getClient(my, i) = None)
  BY Updating DEF UpdateClient, Same, ClientIds
<1> HIDE DEF m, n
<1>2. Drawn' = Drawn /\ nextId' \in 1..(MaxId + 1)
  BY <1>1 DEF Drawn, TypeInv
<1>3. split' \in BOOLEAN /\ (split' = FALSE => split = FALSE /\ agree' = TRUE /\ Mirrored(mem', my'))
  <2>1. CASE MySQL!getClient(my, i) = None
    <3>1. Call(m, n, TRUE)
      BY <1>1, <2>1 DEF Call
    <3> QED
      BY <3>1, Differs
  <2>2. CASE MySQL!getClient(my, i) # None
    <3>1. Call(m, n, FALSE)
      BY <1>1, <2>2 DEF Call
    <3>2. split = FALSE => Alike(m, n)
      BY <1>0, <2>2, UpdateAlike DEF Compared, m, n
    <3> QED
      BY <1>0, <3>1, <3>2, Compares
  <2> QED
    BY <2>1, <2>2
<1>4. EmailsDiffer' /\ KeysDrawn'
  BY <1>1, <1>2, SameOwnersAgree
<1>5. GrantsHaveClients => GrantsHaveClients'
  BY <1>1, SameGrantsAgree
<1>6. \A c \in my'.clients : c.id \in ClientIds \cup Drawn'
  BY <1>1 DEF ClientIds
<1> QED
  BY <1>0, <1>1, <1>2, <1>3, <1>4, <1>5, <1>6, KeepsAgree DEF Compared

\* In memory what refers to a removed client stays.
LEMMA RemovingAgrees ==
  ASSUME TypeInv, AgreeInv, NEW r \in Requests, RemoveClient(r)
  PROVE  AgreeInv'
<1> PICK i : i = req[r].id
  OBVIOUS
<1> DEFINE m == MySQL!removeClient(my, i)
           n == Memory!removeClient(mem, i)
<1>0. split \in BOOLEAN /\ EmailsDiffer /\ KeysDrawn /\ (split = FALSE => Compared)
  BY DEF AgreeInv
<1>1. /\ server' = server /\ nextId' = nextId /\ my'.developers = my.developers
      /\ my'.scopes = my.scopes
      /\ my'.clientDevelopers \subseteq my.clientDevelopers
      /\ my'.clients = {c \in my.clients : c.id # i}
      /\ \A t \in MySQL!Grants : my'[t] \subseteq my[t]
      /\ Call(m, n, \E t \in MySQL!Grants \cup {"clientDevelopers"} :
                      \E row \in my[t] : row.client = i)
  BY Removing DEF RemoveClient, Same
<1> HIDE DEF m, n
<1>2. Drawn' = Drawn /\ nextId' \in 1..(MaxId + 1)
  BY <1>1 DEF Drawn, TypeInv
<1>3. /\ split' \in BOOLEAN
      /\ split' = FALSE => /\ split = FALSE /\ agree' = TRUE /\ Mirrored(mem', my')
                           /\ GrantsHaveClients'
  <2>1. CASE \E t \in MySQL!Grants \cup {"clientDevelopers"} : \E row \in my[t] : row.client = i
    <3>1. Call(m, n, TRUE)
      BY <1>1, <2>1 DEF Call
    <3> QED
      BY <3>1, Differs
  <2>2. CASE \A t \in MySQL!Grants \cup {"clientDevelopers"} : \A row \in my[t] : row.client # i
    <3>1. Call(m, n, FALSE)
      BY <1>1, <2>2 DEF Call
    <3>2. split = FALSE => Alike(m, n)
      BY <1>0, <2>2, RemoveClientAlike DEF Compared, m, n
    <3>3. GrantsHaveClients => GrantsHaveClients'
      BY <1>1, <2>2 DEF GrantsHaveClients, ClientIds
    <3> QED
      BY <1>0, <3>1, <3>2, <3>3, Compares DEF Compared
  <2> QED
    BY <2>1, <2>2
<1>4. EmailsDiffer' /\ KeysDrawn'
  BY <1>0, <1>1, <1>2 DEF EmailsDiffer, KeysDrawn
<1>5. \A c \in my'.clients : c.id \in ClientIds \cup Drawn'
  BY <1>1 DEF ClientIds
<1> QED
  BY <1>1, <1>2, <1>3, <1>4, <1>5, KeepsAgree

LEMMA RequestAgrees ==
  ASSUME TypeInv, OwnInv, AgreeInv, NEW r \in Requests, RequestStep(r)
  PROVE  AgreeInv'
BY RequestReadsAgree, ActivatingAgrees, RegisteringAgrees, RegisteringDeveloperAgrees,
   UpdatingAgrees, RemovingAgrees DEF RequestStep, Reads

\* A call on grants leaves the rest as it is.
LEMMA GrantCallAgrees ==
  ASSUME TypeInv, AgreeInv, GrantStep, split' \in BOOLEAN,
         split' = FALSE => split = FALSE /\ agree' = TRUE /\ Mirrored(mem', my'),
         GrantsHaveClients => GrantsHaveClients'
  PROVE  AgreeInv'
<1>1. /\ OnlyDevelopers /\ SameOwners /\ server' = server
      /\ nextId' \in {nextId, nextId + 1} /\ nextId' \in 1..(MaxId + 1)
  BY GrantSteps DEF SameTables
<1>2. Drawn \subseteq Drawn'
  BY <1>1, DrawnGrow
<1>3. EmailsDiffer' /\ KeysDrawn'
  BY <1>1, <1>2, SameOwnersAgree
<1>4. my'.scopes = my.scopes /\ \A c \in my'.clients : c.id \in ClientIds \cup Drawn'
  BY <1>1 DEF OnlyDevelopers, ClientIds
<1> QED
  BY <1>1, <1>2, <1>3, <1>4, KeepsAgree DEF AgreeInv, Compared

\* Grants that are removed
LEMMA FewerGrants ==
  ASSUME TypeInv, GrantStep, \A t \in MySQL!Grants : my'[t] \subseteq my[t]
  PROVE  GrantsHaveClients => GrantsHaveClients'
<1>1. ClientIds' = ClientIds
  BY GrantSteps DEF SameTables, OnlyDevelopers, ClientIds
<1> QED
  BY <1>1 DEF GrantsHaveClients

LEMMA GrantAgrees ==
  ASSUME TypeInv, AgreeInv, GrantStep
  PROVE  AgreeInv'
<1>0. /\ split \in BOOLEAN /\ my \in Stores
      /\ split = FALSE => Mirrored(mem, my) /\ GrantsHaveClients /\ agree = TRUE
  BY DEF AgreeInv, Compared, TypeInv
<1> DEFINE Agrees ==
             /\ split' \in BOOLEAN
             /\ split' = FALSE => split = FALSE /\ agree' = TRUE /\ Mirrored(mem', my')
<1>a. ASSUME NEW m, NEW n, Call(m, n, FALSE), split = FALSE => Alike(m, n)
      PROVE  Agrees /\ my' = m.store
  BY <1>0, <1>a, Compares DEF Call
<1>b. ASSUME NEW m, NEW n, Call(m, n, TRUE)
      PROVE  Agrees /\ my' = m.store
  BY <1>b, Differs DEF Call
<1> HIDE DEF Agrees
<1>c. Agrees /\ (\A t \in MySQL!Grants : my'[t] \subseteq my[t]) => AgreeInv'
  BY FewerGrants, GrantCallAgrees DEF Agrees
<1>1. CASE Generate
  <2> PICK t \in MySQL!Grants, u \in Users, c \in my.clients, x \in TokenScopes :
        LET grant == [id |-> nextId, user |-> u, client |-> c.id, scope |-> {x}]
        IN  Call(MySQL!generate(my, t, grant), Memory!generate(mem, t, grant), FALSE)
    BY <1>1 DEF Generate
  <2> PICK g : g = [id |-> nextId, user |-> u, client |-> c.id, scope |-> {x}]
    OBVIOUS
  <2>1. Call(MySQL!generate(my, t, g), Memory!generate(mem, t, g), FALSE)
    OBVIOUS
  <2>2. nextId \notin Drawn
    BY <1>1, FreshIsNew DEF Generate
  <2>3. \A y \in my[t] : y.id # g.id
    BY <2>2 DEF TypeInv, IdsDrawn
  <2>4. split = FALSE => Alike(MySQL!generate(my, t, g), Memory!generate(mem, t, g))
    BY <1>0, <2>3, GenerateAlike
  <2>5. Agrees /\ my' = MySQL!generate(my, t, g).store
    BY <1>a, <2>1, <2>4
  <2>6. ClientIds' = ClientIds
    BY GrantSteps DEF SameTables, OnlyDevelopers, ClientIds
  <2>7. \A o \in MySQL!Grants : my'[o] \subseteq my[o] \cup {g}
    <3>1. DOMAIN my = AllTables
      BY <1>0, StoresAreFunctions
    <3> QED
      BY <2>5, <3>1, KeysOfTables DEF MySQL!generate, MySQL!Result
  <2>8. g.client \in ClientIds
    BY DEF ClientIds
  <2>9. GrantsHaveClients => GrantsHaveClients'
    BY <2>6, <2>7, <2>8 DEF GrantsHaveClients
  <2> QED
    BY <2>5, <2>9, GrantCallAgrees DEF Agrees
<1>2. CASE Get
  <2> PICK t \in MySQL!Grants, i \in Drawn :
        Call(MySQL!get(my, t, i), Memory!get(mem, t, i), FALSE)
    BY <1>2 DEF Get
  <2>1. split = FALSE => Alike(MySQL!get(my, t, i), Memory!get(mem, t, i))
    BY <1>0, GetAlike
  <2>2. Agrees /\ my' = MySQL!get(my, t, i).store
    BY <1>a, <2>1
  <2>3. my' = my
    BY <2>2 DEF MySQL!get, MySQL!Result
  <2> QED
    BY <1>c, <2>2, <2>3
<1>3. CASE Remove
  <2> PICK t \in MySQL!Grants, i \in Drawn :
        Call(MySQL!remove(my, t, i), Memory!remove(mem, t, i), FALSE)
    BY <1>3 DEF Remove
  <2>1. split = FALSE => Alike(MySQL!remove(my, t, i), Memory!remove(mem, t, i))
    BY <1>0, RemoveAlike
  <2>2. Agrees /\ my' = MySQL!remove(my, t, i).store
    BY <1>a, <2>1
  <2>3. \A o \in MySQL!Grants : my'[o] \subseteq my[o]
    <3>1. DOMAIN my = AllTables
      BY <1>0, StoresAreFunctions
    <3> QED
      BY <2>2, <3>1, KeysOfTables DEF MySQL!remove, MySQL!Result
  <2> QED
    BY <1>c, <2>2, <2>3
<1>4. CASE UsedRefreshToken
  <2> PICK i \in Drawn :
        Call(MySQL!usedRefreshToken(my, i), Memory!usedRefreshToken(mem, i),
             i \notin {g.id : g \in my.refreshTokens})
    BY <1>4 DEF UsedRefreshToken
  <2>1. Agrees /\ my' = MySQL!usedRefreshToken(my, i).store
    <3>1. CASE i \in {g.id : g \in my.refreshTokens}
      <4>1. Call(MySQL!usedRefreshToken(my, i), Memory!usedRefreshToken(mem, i), FALSE)
        BY <3>1 DEF Call
      <4>2. split = FALSE =>
              Alike(MySQL!usedRefreshToken(my, i), Memory!usedRefreshToken(mem, i))
        BY <1>0, <3>1, UsedAlike
      <4> QED
        BY <1>a, <4>1, <4>2
    <3>2. CASE i \notin {g.id : g \in my.refreshTokens}
      <4>1. Call(MySQL!usedRefreshToken(my, i), Memory!usedRefreshToken(mem, i), TRUE)
        BY <3>2 DEF Call
      <4> QED
        BY <1>b, <4>1
    <3> QED
      BY <3>1, <3>2
  <2>2. my' = my
    BY <2>1 DEF MySQL!usedRefreshToken, MySQL!Result
  <2> QED
    BY <1>c, <2>1, <2>2
<1>5. CASE DeleteClientAuthorization
  <2> PICK u \in Users, c \in Ids :
        Call(MySQL!deleteClientAuthorization(my, c, u),
             Memory!deleteClientAuthorization(mem, c, u), FALSE)
    BY <1>5 DEF DeleteClientAuthorization
  <2>1. split = FALSE => Alike(MySQL!deleteClientAuthorization(my, c, u),
                               Memory!deleteClientAuthorization(mem, c, u))
    BY <1>0, DeleteAlike
  <2>2. Agrees /\ my' = MySQL!deleteClientAuthorization(my, c, u).store
    BY <1>a, <2>1
  <2>3. \A t \in MySQL!Grants : my'[t] \subseteq my[t]
    <3>1. DOMAIN my = AllTables
      BY <1>0, StoresAreFunctions
    <3> QED
      BY <2>2, <3>1, KeysOfTables DEF MySQL!deleteClientAuthorization, MySQL!Result
  <2> QED
    BY <1>c, <2>2, <2>3
<1>6. CASE RemoveUser
  <2> PICK u \in Users : Call(MySQL!removeUser(my, u), Memory!removeUser(mem, u),
                              \E t \in MySQL!Grants : \E g \in my[t] : g.user = u)
    BY <1>6 DEF RemoveUser
  <2> DEFINE m == MySQL!removeUser(my, u)
             n == Memory!removeUser(mem, u)
             Granted == \E t \in MySQL!Grants : \E g \in my[t] : g.user = u
  <2>1. split = FALSE /\ ~Granted => Alike(m, n)
    BY <1>0, RemoveUserAlike
  <2>2. Call(m, n, Granted)
    OBVIOUS
  <2>3. \A t \in MySQL!Grants : m.store[t] \subseteq my[t]
    <3>1. DOMAIN my = AllTables
      BY <1>0, StoresAreFunctions
    <3> QED
      BY <3>1, KeysOfTables DEF MySQL!removeUser, MySQL!Result
  <2> HIDE DEF m, n, Granted
  <2>4. Agrees /\ my' = m.store
    <3>1. CASE Granted
      <4>1. Call(m, n, TRUE)
        BY <2>2, <3>1 DEF Call
      <4> QED
        BY <1>b, <4>1
    <3>2. CASE ~Granted
      <4>1. Call(m, n, FALSE)
        BY <2>2, <3>2 DEF Call
      <4> QED
        BY <1>a, <2>1, <3>2, <4>1
    <3> QED
      BY <3>1, <3>2
  <2> QED
    BY <1>c, <2>3, <2>4
<1>10. CASE GetScope
  <2> PICK c \in TokenScopes \cup ScopesConfig :
        Call(MySQL!getScope(my, c), Memory!getScope(mem, c), c \in my.scopes \ UrlScopes)
    BY <1>10 DEF GetScope
  <2> DEFINE m == MySQL!getScope(my, c)
             n == Memory!getScope(mem, c)
  <2>1. split = FALSE /\ c \notin my.scopes \ UrlScopes => Alike(m, n)
    BY <1>0, GetScopeAlike
  <2>2. m.store = my
    BY DEF MySQL!getScope, MySQL!Result
  <2> HIDE DEF m, n
  <2>3. Agrees /\ my' = m.store
    <3>1. CASE c \in my.scopes \ UrlScopes
      <4>1. Call(m, n, TRUE)
        BY <3>1 DEF Call, m, n
      <4> QED
        BY <1>b, <4>1
    <3>2. CASE c \notin my.scopes \ UrlScopes
      <4>1. Call(m, n, FALSE)
        BY <3>2 DEF Call, m, n
      <4> QED
        BY <1>a, <2>1, <3>2, <4>1
    <3> QED
      BY <3>1, <3>2
  <2> QED
    BY <1>c, <2>2, <2>3
<1>7. CASE RemovePublicAndCanGrantTokens
  <2> PICK u \in Users :
        Call(MySQL!removePublicAndCanGrantTokens(my, u),
             Memory!removePublicAndCanGrantTokens(mem, u),
             \E g \in my.tokens \cup my.refreshTokens : g.user # u /\ g.client \in Exposed)
    BY <1>7 DEF RemovePublicAndCanGrantTokens
  <2> DEFINE m == MySQL!removePublicAndCanGrantTokens(my, u)
             n == Memory!removePublicAndCanGrantTokens(mem, u)
             Others == \E g \in my.tokens \cup my.refreshTokens :
                         g.user # u /\ g.client \in Exposed
  <2>1. split = FALSE /\ ~Others => Alike(m, n)
    BY <1>0, RemovePublicAlike
  <2>2. Call(m, n, Others)
    OBVIOUS
  <2>3. \A t \in MySQL!Grants : m.store[t] \subseteq my[t]
    <3>1. DOMAIN my = AllTables
      BY <1>0, StoresAreFunctions
    <3> QED
      BY <3>1, KeysOfTables DEF MySQL!removePublicAndCanGrantTokens, MySQL!Result
  <2> HIDE DEF m, n, Others
  <2>4. Agrees /\ my' = m.store
    <3>1. CASE Others
      <4>1. Call(m, n, TRUE)
        BY <2>2, <3>1 DEF Call
      <4> QED
        BY <1>b, <4>1
    <3>2. CASE ~Others
      <4>1. Call(m, n, FALSE)
        BY <2>2, <3>2 DEF Call
      <4> QED
        BY <1>a, <2>1, <3>2, <4>1
    <3> QED
      BY <3>1, <3>2
  <2> QED
    BY <1>c, <2>3, <2>4
<1>8. CASE ListServices
  <2> PICK u \in Users :
        Call(Aggregated(MySQL!getActiveClientsByUid(my, u, expired)),
             Aggregated(Memory!getActiveClientsByUid(mem, u)),
             \E t \in my.tokens : t.user = u /\ t.id \in expired)
    BY <1>8 DEF ListServices
  <2> DEFINE m == Aggregated(MySQL!getActiveClientsByUid(my, u, expired))
             n == Aggregated(Memory!getActiveClientsByUid(mem, u))
             Late == \E t \in my.tokens : t.user = u /\ t.id \in expired
  <2>1. split = FALSE /\ ~Late => Alike(m, n)
    <3> SUFFICES ASSUME split = FALSE, ~Late PROVE Alike(m, n)
      OBVIOUS
    <3>1. \A t \in my.tokens : t.client \in ClientIds
      BY <1>0 DEF GrantsHaveClients, MySQL!Grants
    <3>2. \A t \in my.tokens : t.user = u => t.id \notin expired
      OBVIOUS
    <3> QED
      BY <1>0, <3>1, <3>2, ServicesAlike
  <2>2. Call(m, n, Late)
    OBVIOUS
  <2>3. m.store = my
    BY DEF Aggregated, MySQL!getActiveClientsByUid, MySQL!Result
  <2> HIDE DEF m, n, Late
  <2>4. Agrees /\ my' = m.store
    <3>1. CASE Late
      <4>1. Call(m, n, TRUE)
        BY <2>2, <3>1 DEF Call
      <4> QED
        BY <1>b, <4>1
    <3>2. CASE ~Late
      <4>1. Call(m, n, FALSE)
        BY <2>2, <3>2 DEF Call
      <4> QED
        BY <1>a, <2>1, <3>2, <4>1
    <3> QED
      BY <3>1, <3>2
  <2> QED
    BY <1>c, <2>3, <2>4
<1>9. CASE Expire
  <2>1. UNCHANGED <<my, mem, split, agree>>
    BY <1>9 DEF Expire
  <2>2. Agrees
    BY <1>0, <2>1 DEF Agrees
  <2> QED
    BY <1>c, <2>1, <2>2
<1> QED
  BY <1>1, <1>2, <1>3, <1>4, <1>5, <1>6, <1>7, <1>8, <1>9, <1>10 DEF GrantStep
\* Only one server runs, and it still finds nothing.
LEMMA StillAlone ==
  ASSUME NEW s \in Servers, RunsAlone, server[s].at # "down",
         \A o \in Servers \ {s} : server'[o] = server[o],
         FindsNothing(server'[s], my')
  PROVE  RunsAlone'
<1>1. ASSUME NEW o \in Servers \ {s} PROVE server'[o].at = "down"
  BY <1>1 DEF RunsAlone
<1>2. ASSUME NEW o \in Servers PROVE FindsNothing(server'[o], my')
  <2>1. CASE o = s
    BY <2>1
  <2>2. CASE o # s
    BY <1>1, <2>2 DEF FindsNothing
  <2> QED
    BY <2>1, <2>2
<1> QED
  BY <1>1, <1>2 DEF RunsAlone

\* A step of a server that starts leaves grants, developers and owners.
LEMMA ServerStepAgrees ==
  ASSUME TypeInv, AgreeInv, ServerKeeps, split' \in BOOLEAN,
         split' = FALSE => /\ split = FALSE /\ agree' = TRUE /\ Mirrored(mem', my')
                           /\ RunsAlone'
  PROVE  AgreeInv'
<1>1. SameOwners /\ SameGrants /\ Drawn' = Drawn /\ ClientIds \subseteq ClientIds'
  BY DEF ServerKeeps, Drawn, ClientIds
<1>2. EmailsDiffer' /\ KeysDrawn'
  BY <1>1, SameOwnersAgree
<1>3. GrantsHaveClients => GrantsHaveClients'
  BY <1>1, SameGrantsAgree
<1> QED
  BY <1>2, <1>3 DEF AgreeInv, Compared

LEMMA DownFindsNothing == \A store : FindsNothing(Down, store)
BY DownTyped DEF FindsNothing

\* The server that starts on empty tables, all others being down
LEMMA StartAgrees ==
  ASSUME TypeInv, AgreeInv, NEW s \in Servers, StartServer(s)
  PROVE  AgreeInv'
<1> DEFINE x == [Down EXCEPT !.at = "clients",
                             !.toLookUp = IF s \in Updaters THEN DOMAIN Predefined ELSE {}]
<1>0. split \in BOOLEAN /\ server \in [Servers -> ServerStates]
  BY DEF AgreeInv, TypeInv
<1>1. /\ UNCHANGED <<my, nextId>> /\ server' = [server EXCEPT ![s] = x]
      /\ server[s].at = "down" /\ mem' = Memory!Empty /\ agree' = TRUE
      /\ split' = (split \/ my # MySQL!Empty \/ \E o \in Servers : server[o].at # "down")
  BY DEF StartServer
<1>2. SameOwners /\ SameGrants /\ Drawn' = Drawn
  BY <1>1 DEF SameOwners, SameGrants, Drawn
<1>3. EmailsDiffer' /\ KeysDrawn' /\ split' \in BOOLEAN
  BY <1>0, <1>1, <1>2, SameOwnersAgree
<1>4. ASSUME split' = FALSE PROVE Compared'
  <2>1. my = MySQL!Empty /\ my' = MySQL!Empty /\ \A o \in Servers : server[o].at = "down"
    BY <1>1, <1>4
  <2>2. Mirrored(mem', my')
    BY <1>1, <2>1 DEF Mirrored, Holds, AllTables, Memory!Objects, Memory!Empty, MySQL!Empty
  <2>3. GrantsHaveClients'
    BY <2>1 DEF GrantsHaveClients, MySQL!Grants, MySQL!Empty
  <2>4. FindsNothing(x, my') /\ x.at = "clients"
    BY <2>1 DEF FindsNothing, MySQL!Empty, Down
  <2> HIDE DEF x
  <2>5. server'[s] = x /\ \A o \in Servers \ {s} : server'[o] = server[o]
    BY <1>0, <1>1
  <2>6. \A o \in Servers \ {s} : server'[o].at = "down"
    BY <2>1, <2>5
  <2>7. \A o \in Servers : FindsNothing(server'[o], my')
    BY <2>4, <2>5, <2>6 DEF FindsNothing
  <2>8. RunsAlone'
    BY <2>6, <2>7 DEF RunsAlone
  <2> QED
    BY <1>1, <2>2, <2>3, <2>8 DEF Compared
<1> QED
  BY <1>3, <1>4 DEF AgreeInv

LEMMA ServerAgrees ==
  ASSUME TypeInv, AgreeInv, NEW s \in Servers, ServerStep(s)
  PROVE  AgreeInv'
<1> DEFINE v == server[s]
<1>0. /\ split \in BOOLEAN /\ v \in ServerStates /\ server \in [Servers -> ServerStates]
      /\ split = FALSE => /\ agree = TRUE /\ Mirrored(mem, my) /\ RunsAlone
                          /\ FindsNothing(v, my)
  BY DEF AgreeInv, Compared, TypeInv, RunsAlone
<1>1. ServerKeeps /\ \A o \in Servers \ {s} : server'[o] = server[o]
  BY ServerSteps
<1>a. ASSUME v.at # "down", split' \in BOOLEAN,
             split' = FALSE => /\ split = FALSE /\ agree' = TRUE /\ Mirrored(mem', my')
                               /\ FindsNothing(server'[s], my')
      PROVE  AgreeInv'
  BY <1>0, <1>1, <1>a, StillAlone, ServerStepAgrees
<1>b. ASSUME v.at # "down", NEW m, NEW n, Call(m, n, FALSE),
             split = FALSE => Alike(m, n) /\ FindsNothing(server'[s], my')
      PROVE  AgreeInv'
  BY <1>0, <1>a, <1>b, Compares
<1>2. CASE StartServer(s)
  BY <1>2, StartAgrees
<1>3. CASE ClientsLoaded(s)
  <2> DEFINE x == [v EXCEPT !.at = "scopes", !.toLookUp = ScopesConfig]
  <2>1. /\ UNCHANGED <<my, mem, split, agree>> /\ server' = [server EXCEPT ![s] = x]
        /\ v.at = "clients" /\ v.absent = {}
    BY <1>3 DEF ClientsLoaded, Loaded
  <2>2. FindsNothing(v, my) => FindsNothing(x, my)
    BY <1>0, <2>1 DEF ServerStates, FindsNothing
  <2> HIDE DEF x
  <2>3. server'[s] = x
    BY <1>0, <2>1
  <2> QED
    BY <1>0, <1>a, <2>1, <2>2, <2>3
<1>4. CASE Listen(s)
  <2> DEFINE x == [v EXCEPT !.at = "listening"]
  <2>1. /\ UNCHANGED <<my, mem, split, agree>> /\ server' = [server EXCEPT ![s] = x]
        /\ v.at = "scopes"
    BY <1>4 DEF Listen
  <2>2. FindsNothing(x, my)
    BY <1>0, <2>1 DEF ServerStates, FindsNothing
  <2> HIDE DEF x
  <2>3. server'[s] = x
    BY <1>0, <2>1
  <2> QED
    BY <1>0, <1>a, <2>1, <2>2, <2>3
<1>5. CASE Stop(s)
  <2>1. UNCHANGED <<my, mem, split, agree>> /\ v.at # "down" /\ server'[s] = Down
    BY <1>0, <1>5 DEF Stop, Exit
  <2> QED
    BY <1>0, <1>a, <2>1, DownFindsNothing
<1>6. ASSUME NEW p \in DOMAIN Predefined, LookUpClient(s, p) PROVE AgreeInv'
  <2> DEFINE found == MySQL!getClient(my, p)
             m == MySQL!Result(my, found)
             n == Memory!Result(mem, Memory!At(mem.clients, p))
             x == [v EXCEPT !.toLookUp = @ \ {p},
                            !.absent = IF found = None THEN @ \cup {p} ELSE @,
                            !.present = IF found = None THEN @ ELSE @ \cup {p}]
  <2>1. /\ Call(m, n, FALSE) /\ my' = my /\ server' = [server EXCEPT ![s] = x]
        /\ v.at = "clients" /\ p \in v.toLookUp
    BY <1>6 DEF LookUpClient, Learn, Call, MySQL!Result
  <2>2. Mirrored(mem, my) => Alike(m, n)
    BY RowsThere, KeysOfTables DEF Alike, MySQL!Result, Memory!Result, MySQL!getClient
  <2>3. FindsNothing(v, my) => found = None
    BY <2>1, FoundIsThere DEF FindsNothing
  <2> HIDE DEF found, m, n
  <2>4. FindsNothing(v, my) => FindsNothing(x, my)
    BY <1>0, <2>1, <2>3 DEF ServerStates, FindsNothing
  <2> HIDE DEF x
  <2>5. server'[s] = x
    BY <1>0, <2>1
  <2> QED
    BY <1>0, <1>b, <2>1, <2>2, <2>4, <2>5
<1>7. ASSUME NEW p \in DOMAIN Predefined, RegisterPredefined(s, p) PROVE AgreeInv'
  <2> PICK c : c = Configure(p)
    OBVIOUS
  <2> DEFINE m == MySQL!registerClient(my, c)
             n == Memory!registerClient(mem, c)
  <2>1. /\ Call(m, n, FALSE) /\ v.at = "clients" /\ p \in v.absent /\ Registered(s, p, m)
        /\ c.id = p /\ c \in ClientRows
    BY <1>7, ConfigureTyped DEF RegisterPredefined, Configure
  <2>2. FindsNothing(v, my) => \A y \in my.clients : y.id # c.id
    BY <2>1 DEF FindsNothing
  <2>3. Mirrored(mem, my) /\ FindsNothing(v, my) => Alike(m, n)
    BY <2>2, RegisterAlike
  <2>4. /\ my' = my \/ my' = [my EXCEPT !.clients = @ \cup {c}]
        /\ my \in Stores
    BY <2>1 DEF Call, MySQL!registerClient, MySQL!Result, TypeInv
  <2>5. my'.scopes = my.scopes /\ my'.clients \subseteq my.clients \cup {c}
    BY ONLY <2>4 DEF Stores
  <2>6. CASE Exit(s)
    <3>1. server'[s] = Down
      BY <1>0, <2>6 DEF Exit
    <3> HIDE DEF m, n
    <3> QED
      BY <1>0, <1>b, <2>1, <2>3, <3>1, DownFindsNothing
  <2>7. CASE server' = [server EXCEPT ![s].absent = @ \ {p}]
    <3> DEFINE x == [v EXCEPT !.absent = @ \ {p}]
    <3>1. server' = [server EXCEPT ![s] = x]
      BY <2>7
    <3>2. FindsNothing(v, my) => FindsNothing(x, my')
      BY <1>0, <2>1, <2>5 DEF ServerStates, FindsNothing
    <3> HIDE DEF x, m, n
    <3>3. server'[s] = x
      BY <1>0, <3>1
    <3> QED
      BY <1>0, <1>b, <2>1, <2>3, <3>2, <3>3
  <2> QED
    BY <2>1, <2>6, <2>7 DEF Registered
<1>8. ASSUME NEW p \in DOMAIN Predefined, UpdatePredefined(s, p) PROVE AgreeInv'
  <2>1. v.at = "clients" /\ p \in v.present
    BY <1>8 DEF UpdatePredefined
  <2>2. split = TRUE
    BY <1>0, <2>1 DEF FindsNothing
  <2>3. split' = TRUE
    BY <1>8, <2>2 DEF UpdatePredefined, Call
  <2> QED
    BY <1>a, <2>1, <2>3
<1>9. ASSUME NEW c \in ScopesConfig, LookUpScope(s, c) PROVE AgreeInv'
  <2> DEFINE m == MySQL!getScope(my, c)
             n == Memory!getScope(mem, c)
             found == m.answer
             x == [v EXCEPT !.toLookUp = @ \ {c},
                            !.absent = IF found = None THEN @ \cup {c} ELSE @]
  <2>1. /\ Call(m, n, c \in my.scopes \ UrlScopes) /\ server' = [server EXCEPT ![s] = x]
        /\ v.at = "scopes" /\ c \in v.toLookUp
    BY <1>9 DEF LookUpScope
  <2>2. FindsNothing(v, my) => c \notin my.scopes
    BY <2>1 DEF FindsNothing
  <2>3. m.store = my
    BY DEF MySQL!getScope, MySQL!Result
  <2>4. Mirrored(mem, my) /\ FindsNothing(v, my) => Alike(m, n)
    BY <2>2, GetScopeAlike
  <2> HIDE DEF m, n
  <2>5. FindsNothing(v, my) => FindsNothing(x, my)
    BY <1>0, <2>1, <2>2 DEF ServerStates, FindsNothing
  <2> HIDE DEF x
  <2>6. server'[s] = x /\ my' = my
    BY <1>0, <2>1, <2>3 DEF Call
  <2>7. CASE c \in my.scopes
    <3>1. split = TRUE /\ split' = TRUE
      BY <1>0, <2>1, <2>2, <2>7 DEF Call
    <3> QED
      BY <1>a, <2>1, <3>1
  <2>8. CASE c \notin my.scopes
    <3>1. Call(m, n, FALSE)
      BY <2>1, <2>8 DEF Call
    <3> QED
      BY <1>0, <1>b, <2>1, <2>4, <2>5, <2>6, <3>1
  <2> QED
    BY <2>7, <2>8
<1>10. ASSUME NEW c \in ScopesConfig, RegisterScope(s, c) PROVE AgreeInv'
  <2> DEFINE m == MySQL!registerScope(my, c)
             n == Memory!registerScope(mem, c)
  <2>1. Call(m, n, FALSE) /\ v.at = "scopes" /\ c \in v.absent /\ Registered(s, c, m)
    BY <1>10 DEF RegisterScope
  <2>2. FindsNothing(v, my) => c \notin my.scopes
    BY <2>1 DEF FindsNothing
  <2>3. Mirrored(mem, my) /\ FindsNothing(v, my) => Alike(m, n)
    BY <2>2, ScopeAlike
  <2>4. /\ my' = my \/ my' = [my EXCEPT !.scopes = @ \cup {c}]
        /\ my \in Stores
    BY <2>1 DEF Call, MySQL!registerScope, MySQL!Result, TypeInv
  <2>5. my'.scopes \subseteq my.scopes \cup {c}
    BY ONLY <2>4 DEF Stores
  <2>6. CASE Exit(s)
    <3>1. server'[s] = Down
      BY <1>0, <2>6 DEF Exit
    <3> HIDE DEF m, n
    <3> QED
      BY <1>0, <1>b, <2>1, <2>3, <3>1, DownFindsNothing
  <2>7. CASE server' = [server EXCEPT ![s].absent = @ \ {c}]
    <3> DEFINE x == [v EXCEPT !.absent = @ \ {c}]
    <3>1. server' = [server EXCEPT ![s] = x]
      BY <2>7
    <3>2. FindsNothing(v, my) => FindsNothing(x, my')
      BY <1>0, <2>1, <2>5 DEF ServerStates, FindsNothing
    <3> HIDE DEF x, m, n
    <3>3. server'[s] = x
      BY <1>0, <3>1
    <3> QED
      BY <1>0, <1>b, <2>1, <2>3, <3>2, <3>3
  <2> QED
    BY <2>1, <2>6, <2>7 DEF Registered
<1> QED
  BY <1>2, <1>3, <1>4, <1>5, <1>6, <1>7, <1>8, <1>9, <1>10 DEF ServerStep

LEMMA StepAgrees ==
  ASSUME TypeInv, OwnInv, AgreeInv, [Next]_vars
  PROVE  AgreeInv'
<1>1. CASE UNCHANGED vars
  BY <1>1, ReadsAgree DEF vars, AgreeInv, Compared
<1> QED
  BY <1>1, RequestAgrees, ServerAgrees, GrantAgrees DEF Next

LEMMA InitAgrees == Init => AgreeInv
<1> SUFFICES ASSUME Init PROVE AgreeInv
  OBVIOUS
<1>1. PICK rows \in SUBSET Older :
        my = [MySQL!Empty EXCEPT !.clients = rows] /\ split = (rows # {})
  BY DEF Init
<1>2. split \in BOOLEAN /\ EmailsDiffer /\ KeysDrawn
  BY <1>1 DEF EmailsDiffer, KeysDrawn, MySQL!Empty
<1>3. ASSUME split = FALSE PROVE Compared
  <2>1. my = MySQL!Empty
    BY <1>1, <1>3 DEF MySQL!Empty
  <2>2. Mirrored(mem, my)
    BY <2>1 DEF Init, Mirrored, Holds, AllTables, Memory!Objects, Memory!Empty, MySQL!Empty
  <2>3. GrantsHaveClients
    BY <2>1 DEF GrantsHaveClients, MySQL!Grants, MySQL!Empty
  <2>4. RunsAlone
    BY DownTyped DEF Init, RunsAlone, FindsNothing
  <2> QED
    BY <2>2, <2>3, <2>4 DEF Compared, Init
<1> QED
  BY <1>2, <1>3 DEF AgreeInv

\* The memory store answers every call as MySQL does, and its objects stand for
\* the same rows, in a process that began with empty tables, until a call is
\* made that memory.js is known to treat differently.
THEOREM StoresMirror == Spec => []StoresAgree
<1>1. AgreeInv => StoresAgree
  <2> SUFFICES ASSUME AgreeInv, ~split PROVE agree /\ Memory!Tables(mem) = my
    BY DEF StoresAgree
  <2>1. Compared
    BY DEF AgreeInv
  <2> QED
    BY <2>1, MirrorsTables DEF Compared
<1>2. Spec => [](TypeInv /\ OwnInv /\ AgreeInv)
  BY InitTyped, StepTyped, InitOwned, StepKeepsOwn, InitAgrees, StepAgrees, PTL DEF Spec
<1> QED
  BY <1>1, <1>2, PTL


===============================================================================
