-------------------------- MODULE OAuthGrantsProofs --------------------------
(***************************************************************************)
(* Theorems about OAuthGrants.  First types; then what a grant held by a   *)
(* request may be, and what the client that holds it has shown; then what  *)
(* an account event, a deauthorization and the deletion of an account have *)
(* removed so far; and last who makes a token disappear.                   *)
(***************************************************************************)
EXTENDS OAuthGrants, TLAPS

\* The statements at which a request holds the grant it is about to insert.
Holding == {"insertCode", "removeCode", "usedRefreshToken", "insertAccess",
            "insertRefresh"}

\* What TypeOK leaves out: a request that will insert a row holds a grant, and
\* it knows its client.
JobsOK ==
  \A r \in Requests :
    /\ at[r] = "getClient" =>
         /\ job[r].client \in Clients
         /\ job[r].kind \in AssertionKinds \cup ExchangeKinds
         /\ job[r].kind \in AssertionKinds => job[r].grant \in Grants
    /\ at[r] \in {"getCode", "getRefreshToken"} =>
         job[r].client \in Clients /\ job[r].kind \in Kinds
    /\ at[r] \in Holding => /\ job[r].client \in Clients
                            /\ job[r].kind \in Kinds
                            /\ job[r].grant \in Grants

TypeInv == TypeOK /\ JobsOK

LEMMA InitType == Init => TypeInv
<1> SUFFICES ASSUME Init PROVE TypeInv
  OBVIOUS
<1>1. NoJob \in Jobs
  BY DEF NoJob, Jobs, Proofs
<1>2. \A e \in Events : event[e] \in EventRecords
  BY DEF Init, EventRecords, EventKinds, Running
<1>3. at \in [Requests -> Steps] /\ job \in [Requests -> Jobs]
  BY <1>1 DEF Init, Steps
<1>4. event \in [Events -> EventRecords]
  BY <1>2 DEF Init
<1>5. TypeOK
  <2>1. /\ codes \subseteq CodeRows
        /\ tokens \subseteq AccessRows
        /\ refreshTokens \subseteq RefreshRows
        /\ lapsed \subseteq Nat
    BY DEF Init
  <2>2. clients \subseteq Clients /\ active \subseteq Users
    BY DEF Init
  <2>3. nextId \in Nat \ {0}
    BY DEF Init
  <2> QED
    BY <1>3, <1>4, <2>1, <2>2, <2>3 DEF TypeOK
<1>6. JobsOK
  BY DEF Init, JobsOK, Holding
<1> QED
  BY <1>5, <1>6 DEF TypeInv

\* A request that ends leaves well-typed variables.
LEMMA ReturnType ==
  ASSUME TypeInv, NEW r \in Requests, Return(r)
  PROVE  /\ at' \in [Requests -> Steps]
         /\ job' \in [Requests -> Jobs]
         /\ JobsOK'
<1>1. NoJob \in Jobs
  BY DEF NoJob, Jobs, Proofs
<1>2. at' = [at EXCEPT ![r] = "idle"] /\ job' = [job EXCEPT ![r] = NoJob]
  BY DEF Return
<1>3. "idle" \in Steps
  BY DEF Steps
<1> QED
  BY <1>1, <1>2, <1>3 DEF TypeInv, TypeOK, JobsOK, Holding

\* So does marking the messages that a request races with.
LEMMA RaceType ==
  ASSUME TypeInv, NEW u, event' = RaceWith(u)
  PROVE  event' \in [Events -> EventRecords]
BY DEF RaceWith, TypeInv, TypeOK, EventRecords

LEMMA IssuedType == ASSUME TypeInv PROVE Issued \subseteq Nat
BY DEF Issued, TypeInv, TypeOK

\* What a request with an assertion arrives with.
LEMMA AssertionArrives ==
  ASSUME NEW r \in Requests, ArriveWithAssertion(r)
  PROVE  \E k \in AssertionKinds, o \in Origins, off \in BOOLEAN, p \in Proofs :
           /\ Arrive(r, [NoJob EXCEPT !.kind = k, !.client = o.client, !.proof = p,
                           !.grant = [user |-> o.user, client |-> o.client,
                                      scope |-> o.scope, offline |-> off,
                                      origin |-> o, asked |-> nextId]],
                     "getClient")
           /\ event' = RaceWith(o.user)
BY DEF ArriveWithAssertion, Proofs

\* A statement of a request preserves the types.
LEMMA RequestType ==
  ASSUME TypeInv, NEW r \in Requests, RequestStep(r)
  PROVE  TypeInv'
<1> USE DEF TypeInv
<1>1. CASE ArriveWithAssertion(r)
  <2> PICK k \in AssertionKinds, o \in Origins, off \in BOOLEAN, p \in Proofs :
        /\ Arrive(r, [NoJob EXCEPT !.kind = k, !.client = o.client, !.proof = p,
                        !.grant = [user |-> o.user, client |-> o.client,
                                   scope |-> o.scope, offline |-> off,
                                   origin |-> o, asked |-> nextId]],
                  "getClient")
        /\ event' = RaceWith(o.user)
    BY <1>1, AssertionArrives
  <2> DEFINE g == [user |-> o.user, client |-> o.client, scope |-> o.scope,
                   offline |-> off, origin |-> o, asked |-> nextId]
             j == [NoJob EXCEPT !.kind = k, !.client = o.client, !.proof = p,
                                !.grant = g]
  <2>0. /\ UNCHANGED <<codes, tokens, refreshTokens, lapsed, clients, nextId, active>>
        /\ nextId \in Nat
    BY <1>1 DEF ArriveWithAssertion, TypeOK
  <2>1. g \in Grants
    BY <2>0 DEF Grants, Origins
  <2>2. j \in Jobs /\ j.client \in Clients /\ j.kind = k /\ j.grant = g
    BY <2>1 DEF Jobs, NoJob, Kinds, Origins
  <2>3. at' = [at EXCEPT ![r] = "getClient"] /\ job' = [job EXCEPT ![r] = j]
    BY DEF Arrive
  <2> HIDE DEF g, j
  <2>4. TypeOK'
    BY <2>0, <2>2, <2>3, RaceType DEF TypeOK, Steps
  <2>5. JobsOK'
    BY <2>1, <2>2, <2>3 DEF TypeOK, JobsOK, Holding
  <2> QED
    BY <2>4, <2>5
<1>2. CASE ArriveWithCredential(r)
  <2> PICK k \in ExchangeKinds, c \in Clients, p \in Proofs, i \in Issued,
           s \in SUBSET Scopes :
        /\ Arrive(r, [NoJob EXCEPT !.kind = k, !.client = c, !.proof = p,
                        !.target = i, !.scope = s, !.since = nextId], "getClient")
        /\ UNCHANGED <<codes, tokens, refreshTokens, lapsed, clients, nextId,
                       active, event>>
    BY <1>2 DEF ArriveWithCredential
  <2> DEFINE j == [NoJob EXCEPT !.kind = k, !.client = c, !.proof = p,
                                !.target = i, !.scope = s, !.since = nextId]
  <2>1. j \in Jobs /\ j.client \in Clients /\ j.kind \in ExchangeKinds
    BY IssuedType DEF Jobs, NoJob, Kinds, TypeOK
  <2>2. at' = [at EXCEPT ![r] = "getClient"] /\ job' = [job EXCEPT ![r] = j]
    BY DEF Arrive
  <2> HIDE DEF j
  <2>3. TypeOK'
    BY <2>1, <2>2 DEF TypeOK, Steps
  <2>4. JobsOK'
    BY <2>1, <2>2 DEF TypeOK, JobsOK, Holding, AssertionKinds, ExchangeKinds
  <2> QED
    BY <2>3, <2>4
<1>3. CASE ArriveToDestroy(r) \/ ArriveToRevoke(r)
  <2>1. PICK j \in Jobs, s \in {"getToken", "revoke"} : Arrive(r, j, s)
    <3>1. ASSUME NEW k \in DestroyKinds, NEW i \in Issued
          PROVE  [NoJob EXCEPT !.kind = k, !.target = i] \in Jobs
      BY IssuedType DEF Jobs, NoJob, Kinds, Proofs
    <3>2. ASSUME NEW u \in Users, NEW c \in Clients
          PROVE  [NoJob EXCEPT !.kind = "revoke", !.user = u, !.client = c,
                    !.left = Tables, !.since = nextId] \in Jobs
      BY DEF Jobs, NoJob, Kinds, TypeOK, Proofs
    <3> QED
      BY <1>3, <3>1, <3>2 DEF ArriveToDestroy, ArriveToRevoke
  <2>2. UNCHANGED <<codes, tokens, refreshTokens, lapsed, clients, nextId,
                    active, event>>
    BY <1>3 DEF ArriveToDestroy, ArriveToRevoke
  <2>3. at' = [at EXCEPT ![r] = s] /\ job' = [job EXCEPT ![r] = j]
    BY <2>1 DEF Arrive
  <2>4. TypeOK'
    BY <2>1, <2>2, <2>3 DEF TypeOK, Steps
  <2>5. JobsOK'
    BY <2>1, <2>3 DEF TypeOK, JobsOK, Holding
  <2> QED
    BY <2>4, <2>5
<1>4. CASE GetClient(r)
  <2>1. CASE Return(r)
    BY <1>4, <2>1, ReturnType DEF GetClient, TypeOK
  <2>2. CASE GoTo(r, FirstStatement(job[r].kind)) /\ UNCHANGED job
    <3>1. FirstStatement(job[r].kind) \in
            {"insertCode", "getCode", "getRefreshToken", "insertAccess"}
      BY DEF FirstStatement
    <3>2. FirstStatement(job[r].kind) \in Holding =>
            job[r].kind \in AssertionKinds
      BY <1>4 DEF FirstStatement, Holding, GetClient, JobsOK, AssertionKinds,
                  ExchangeKinds
    <3>3. TypeOK'
      BY <1>4, <2>2, <3>1 DEF GetClient, GoTo, TypeOK, Steps
    <3>4. JobsOK'
      BY <1>4, <2>2, <3>1, <3>2 DEF GetClient, GoTo, TypeOK, JobsOK, Kinds
    <3> QED
      BY <3>3, <3>4
  <2> QED
    BY <1>4, <2>1, <2>2 DEF GetClient
<1>5. CASE InsertCode(r)
  <2>1. job[r].grant \in Grants
    BY <1>5 DEF InsertCode, JobsOK, Holding
  <2>2. codes' \subseteq CodeRows /\ nextId' \in Nat \ {0}
    BY <1>5, <2>1 DEF InsertCode, Fresh, CodeRows, TypeOK
  <2> QED
    BY <1>5, <2>2, ReturnType DEF InsertCode, TypeOK
<1>6. CASE GetCode(r)
  <2>1. CASE Return(r) /\ UNCHANGED event
    BY <1>6, <2>1, ReturnType DEF GetCode, TypeOK
  <2>2. CASE ~(Return(r) /\ UNCHANGED event)
    <3>1. PICK k \in codes : /\ job' = [job EXCEPT ![r].grant = k.grant]
                             /\ GoTo(r, "removeCode")
                             /\ event' = RaceWith(k.grant.user)
      BY <1>6, <2>2 DEF GetCode
    <3> DEFINE g == k.grant
    <3>2. g \in Grants
      BY DEF TypeOK, CodeRows
    <3>7. job' = [job EXCEPT ![r].grant = g]
      BY <3>1
    <3> HIDE DEF g
    <3>3. job' \in [Requests -> Jobs]
      BY <3>7, <3>2 DEF TypeOK, Jobs
    <3>4. TypeOK'
      BY <1>6, <3>1, <3>3, RaceType DEF GetCode, GoTo, TypeOK, Steps
    <3>5. job[r].client \in Clients /\ job[r].kind \in Kinds
      BY <1>6 DEF GetCode, JobsOK
    <3>6. JobsOK'
      BY <3>7, <3>1, <3>2, <3>5 DEF GoTo, TypeOK, JobsOK, Holding, Jobs
    <3> QED
      BY <3>4, <3>6
  <2> QED
    BY <2>1, <2>2
<1>7. CASE RemoveCode(r) \/ UsedRefreshToken(r)
  <2>1. TypeOK'
    BY <1>7 DEF RemoveCode, UsedRefreshToken, GoTo, TypeOK, Steps
  <2>2. JobsOK'
    BY <1>7 DEF RemoveCode, UsedRefreshToken, GoTo, TypeOK, JobsOK, Holding
  <2> QED
    BY <2>1, <2>2
<1>8. CASE GetRefreshToken(r)
  <2>1. CASE Return(r) /\ UNCHANGED event
    BY <1>8, <2>1, ReturnType DEF GetRefreshToken, TypeOK
  <2>2. CASE ~(Return(r) /\ UNCHANGED event)
    <3>1. PICK t \in refreshTokens, s \in {"usedRefreshToken", "insertAccess"} :
            /\ job' = [job EXCEPT ![r].grant =
                         [t.grant EXCEPT !.scope = job[r].scope,
                                         !.offline = FALSE]]
            /\ GoTo(r, s)
            /\ event' = RaceWith(t.grant.user)
      BY <1>8, <2>2 DEF GetRefreshToken
    <3> DEFINE g == [t.grant EXCEPT !.scope = job[r].scope, !.offline = FALSE]
    <3>2. g \in Grants
      BY DEF TypeOK, RefreshRows, Grants, Jobs
    <3>7. job' = [job EXCEPT ![r].grant = g]
      BY <3>1
    <3> HIDE DEF g
    <3>3. job' \in [Requests -> Jobs]
      BY <3>7, <3>2 DEF TypeOK, Jobs
    <3>4. TypeOK'
      BY <1>8, <3>1, <3>3, RaceType DEF GetRefreshToken, GoTo, TypeOK, Steps
    <3>5. job[r].client \in Clients /\ job[r].kind \in Kinds
      BY <1>8 DEF GetRefreshToken, JobsOK
    <3>6. JobsOK'
      BY <3>7, <3>1, <3>2, <3>5 DEF GoTo, TypeOK, JobsOK, Holding, Jobs
    <3> QED
      BY <3>4, <3>6
  <2> QED
    BY <2>1, <2>2
<1>9. CASE InsertAccess(r)
  <2>1. job[r].grant \in Grants /\ job[r].client \in Clients /\ job[r].kind \in Kinds
    BY <1>9 DEF InsertAccess, JobsOK, Holding
  <2>2. Receipt(job[r]) \in Receipts
    BY <2>1 DEF Receipt, Receipts, TypeOK, Jobs
  <2>3. tokens' \subseteq AccessRows /\ nextId' \in Nat \ {0}
    BY <1>9, <2>1, <2>2 DEF InsertAccess, Fresh, AccessRows, TypeOK
  <2>4. CASE Return(r)
    BY <1>9, <2>3, <2>4, ReturnType DEF InsertAccess, TypeOK
  <2>5. CASE GoTo(r, "insertRefresh") /\ UNCHANGED job
    <3>1. TypeOK'
      BY <1>9, <2>3, <2>5 DEF InsertAccess, GoTo, TypeOK, Steps
    <3>2. JobsOK'
      BY <2>1, <2>5 DEF GoTo, TypeOK, JobsOK, Holding
    <3> QED
      BY <3>1, <3>2
  <2> QED
    BY <1>9, <2>4, <2>5 DEF InsertAccess
<1>10. CASE InsertRefresh(r)
  <2>1. job[r].grant \in Grants
    BY <1>10 DEF InsertRefresh, JobsOK, Holding
  <2>2. refreshTokens' \subseteq RefreshRows /\ nextId' \in Nat \ {0}
    BY <1>10, <2>1 DEF InsertRefresh, Fresh, RefreshRows, TypeOK
  <2> QED
    BY <1>10, <2>2, ReturnType DEF InsertRefresh, TypeOK
<1>11. CASE GetToken(r)
  <2>1. CASE Return(r)
    BY <1>11, <2>1, ReturnType DEF GetToken, TypeOK
  <2>2. CASE GoTo(r, "removeToken") /\ UNCHANGED job
    <3>1. TypeOK'
      BY <1>11, <2>2 DEF GetToken, GoTo, TypeOK, Steps
    <3>2. JobsOK'
      BY <2>2 DEF GoTo, TypeOK, JobsOK, Holding
    <3> QED
      BY <3>1, <3>2
  <2> QED
    BY <1>11, <2>1, <2>2 DEF GetToken
<1>12. CASE RemoveToken(r)
  <2>1. tokens' \subseteq AccessRows /\ refreshTokens' \subseteq RefreshRows
    BY <1>12 DEF RemoveToken, TypeOK
  <2> QED
    BY <1>12, <2>1, ReturnType DEF RemoveToken, TypeOK
<1>13. CASE \E table \in Tables : RevokeTable(r, table) \/ RevokeTableFails(r, table)
  <2>1. PICK table \in Tables : RevokeTable(r, table) \/ RevokeTableFails(r, table)
    BY <1>13
  <2>2. /\ codes' \subseteq CodeRows
        /\ tokens' \subseteq AccessRows
        /\ refreshTokens' \subseteq RefreshRows
    BY <2>1 DEF RevokeTable, RevokeTableFails, TypeOK
  <2>3. job' \in [Requests -> Jobs]
    BY <2>1 DEF RevokeTable, RevokeTableFails, TypeOK, Jobs
  <2>4. TypeOK'
    BY <2>1, <2>2, <2>3 DEF RevokeTable, RevokeTableFails, TypeOK
  <2>5. JobsOK'
    BY <2>1 DEF RevokeTable, RevokeTableFails, TypeOK, JobsOK, Holding, Jobs
  <2> QED
    BY <2>4, <2>5
<1>14. CASE RevokeEnds(r) \/ Fail(r)
  BY <1>14, ReturnType DEF RevokeEnds, Fail, TypeOK
<1> QED
  BY <1>1, <1>2, <1>3, <1>4, <1>5, <1>6, <1>7, <1>8, <1>9, <1>10, <1>11, <1>12,
     <1>13, <1>14 DEF RequestStep

\* The steps of the event handlers and of the world leave requests alone.
LEMMA OtherType ==
  ASSUME TypeInv, Next, ~ \E r \in Requests : RequestStep(r)
  PROVE  TypeInv'
<1> USE DEF TypeInv
<1>1. ASSUME NEW e \in Events, HandlerStep(e) \/ Redeliver(e)
      PROVE  TypeInv'
  <2>1. event' \in [Events -> EventRecords]
    BY <1>1 DEF HandlerStep, Deliver, RevokeAccessTokens, RevokeRefreshTokens,
                RevokeCodes, Redeliver, TypeOK, EventRecords, Running
  <2>2. /\ codes' \subseteq codes
        /\ tokens' \subseteq tokens
        /\ refreshTokens' \subseteq refreshTokens
        /\ UNCHANGED <<lapsed, clients, nextId, at, job, active>>
    BY <1>1 DEF HandlerStep, Deliver, RevokeAccessTokens, RevokeRefreshTokens,
                RevokeCodes, Redeliver
  <2> QED
    BY <2>1, <2>2 DEF TypeOK, JobsOK
<1>2. ASSUME NEW e \in Events, NEW u \in Users, NEW k \in EventKinds, Notify(e, u, k)
      PROVE  TypeInv'
  <2>3. [event[e] EXCEPT !.status = "queued", !.user = u, !.kind = k]
          \in EventRecords
    BY DEF TypeOK, EventRecords
  <2>1. event' \in [Events -> EventRecords]
    BY <1>2, <2>3 DEF Notify, TypeOK
  <2> QED
    BY <1>2, <2>1 DEF Notify, TypeOK, JobsOK
<1>3. ASSUME NEW u \in Users, DeleteAccount(u)
      PROVE  TypeInv'
  BY <1>3 DEF DeleteAccount, TypeOK, JobsOK
<1>4. ASSUME NEW c \in Clients, RemoveClient(c)
      PROVE  TypeInv'
  BY <1>4 DEF RemoveClient, TypeOK, JobsOK
<1>5. ASSUME Lapse
      PROVE  TypeInv'
  BY <1>5 DEF Lapse, TypeOK, JobsOK, CodeRows
<1> QED
  BY <1>1, <1>2, <1>3, <1>4, <1>5 DEF Next, OtherStep

\* Every variable stays within its type: in particular, whatever the order of
\* the requests' statements, no row is inserted that does not hold a grant.
THEOREM TypeCorrect == Spec => []TypeOK
<1>1. Init => TypeInv
  BY InitType
<1>2. TypeInv /\ [Next]_vars => TypeInv'
  <2> SUFFICES ASSUME TypeInv, [Next]_vars PROVE TypeInv'
    OBVIOUS
  <2>1. CASE UNCHANGED vars
    BY <2>1 DEF vars, TypeInv, TypeOK, JobsOK
  <2> QED
    BY <2>1, RequestType, OtherType
<1>3. TypeInv => TypeOK
  BY DEF TypeInv
<1> QED
  BY <1>1, <1>2, <1>3, PTL DEF Spec

-----------------------------------------------------------------------------
(* What the grant of a request may be.                                     *)

\* A request that holds a grant, or will look one up, does not stay out of the
\* way of the invariants below at these positions.
Bystander == {"idle", "getToken", "removeToken", "revoke"}

\* A step that inserts no row, and in which every request keeps what it has or
\* is at a statement for which its grant does not matter.
Frame ==
  /\ codes' \subseteq codes
  /\ tokens' \subseteq tokens
  /\ refreshTokens' \subseteq refreshTokens
  /\ \A q \in Requests :
       at'[q] \in Bystander \/ (at'[q] = at[q] /\ job'[q] = job[q])

\* The steps that carry a grant from one place to another.
CarryGrant(r) ==
  \/ ArriveWithAssertion(r) \/ ArriveWithCredential(r)
  \/ GetClient(r) /\ GoTo(r, FirstStatement(job[r].kind)) /\ Accepts(job[r])
                  /\ UNCHANGED job
  \/ InsertCode(r)
  \/ GetCode(r) /\ \E k \in codes :
       /\ Redeems(job[r], k)
       /\ job' = [job EXCEPT ![r].grant = k.grant]
       /\ GoTo(r, "removeCode")
  \/ RemoveCode(r) \/ UsedRefreshToken(r)
  \/ GetRefreshToken(r) /\ \E t \in refreshTokens :
       /\ Refreshes(job[r], t)
       /\ job' = [job EXCEPT ![r].grant = [t.grant EXCEPT !.scope = job[r].scope,
                                                          !.offline = FALSE]]
       /\ \E s \in {"usedRefreshToken", "insertAccess"} : GoTo(r, s)
  \/ InsertAccess(r) \/ InsertRefresh(r)

LEMMA ReturnFrames ==
  ASSUME TypeInv, NEW r \in Requests, Return(r)
  PROVE  \A q \in Requests :
           at'[q] \in Bystander \/ (at'[q] = at[q] /\ job'[q] = job[q])
BY DEF Return, Bystander, TypeInv, TypeOK

\* Every step of a request carries a grant or leaves the grants alone.
LEMMA RequestFrames ==
  ASSUME TypeInv, NEW r \in Requests, RequestStep(r)
  PROVE  CarryGrant(r) \/ Frame
<1>1. CASE ArriveToDestroy(r) \/ ArriveToRevoke(r)
  <2>1. \E s \in {"getToken", "revoke"} : at' = [at EXCEPT ![r] = s]
    BY <1>1 DEF ArriveToDestroy, ArriveToRevoke, Arrive
  <2>2. \A q \in Requests \ {r} : job'[q] = job[q]
    BY <1>1 DEF ArriveToDestroy, ArriveToRevoke, Arrive, TypeInv, TypeOK
  <2> QED
    BY <1>1, <2>1, <2>2 DEF ArriveToDestroy, ArriveToRevoke, Frame, Bystander,
                            TypeInv, TypeOK
<1>2. CASE GetClient(r)
  <2>1. CASE Return(r)
    BY <1>2, <2>1, ReturnFrames DEF GetClient, Frame
  <2>2. CASE /\ Accepts(job[r])
             /\ GoTo(r, FirstStatement(job[r].kind))
             /\ UNCHANGED job
    BY <1>2, <2>2 DEF CarryGrant
  <2> QED
    BY <1>2, <2>1, <2>2 DEF GetClient
<1>3. CASE GetCode(r)
  <2>1. CASE Return(r)
    BY <1>3, <2>1, ReturnFrames DEF GetCode, Frame
  <2> QED
    BY <1>3, <2>1 DEF GetCode, CarryGrant
<1>4. CASE GetRefreshToken(r)
  <2>1. CASE Return(r)
    BY <1>4, <2>1, ReturnFrames DEF GetRefreshToken, Frame
  <2>2. CASE ~Return(r)
    BY <1>4, <2>2 DEF GetRefreshToken, CarryGrant
  <2> QED
    BY <2>1, <2>2
<1>5. CASE GetToken(r)
  <2>1. CASE Return(r)
    BY <1>5, <2>1, ReturnFrames DEF GetToken, Frame
  <2>2. CASE GoTo(r, "removeToken") /\ UNCHANGED job
    BY <1>5, <2>2 DEF GetToken, GoTo, Frame, Bystander, TypeInv, TypeOK
  <2> QED
    BY <1>5, <2>1, <2>2 DEF GetToken
<1>6. CASE RemoveToken(r)
  BY <1>6, ReturnFrames DEF RemoveToken, Frame
<1>7. CASE \E table \in Tables : RevokeTable(r, table) \/ RevokeTableFails(r, table)
  <2>1. PICK table \in Tables : RevokeTable(r, table) \/ RevokeTableFails(r, table)
    BY <1>7
  <2>2. \A q \in Requests :
          at'[q] \in Bystander \/ (at'[q] = at[q] /\ job'[q] = job[q])
    BY <2>1 DEF RevokeTable, RevokeTableFails, Bystander, TypeInv, TypeOK
  <2> QED
    BY <2>1, <2>2 DEF RevokeTable, RevokeTableFails, Frame
<1>8. CASE RevokeEnds(r) \/ Fail(r)
  BY <1>8, ReturnFrames DEF RevokeEnds, Fail, Frame
<1> QED
  BY <1>1, <1>2, <1>3, <1>4, <1>5, <1>6, <1>7, <1>8 DEF RequestStep, CarryGrant

\* So does every other step.
LEMMA OtherFrames ==
  ASSUME TypeInv, [Next]_vars, ~ \E r \in Requests : RequestStep(r)
  PROVE  Frame
<1>1. ASSUME NEW e \in Events, HandlerStep(e) \/ Redeliver(e)
      PROVE  Frame
  BY <1>1 DEF HandlerStep, Deliver, RevokeAccessTokens, RevokeRefreshTokens,
              RevokeCodes, Redeliver, Frame
<1> QED
  BY <1>1 DEF Next, OtherStep, vars, Notify, DeleteAccount, RemoveClient, Lapse, Frame

\* The grant of a request at each of its statements: what the request asks for
\* to begin with, and within an approval once validateRequestedGrant or the row
\* it was read from has vouched for it.
JobGrantsOK ==
  \A r \in Requests :
    /\ at[r] = "getClient" /\ job[r].kind \in AssertionKinds =>
         /\ job[r].grant.user = job[r].grant.origin.user
         /\ job[r].grant.client = job[r].grant.origin.client
         /\ job[r].grant.scope \subseteq job[r].grant.origin.scope
    /\ at[r] \in Holding => WithinApproval(job[r].grant)

GrantInv == TypeInv /\ GrantsStayWithinApproval /\ JobGrantsOK

LEMMA GrantStep ==
  ASSUME GrantInv, NEW r \in Requests, CarryGrant(r), TypeInv'
  PROVE  GrantsStayWithinApproval' /\ JobGrantsOK'
<1> USE DEF GrantInv, TypeInv, TypeOK, GrantsStayWithinApproval, JobGrantsOK, Rows
<1>1. CASE ArriveWithAssertion(r)
  <2> PICK k \in AssertionKinds, o \in Origins, off \in BOOLEAN, p \in Proofs :
        /\ Arrive(r, [NoJob EXCEPT !.kind = k, !.client = o.client, !.proof = p,
                        !.grant = [user |-> o.user, client |-> o.client,
                                   scope |-> o.scope, offline |-> off,
                                   origin |-> o, asked |-> nextId]],
                  "getClient")
        /\ event' = RaceWith(o.user)
    BY <1>1, AssertionArrives
  <2>1. /\ at' = [at EXCEPT ![r] = "getClient"]
        /\ \A q \in Requests \ {r} : job'[q] = job[q]
        /\ job'[r].grant.user = job'[r].grant.origin.user
        /\ job'[r].grant.client = job'[r].grant.origin.client
        /\ job'[r].grant.scope \subseteq job'[r].grant.origin.scope
    BY DEF Arrive, NoJob
  <2> QED
    BY <1>1, <2>1 DEF ArriveWithAssertion, Holding, WithinApproval
<1>2. CASE ArriveWithCredential(r)
  <2>1. /\ at' = [at EXCEPT ![r] = "getClient"]
        /\ \A q \in Requests \ {r} : job'[q] = job[q]
        /\ job'[r].kind \in ExchangeKinds
    BY <1>2 DEF ArriveWithCredential, Arrive, NoJob
  <2> QED
    BY <1>2, <2>1 DEF ArriveWithCredential, Holding, AssertionKinds,
                      ExchangeKinds, WithinApproval
<1>3. CASE /\ GetClient(r) /\ GoTo(r, FirstStatement(job[r].kind))
           /\ Accepts(job[r]) /\ UNCHANGED job
  <2>1. FirstStatement(job[r].kind) # "getClient"
    BY DEF FirstStatement
  <2>2. job[r].kind \in AssertionKinds => WithinApproval(job[r].grant)
    BY <1>3 DEF GetClient, Accepts, WithinApproval, AssertionKinds
  <2>3. FirstStatement(job[r].kind) \in Holding => job[r].kind \in AssertionKinds
    BY <1>3 DEF FirstStatement, Holding, GetClient, JobsOK, AssertionKinds,
                ExchangeKinds
  <2> QED
    BY <1>3, <2>1, <2>2, <2>3 DEF GetClient, GoTo, WithinApproval
<1>4. CASE InsertCode(r)
  <2>1. WithinApproval(job[r].grant)
    BY <1>4 DEF InsertCode, Holding
  <2> QED
    BY <1>4, <2>1 DEF InsertCode, Return, Holding, WithinApproval, NoJob
<1>5. CASE /\ GetCode(r)
           /\ \E k \in codes : /\ Redeems(job[r], k)
                              /\ job' = [job EXCEPT ![r].grant = k.grant]
                              /\ GoTo(r, "removeCode")
  <2> PICK k \in codes : /\ job' = [job EXCEPT ![r].grant = k.grant]
                         /\ GoTo(r, "removeCode")
    BY <1>5
  <2>1. WithinApproval(k.grant)
    OBVIOUS
  <2>2. job'[r].grant = k.grant /\ at'[r] = "removeCode"
    BY DEF GoTo, Jobs
  <2>3. \A q \in Requests \ {r} : job'[q] = job[q] /\ at'[q] = at[q]
    BY DEF GoTo
  <2> QED
    BY <1>5, <2>1, <2>2, <2>3 DEF GetCode, WithinApproval
<1>6. CASE RemoveCode(r) \/ UsedRefreshToken(r)
  BY <1>6 DEF RemoveCode, UsedRefreshToken, GoTo, Holding, WithinApproval
<1>7. CASE /\ GetRefreshToken(r)
           /\ \E t \in refreshTokens :
                /\ Refreshes(job[r], t)
                /\ job' = [job EXCEPT ![r].grant =
                             [t.grant EXCEPT !.scope = job[r].scope,
                                             !.offline = FALSE]]
                /\ \E s \in {"usedRefreshToken", "insertAccess"} : GoTo(r, s)
  <2> PICK t \in refreshTokens, s \in {"usedRefreshToken", "insertAccess"} :
        /\ Refreshes(job[r], t)
        /\ job' = [job EXCEPT ![r].grant = [t.grant EXCEPT !.scope = job[r].scope,
                                                           !.offline = FALSE]]
        /\ GoTo(r, s)
    BY <1>7
  <2> DEFINE g == [t.grant EXCEPT !.scope = job[r].scope, !.offline = FALSE]
  <2>1. /\ g.user = t.grant.user
        /\ g.client = t.grant.client
        /\ g.scope = job[r].scope
        /\ g.origin = t.grant.origin
    BY DEF RefreshRows, Grants
  <2>2. WithinApproval(g)
    BY <2>1 DEF WithinApproval, Refreshes
  <2>3. job'[r].grant = g /\ at'[r] = s
    BY DEF GoTo, Jobs
  <2>4. \A q \in Requests \ {r} : job'[q] = job[q] /\ at'[q] = at[q]
    BY DEF GoTo
  <2> HIDE DEF g
  <2>5. GrantsStayWithinApproval'
    BY <1>7 DEF GetRefreshToken, WithinApproval
  <2>6. JobGrantsOK'
    <3> SUFFICES ASSUME NEW q \in Requests
                 PROVE  (/\ at[q] = "getClient" /\ job[q].kind \in AssertionKinds =>
                              /\ job[q].grant.user = job[q].grant.origin.user
                              /\ job[q].grant.client = job[q].grant.origin.client
                              /\ job[q].grant.scope \subseteq job[q].grant.origin.scope
                         /\ at[q] \in Holding => WithinApproval(job[q].grant))'
      OBVIOUS
    <3>1. CASE q = r
      BY <2>2, <2>3, <3>1 DEF WithinApproval
    <3>2. CASE q # r
      BY <2>4, <3>2 DEF WithinApproval
    <3> QED
      BY <3>1, <3>2
  <2> QED
    BY <2>5, <2>6
<1>8. CASE InsertAccess(r)
  <2>1. WithinApproval(job[r].grant)
    BY <1>8 DEF InsertAccess, Holding
  <2>2. \A t \in tokens' : t \in tokens \/ t.grant = job[r].grant
    BY <1>8 DEF InsertAccess
  <2>3. GrantsStayWithinApproval'
    BY <1>8, <2>1, <2>2 DEF InsertAccess, WithinApproval
  <2>4. JobGrantsOK'
    BY <1>8, <2>1 DEF InsertAccess, Return, GoTo, Holding, WithinApproval
  <2> QED
    BY <2>3, <2>4
<1>9. CASE InsertRefresh(r)
  <2>1. WithinApproval(job[r].grant)
    BY <1>9 DEF InsertRefresh, Holding
  <2> QED
    BY <1>9, <2>1 DEF InsertRefresh, Return, Holding, WithinApproval
<1> QED
  BY <1>1, <1>2, <1>3, <1>4, <1>5, <1>6, <1>7, <1>8, <1>9 DEF CarryGrant

\* No grant escalates, for any number of users, clients, scopes and requests in
\* flight: every code, token and refreshed token is within the approval at its
\* root, and that approval met the rules of validateRequestedGrant.
THEOREM NoEscalation == Spec => []GrantsStayWithinApproval
<1>1. Init => GrantInv
  BY InitType DEF Init, GrantInv, GrantsStayWithinApproval, JobGrantsOK, Rows,
                  Holding
<1>2. GrantInv /\ [Next]_vars => GrantInv'
  <2> SUFFICES ASSUME GrantInv, [Next]_vars PROVE GrantInv'
    OBVIOUS
  <2>1. TypeInv'
    <3>1. CASE UNCHANGED vars
      BY <3>1 DEF vars, GrantInv, TypeInv, TypeOK, JobsOK
    <3> QED
      BY <3>1, RequestType, OtherType DEF GrantInv
  <2>2. CASE Frame
    BY <2>1, <2>2 DEF Frame, Bystander, Holding, GrantInv, JobGrantsOK, Rows,
                      GrantsStayWithinApproval, WithinApproval
  <2>3. CASE \E r \in Requests : CarryGrant(r)
    BY <2>1, <2>3, GrantStep DEF GrantInv
  <2> QED
    BY <2>2, <2>3, RequestFrames, OtherFrames DEF GrantInv
<1>3. GrantInv => GrantsStayWithinApproval
  BY DEF GrantInv
<1> QED
  BY <1>1, <1>2, <1>3, PTL DEF Spec

-----------------------------------------------------------------------------
(* What an account event has revoked.                                      *)

\* Row t of the message's user was inserted after the handler last started.
Spared(e, t) == Revokes(e, t) => t.id >= event[e].horizon

\* What has been revoked when only the later statements are still to come.
RevokedSoFar(e) ==
  event[e].kind # "other" =>
    /\ event[e].status \in {"refreshTokens", "codes", "done"} =>
         \A t \in tokens : Spared(e, t)
    /\ event[e].status \in {"codes", "done"} =>
         \A t \in refreshTokens : Spared(e, t)
    /\ event[e].status = "done" /\ event[e].kind = "delete" =>
         \A t \in codes : Spared(e, t)

RevokeInv ==
  /\ TypeInv
  /\ \A e \in Events : event[e].horizon <= nextId /\ RevokedSoFar(e)

\* A step of the rest of the system, seen by a handler: rows go, and rows come
\* under ids not used before.
Grow ==
  /\ \A t \in codes' : t \in codes \/ t.id = nextId
  /\ \A t \in tokens' : t \in tokens \/ t.id = nextId
  /\ \A t \in refreshTokens' : t \in refreshTokens \/ t.id = nextId
  /\ nextId' \in {nextId, nextId + 1}
  /\ clients' \subseteq clients
  /\ \A e \in Events : /\ event'[e].status = event[e].status
                       /\ event'[e].user = event[e].user
                       /\ event'[e].kind = event[e].kind
                       /\ event'[e].horizon = event[e].horizon

LEMMA RaceGrows ==
  ASSUME TypeInv, NEW u, event' = RaceWith(u)
  PROVE  \A e \in Events : /\ event'[e].status = event[e].status
                          /\ event'[e].user = event[e].user
                          /\ event'[e].kind = event[e].kind
                          /\ event'[e].horizon = event[e].horizon
BY DEF RaceWith, TypeInv, TypeOK, EventRecords

LEMMA RequestGrows ==
  ASSUME TypeInv, NEW r \in Requests, RequestStep(r)
  PROVE  Grow
<1>1. CASE ArriveWithAssertion(r)
  BY <1>1, RaceGrows DEF ArriveWithAssertion, Grow
<1>2. CASE GetCode(r)
  BY <1>2, RaceGrows DEF GetCode, Grow
<1>3. CASE GetRefreshToken(r)
  BY <1>3, RaceGrows DEF GetRefreshToken, Grow
<1>4. CASE InsertCode(r) \/ InsertAccess(r) \/ InsertRefresh(r)
  BY <1>4 DEF InsertCode, InsertAccess, InsertRefresh, Fresh, Grow
<1>5. CASE RemoveCode(r) \/ UsedRefreshToken(r) \/ RemoveToken(r) \/ Fail(r)
  BY <1>5 DEF RemoveCode, UsedRefreshToken, RemoveToken, Fail, Grow
<1>6. CASE \E table \in Tables : RevokeTable(r, table) \/ RevokeTableFails(r, table)
  BY <1>6 DEF RevokeTable, RevokeTableFails, Grow
<1>7. CASE ArriveWithCredential(r) \/ ArriveToDestroy(r) \/ ArriveToRevoke(r)
           \/ GetClient(r) \/ GetToken(r) \/ RevokeEnds(r)
  BY <1>7 DEF ArriveWithCredential, ArriveToDestroy, ArriveToRevoke, GetClient,
              GetToken, RevokeEnds, Grow
<1> QED
  BY <1>1, <1>2, <1>3, <1>4, <1>5, <1>6, <1>7 DEF RequestStep

LEMMA GrowPreserves ==
  ASSUME RevokeInv, Grow, TypeInv'
  PROVE  RevokeInv'
<1> SUFFICES ASSUME NEW e \in Events
             PROVE  event'[e].horizon <= nextId' /\ RevokedSoFar(e)'
  BY DEF RevokeInv
<1>1. event[e].horizon \in Nat /\ nextId \in Nat /\ event[e].horizon <= nextId
  BY DEF RevokeInv, TypeInv, TypeOK, EventRecords
<1>2. event'[e].horizon <= nextId'
  BY <1>1 DEF Grow
<1>3. \A t : Revokes(e, t)' => Revokes(e, t)
  BY DEF Grow, Revokes
<1>4. \A t : Spared(e, t) \/ t.id = nextId => Spared(e, t)'
  BY <1>1, <1>3 DEF Grow, Spared
<1>5. RevokedSoFar(e)'
  BY <1>4 DEF RevokeInv, RevokedSoFar, Grow
<1> QED
  BY <1>2, <1>5

\* The steps of the handlers themselves.
LEMMA HandlerPreserves ==
  ASSUME RevokeInv, NEW f \in Events, TypeInv',
         \/ HandlerStep(f) \/ Redeliver(f)
         \/ \E u \in Users, k \in EventKinds : Notify(f, u, k)
  PROVE  RevokeInv'
<1> SUFFICES ASSUME NEW e \in Events
             PROVE  event'[e].horizon <= nextId' /\ RevokedSoFar(e)'
  BY DEF RevokeInv
<1>1. event[e] \in EventRecords /\ nextId \in Nat /\ event \in [Events -> EventRecords]
  BY DEF RevokeInv, TypeInv, TypeOK
<1>2. event[e].horizon <= nextId /\ RevokedSoFar(e)
  BY DEF RevokeInv
<1>3. CASE e # f
  <2>1. event'[e] = event[e] /\ UNCHANGED <<clients, nextId>>
    BY <1>1, <1>3 DEF HandlerStep, Deliver, RevokeAccessTokens,
                      RevokeRefreshTokens, RevokeCodes, Redeliver, Notify
  <2>2. /\ codes' \subseteq codes
        /\ tokens' \subseteq tokens
        /\ refreshTokens' \subseteq refreshTokens
    BY DEF HandlerStep, Deliver, RevokeAccessTokens, RevokeRefreshTokens,
           RevokeCodes, Redeliver, Notify
  <2>3. \A t : Spared(e, t) => Spared(e, t)'
    BY <2>1 DEF Spared, Revokes
  <2> QED
    BY <1>2, <2>1, <2>2, <2>3 DEF RevokedSoFar
<1>4. CASE e = f /\ RevokeAccessTokens(f)
  <2>1. /\ event'[e].status = "refreshTokens"
        /\ event'[e].horizon = event[e].horizon
        /\ event'[e].kind = event[e].kind
        /\ event'[e].user = event[e].user
        /\ UNCHANGED <<clients, nextId>>
    BY <1>1, <1>4 DEF RevokeAccessTokens, EventRecords
  <2>2. \A t \in tokens' : ~Revokes(e, t)
    BY <1>4 DEF RevokeAccessTokens
  <2>3. \A t : Revokes(e, t)' <=> Revokes(e, t)
    BY <2>1 DEF Revokes
  <2>4. \A t \in tokens' : Spared(e, t)'
    BY <2>2, <2>3 DEF Spared
  <2> QED
    BY <1>2, <2>1, <2>4 DEF RevokedSoFar
<1>5. CASE e = f /\ RevokeRefreshTokens(f)
  <2>1. /\ event'[e].status = IF event[e].kind = "delete" THEN "codes" ELSE "done"
        /\ event'[e].horizon = event[e].horizon
        /\ event'[e].kind = event[e].kind
        /\ event'[e].user = event[e].user
        /\ UNCHANGED <<clients, nextId, tokens>>
    BY <1>1, <1>5 DEF RevokeRefreshTokens, EventRecords
  <2>2. \A t \in refreshTokens' : ~Revokes(e, t)
    BY <1>5 DEF RevokeRefreshTokens
  <2>3. \A t : Revokes(e, t)' <=> Revokes(e, t)
    BY <2>1 DEF Revokes
  <2>4. \A t \in refreshTokens' : Spared(e, t)'
    BY <2>2, <2>3 DEF Spared
  <2>5. event[e].kind # "other" => \A t \in tokens' : Spared(e, t)'
    BY <1>2, <1>5, <2>1, <2>3 DEF Spared, RevokedSoFar, RevokeRefreshTokens
  <2> QED
    BY <1>2, <2>1, <2>4, <2>5 DEF RevokedSoFar
<1>6. CASE e = f /\ RevokeCodes(f)
  <2>1. /\ event'[e].status = "done"
        /\ event'[e].horizon = event[e].horizon
        /\ event'[e].kind = event[e].kind
        /\ event'[e].user = event[e].user
        /\ UNCHANGED <<clients, nextId, tokens, refreshTokens>>
    BY <1>1, <1>6 DEF RevokeCodes, EventRecords
  <2>2. \A t \in codes' : ~Revokes(e, t)
    BY <1>6 DEF RevokeCodes
  <2>3. \A t : Revokes(e, t)' <=> Revokes(e, t)
    BY <2>1 DEF Revokes
  <2>4. \A t \in codes' : Spared(e, t)'
    BY <2>2, <2>3 DEF Spared
  <2>5. event[e].kind # "other" =>
          \A t \in tokens' \cup refreshTokens' : Spared(e, t)'
    BY <1>2, <1>6, <2>1, <2>3 DEF Spared, RevokedSoFar, RevokeCodes
  <2> QED
    BY <1>2, <2>1, <2>4, <2>5 DEF RevokedSoFar
<1>7. CASE e = f /\ Deliver(f)
  <2>1. /\ event'[e].kind = event[e].kind
        /\ event'[e].horizon \in {event[e].horizon, nextId}
        /\ \/ event'[e].status = "done" /\ event[e].kind = "other"
           \/ event'[e].status = "tokens"
        /\ UNCHANGED nextId
    BY <1>1, <1>7 DEF Deliver, EventRecords
  <2> QED
    BY <1>1, <1>2, <2>1 DEF RevokedSoFar
<1>8. CASE e = f /\ Redeliver(f)
  <2>1. /\ event'[e].status = "queued"
        /\ event'[e].horizon = event[e].horizon
        /\ UNCHANGED nextId
    BY <1>1, <1>8 DEF Redeliver, EventRecords
  <2> QED
    BY <1>2, <2>1 DEF RevokedSoFar
<1>9. ASSUME e = f, NEW u \in Users, NEW k \in EventKinds, Notify(f, u, k)
      PROVE  event'[e].horizon <= nextId' /\ RevokedSoFar(e)'
  <2>1. /\ event'[e].status = "queued"
        /\ event'[e].horizon = event[e].horizon
        /\ UNCHANGED nextId
    BY <1>1, <1>9 DEF Notify, EventRecords
  <2> QED
    BY <1>2, <2>1 DEF RevokedSoFar
<1> QED
  BY <1>3, <1>4, <1>5, <1>6, <1>7, <1>8, <1>9 DEF HandlerStep

LEMMA RevokeInit == Init => RevokeInv
<1> SUFFICES ASSUME Init PROVE RevokeInv
  OBVIOUS
<1>1. \A e \in Events : event[e].status = "unsent" /\ event[e].horizon = 0
  BY DEF Init
<1> QED
  BY <1>1, InitType DEF Init, RevokeInv, RevokedSoFar

LEMMA RevokeKept == RevokeInv /\ [Next]_vars => RevokeInv'
<1> SUFFICES ASSUME RevokeInv, [Next]_vars PROVE RevokeInv'
  OBVIOUS
<1>1. TypeInv'
  <2>1. CASE UNCHANGED vars
    BY <2>1 DEF vars, RevokeInv, TypeInv, TypeOK, JobsOK
  <2> QED
    BY <2>1, RequestType, OtherType DEF RevokeInv
<1>2. CASE \E r \in Requests : RequestStep(r)
  BY <1>1, <1>2, RequestGrows, GrowPreserves DEF RevokeInv
<1>3. CASE \E f \in Events : \/ HandlerStep(f) \/ Redeliver(f)
                             \/ \E u \in Users, k \in EventKinds : Notify(f, u, k)
  BY <1>1, <1>3, HandlerPreserves
<1>4. CASE \/ UNCHANGED vars \/ Lapse
           \/ \E u \in Users : DeleteAccount(u)
           \/ \E c \in Clients : RemoveClient(c)
  <2>1. Grow
    BY <1>4 DEF vars, Lapse, DeleteAccount, RemoveClient, Grow
  <2> QED
    BY <1>1, <2>1, GrowPreserves
<1> QED
  BY <1>2, <1>3, <1>4 DEF Next, OtherStep

\* Whatever the interleaving with any number of requests and of other messages,
\* and however often the handler is started again: when a message has been
\* handled, what it revokes and what existed when its last handler started is
\* gone.
THEOREM EventsRevoke == Spec => []EventRevokes
<1>1. RevokeInv => EventRevokes
  BY DEF RevokeInv, RevokedSoFar, Spared, EventRevokes, Rows
<1> QED
  BY <1>1, RevokeInit, RevokeKept, PTL DEF Spec

-----------------------------------------------------------------------------
(* Steps of one request among others.                                      *)

LEMMA TypeStep ==
  ASSUME TypeInv, [Next]_vars
  PROVE  TypeInv'
<1>1. CASE UNCHANGED vars
  BY <1>1 DEF vars, TypeInv, TypeOK, JobsOK
<1> QED
  BY <1>1, RequestType, OtherType

\* A request changes no other's position and locals.
LEMMA OthersStay ==
  ASSUME TypeInv, NEW r \in Requests, RequestStep(r)
  PROVE  \A q \in Requests \ {r} : at'[q] = at[q] /\ job'[q] = job[q]
<1> USE DEF TypeInv, TypeOK, Return, GoTo, Arrive
<1>1. ASSUME NEW j, NEW s, Arrive(r, j, s)
      PROVE  \A q \in Requests \ {r} : at'[q] = at[q] /\ job'[q] = job[q]
  BY <1>1
<1>2. CASE ArriveWithAssertion(r)
  <2>1. \E j, s : Arrive(r, j, s)
    BY <1>2, Zenon DEF ArriveWithAssertion
  <2> QED
    BY <1>1, <2>1, Zenon
<1>3. CASE ArriveWithCredential(r)
  <2>1. \E j, s : Arrive(r, j, s)
    BY <1>3, Zenon DEF ArriveWithCredential
  <2> QED
    BY <1>1, <2>1, Zenon
<1>4. CASE ArriveToDestroy(r) \/ ArriveToRevoke(r)
  <2>1. \E j, s : Arrive(r, j, s)
    BY <1>4, Zenon DEF ArriveToDestroy, ArriveToRevoke
  <2> QED
    BY <1>1, <2>1, Zenon
<1>5. CASE GetClient(r) \/ InsertCode(r) \/ RemoveCode(r) \/ UsedRefreshToken(r)
  BY <1>5 DEF GetClient, InsertCode, RemoveCode, UsedRefreshToken
<1>6. CASE GetCode(r) \/ GetRefreshToken(r)
  BY <1>6 DEF GetCode, GetRefreshToken
<1>7. CASE InsertAccess(r) \/ InsertRefresh(r) \/ GetToken(r) \/ RemoveToken(r)
  BY <1>7 DEF InsertAccess, InsertRefresh, GetToken, RemoveToken
<1>8. CASE \E table \in Tables : RevokeTable(r, table) \/ RevokeTableFails(r, table)
  BY <1>8 DEF RevokeTable, RevokeTableFails
<1>9. CASE RevokeEnds(r) \/ Fail(r)
  BY <1>9 DEF RevokeEnds, Fail
<1> QED
  BY <1>2, <1>3, <1>4, <1>5, <1>6, <1>7, <1>8, <1>9 DEF RequestStep

-----------------------------------------------------------------------------
(* To whom a token is given.                                               *)

\* Who trades the code or the refresh token of grant g has shown what it takes.
Proved(j, g) ==
  /\ g.client \notin Publics => j.proof = Secret
  /\ g.client \in Publics /\ j.kind = "exchange" =>
       j.proof = g.origin.challenge /\ j.proof # None

\* The grants of public clients have a challenge, and no others.
Challenged(g) == g.client \in Publics <=> g.origin.challenge # None

\* What was shown when a request is at statement s with locals j.
Shown(s, j) ==
  /\ s = "getClient" /\ j.kind \in AssertionKinds => j.grant.client = j.client
  /\ s = "insertCode" => Challenged(j.grant)
  /\ s = "getCode" => j.kind = "exchange" /\ AuthenticatesClient(j)
  /\ s \in {"getRefreshToken", "usedRefreshToken"} => j.kind = "refresh"
  /\ s = "getRefreshToken" => AuthenticatesClient(j)
  /\ s \in {"removeCode", "usedRefreshToken", "insertAccess"} => j.grant.client = j.client
  /\ s \in {"removeCode", "usedRefreshToken", "insertAccess"} /\ j.kind \in ExchangeKinds =>
       Proved(j, j.grant)

ReachInv ==
  /\ TypeInv
  /\ \A r \in Requests : Shown(at[r], job[r])
  /\ \A k \in codes : Challenged(k.grant)
  /\ TokensReachTheirClient

\* It is enough to know what the step does to the request and which rows it adds.
LEMMA ReachStep ==
  ASSUME ReachInv, TypeInv', NEW r \in Requests, CarryGrant(r), RequestStep(r),
         Shown(at'[r], job'[r]),
         \A k \in codes' : k \in codes \/ Challenged(k.grant),
         tokens' \subseteq tokens
  PROVE  ReachInv'
<1>1. \A q \in Requests : Shown(at'[q], job'[q])
  BY OthersStay DEF ReachInv
<1>2. \A k \in codes' : Challenged(k.grant)
  BY DEF ReachInv
<1>3. TokensReachTheirClient'
  BY DEF ReachInv, TokensReachTheirClient
<1> QED
  BY <1>1, <1>2, <1>3 DEF ReachInv, Shown, Challenged, Proved, AuthenticatesClient

LEMMA CarryReach ==
  ASSUME ReachInv, TypeInv', NEW r \in Requests, CarryGrant(r), RequestStep(r)
  PROVE  ReachInv'
<1>0. Shown(at[r], job[r]) /\ at[r] \in Steps /\ job[r] \in Jobs
  BY DEF ReachInv, TypeInv, TypeOK
<1>1. CASE ArriveWithAssertion(r)
  <2> PICK k \in AssertionKinds, o \in Origins, off \in BOOLEAN, p \in Proofs :
        /\ Arrive(r, [NoJob EXCEPT !.kind = k, !.client = o.client, !.proof = p,
                        !.grant = [user |-> o.user, client |-> o.client,
                                   scope |-> o.scope, offline |-> off,
                                   origin |-> o, asked |-> nextId]],
                  "getClient")
        /\ event' = RaceWith(o.user)
    BY <1>1, AssertionArrives
  <2>1. at'[r] = "getClient" /\ job'[r].grant.client = job'[r].client
    BY DEF Arrive, NoJob, ReachInv, TypeInv, TypeOK
  <2>2. Shown(at'[r], job'[r])
    BY <2>1 DEF Shown
  <2> QED
    BY <1>1, <2>2, ReachStep DEF ArriveWithAssertion
<1>2. CASE ArriveWithCredential(r)
  <2>1. at'[r] = "getClient" /\ job'[r].kind \in ExchangeKinds
    BY <1>2 DEF ArriveWithCredential, Arrive, NoJob, ReachInv, TypeInv, TypeOK
  <2>2. Shown(at'[r], job'[r])
    BY <2>1 DEF Shown, ExchangeKinds, AssertionKinds
  <2> QED
    BY <1>2, <2>2, ReachStep DEF ArriveWithCredential
<1>3. CASE /\ GetClient(r) /\ GoTo(r, FirstStatement(job[r].kind))
           /\ Accepts(job[r]) /\ UNCHANGED job
  <2>1. /\ at[r] = "getClient" /\ at'[r] = FirstStatement(job[r].kind) /\ job'[r] = job[r]
        /\ UNCHANGED <<codes, tokens>>
    BY <1>3 DEF GetClient, GoTo, ReachInv, TypeInv, TypeOK
  <2>2. job[r].kind \in AssertionKinds \cup ExchangeKinds
    BY <2>1 DEF ReachInv, TypeInv, JobsOK
  <2>3. CASE job[r].kind = "authorize"
    <3>1. /\ at'[r] = "insertCode" /\ job[r].grant.client = job[r].client
          /\ job[r].client \in Publics <=> job[r].grant.origin.challenge # None
      BY <1>0, <1>3, <2>1, <2>3 DEF FirstStatement, Accepts, Shown, AssertionKinds
    <3> QED
      BY <2>1, <2>3, <3>1, ReachStep DEF Shown, Challenged
  <2>4. CASE job[r].kind \in {"implicit", "credentials"}
    <3>1. at'[r] = "insertAccess" /\ job[r].grant.client = job[r].client
      BY <1>0, <2>1, <2>4 DEF FirstStatement, Shown, AssertionKinds
    <3> QED
      BY <2>1, <2>4, <3>1, ReachStep DEF Shown, ExchangeKinds
  <2>5. CASE job[r].kind = "exchange"
    <3>1. at'[r] = "getCode" /\ AuthenticatesClient(job[r])
      BY <1>3, <2>1, <2>5 DEF FirstStatement, Accepts
    <3> QED
      BY <2>1, <2>5, <3>1, ReachStep DEF Shown
  <2>6. CASE job[r].kind = "refresh"
    <3>1. at'[r] = "getRefreshToken" /\ AuthenticatesClient(job[r])
      BY <1>3, <2>1, <2>6 DEF FirstStatement, Accepts
    <3> QED
      BY <2>1, <2>6, <3>1, ReachStep DEF Shown
  <2> QED
    BY <2>2, <2>3, <2>4, <2>5, <2>6 DEF AssertionKinds, ExchangeKinds
<1>4. CASE InsertCode(r)
  <2>1. /\ at'[r] = "idle" /\ UNCHANGED tokens
        /\ codes' = codes \cup {[id |-> nextId, grant |-> job[r].grant]}
    BY <1>4 DEF InsertCode, Return, ReachInv, TypeInv, TypeOK
  <2>2. Challenged(job[r].grant)
    BY <1>0, <1>4 DEF InsertCode, Shown
  <2> QED
    BY <2>1, <2>2, ReachStep DEF Shown
<1>5. CASE /\ GetCode(r)
           /\ \E k \in codes : /\ Redeems(job[r], k)
                              /\ job' = [job EXCEPT ![r].grant = k.grant]
                              /\ GoTo(r, "removeCode")
  <2> PICK k \in codes : /\ Redeems(job[r], k)
                         /\ job' = [job EXCEPT ![r].grant = k.grant]
                         /\ GoTo(r, "removeCode")
    BY <1>5
  <2>1. /\ at'[r] = "removeCode" /\ job'[r].grant = k.grant
        /\ job'[r].client = job[r].client /\ job'[r].proof = job[r].proof
        /\ job'[r].kind = job[r].kind
    BY <1>0 DEF GoTo, Jobs, ReachInv, TypeInv, TypeOK
  <2>2. job[r].kind = "exchange" /\ AuthenticatesClient(job[r]) /\ UNCHANGED <<codes, tokens>>
    BY <1>0, <1>5 DEF GetCode, Shown
  <2>3. Challenged(k.grant)
    BY DEF ReachInv
  <2>4. Proved(job[r], k.grant) /\ k.grant.client = job[r].client
    BY <2>2, <2>3 DEF Redeems, Challenged, Proved, AuthenticatesClient
  <2>5. Proved(job'[r], job'[r].grant)
    BY <2>1, <2>4 DEF Proved
  <2> QED
    BY <2>1, <2>2, <2>4, <2>5, ReachStep DEF Shown
<1>6. CASE RemoveCode(r) \/ UsedRefreshToken(r)
  <2>1. /\ at'[r] = "insertAccess" /\ job'[r] = job[r] /\ codes' \subseteq codes /\ UNCHANGED tokens
        /\ at[r] \in {"removeCode", "usedRefreshToken"}
    BY <1>6 DEF RemoveCode, UsedRefreshToken, GoTo, ReachInv, TypeInv, TypeOK
  <2> QED
    BY <1>0, <2>1, ReachStep DEF Shown
<1>7. CASE /\ GetRefreshToken(r)
           /\ \E t \in refreshTokens :
                /\ Refreshes(job[r], t)
                /\ job' = [job EXCEPT ![r].grant =
                             [t.grant EXCEPT !.scope = job[r].scope,
                                             !.offline = FALSE]]
                /\ \E s \in {"usedRefreshToken", "insertAccess"} : GoTo(r, s)
  <2> PICK t \in refreshTokens, s \in {"usedRefreshToken", "insertAccess"} :
        /\ Refreshes(job[r], t)
        /\ job' = [job EXCEPT ![r].grant = [t.grant EXCEPT !.scope = job[r].scope,
                                                           !.offline = FALSE]]
        /\ GoTo(r, s)
    BY <1>7
  <2> DEFINE g == [t.grant EXCEPT !.scope = job[r].scope, !.offline = FALSE]
  <2>1. g.client = t.grant.client
    BY DEF RefreshRows, Grants, ReachInv, TypeInv, TypeOK
  <2> HIDE DEF g
  <2>2. job' = [job EXCEPT ![r].grant = g]
    BY DEF g
  <2>3. /\ at'[r] = s /\ job'[r].grant = g
        /\ job'[r].client = job[r].client /\ job'[r].kind = job[r].kind
        /\ job'[r].proof = job[r].proof
    BY <1>0, <2>2 DEF GoTo, Jobs, ReachInv, TypeInv, TypeOK
  <2>4. /\ job[r].kind = "refresh" /\ AuthenticatesClient(job[r])
        /\ UNCHANGED <<codes, tokens>> /\ t.grant.client = job[r].client
    BY <1>0, <1>7 DEF GetRefreshToken, Shown, Refreshes
  <2>6. Proved(job'[r], job'[r].grant)
    BY <2>1, <2>3, <2>4 DEF Proved, AuthenticatesClient
  <2>5. Shown(at'[r], job'[r])
    BY <2>1, <2>3, <2>4, <2>6 DEF Shown
  <2> QED
    BY <2>4, <2>5, ReachStep
<1>8. CASE InsertAccess(r)
  <2> DEFINE row == [id |-> nextId, grant |-> job[r].grant, receipt |-> Receipt(job[r])]
  <2>1. /\ at[r] = "insertAccess" /\ tokens' = tokens \cup {row} /\ UNCHANGED codes
        /\ at'[r] \in {"idle", "insertRefresh"}
    BY <1>8 DEF InsertAccess, Return, GoTo, ReachInv, TypeInv, TypeOK
  <2>2. /\ row.receipt.client = row.grant.client
        /\ row.receipt.kind \in ExchangeKinds => Proved(row.receipt, row.grant)
        /\ row.receipt.code # 0 => row.receipt.kind = "exchange"
    BY <1>0, <2>1 DEF Shown, Receipt, Proved
  <2> HIDE DEF row
  <2>3. TokensReachTheirClient'
    BY <2>1, <2>2 DEF ReachInv, TokensReachTheirClient, Proved, ExchangeKinds
  <2>4. Shown(at'[r], job'[r])
    BY <2>1 DEF Shown
  <2>5. \A q \in Requests : Shown(at'[q], job'[q])
    BY <2>4, OthersStay DEF ReachInv
  <2> QED
    BY <2>1, <2>3, <2>5 DEF ReachInv, Shown, Challenged, Proved, AuthenticatesClient
<1>9. CASE InsertRefresh(r)
  <2>1. at'[r] = "idle" /\ UNCHANGED <<codes, tokens>>
    BY <1>9 DEF InsertRefresh, Return, ReachInv, TypeInv, TypeOK
  <2> QED
    BY <2>1, ReachStep DEF Shown
<1> QED
  BY <1>1, <1>2, <1>3, <1>4, <1>5, <1>6, <1>7, <1>8, <1>9 DEF CarryGrant

LEMMA FrameReach ==
  ASSUME ReachInv, TypeInv', Frame
  PROVE  ReachInv'
<1>1. ASSUME NEW q \in Requests PROVE Shown(at'[q], job'[q])
  BY DEF Frame, Bystander, Shown, ReachInv
<1>2. TokensReachTheirClient' /\ \A k \in codes' : Challenged(k.grant)
  BY DEF ReachInv, TokensReachTheirClient, Frame
<1> QED
  BY <1>1, <1>2 DEF ReachInv, Shown, Challenged, Proved, AuthenticatesClient

LEMMA ReachKept ==
  ASSUME ReachInv, [Next]_vars
  PROVE  ReachInv'
<1>1. TypeInv /\ TypeInv'
  BY TypeStep DEF ReachInv
<1>2. CASE \E r \in Requests : RequestStep(r)
  BY <1>1, <1>2, CarryReach, FrameReach, RequestFrames
<1>3. CASE ~ \E r \in Requests : RequestStep(r)
  BY <1>1, <1>3, OtherFrames, FrameReach
<1> QED
  BY <1>2, <1>3

\* However codes and tokens are traded, an access token is given to the client
\* it is for: for a code or a refresh token of a confidential client only to who
\* has its secret, for the code of a public client only to who has the verifier.
THEOREM ClientsProve == Spec => []TokensReachTheirClient
<1>1. Init => ReachInv
  BY InitType DEF Init, ReachInv, Shown, TokensReachTheirClient
<1>2. ReachInv /\ [Next]_vars => ReachInv'
  BY ReachKept
<1>3. ReachInv => TokensReachTheirClient
  BY DEF ReachInv
<1> QED
  BY <1>1, <1>2, <1>3, PTL DEF Spec

-----------------------------------------------------------------------------
(* What DELETE /client-tokens has removed.                                 *)

\* Rows go, and rows come under ids not used before.
RowsGrow ==
  /\ \A t \in codes' : t \in codes \/ t.id = nextId
  /\ \A t \in tokens' : t \in tokens \/ t.id = nextId
  /\ \A t \in refreshTokens' : t \in refreshTokens \/ t.id = nextId
  /\ nextId' \in {nextId, nextId + 1}

LEMMA StepGrows ==
  ASSUME TypeInv, [Next]_vars
  PROVE  RowsGrow
<1>1. ASSUME NEW r \in Requests, RequestStep(r)
      PROVE  RowsGrow
  BY <1>1, RequestGrows DEF Grow, RowsGrow
<1>2. ASSUME NEW e \in Events, HandlerStep(e) \/ Redeliver(e)
      PROVE  RowsGrow
  BY <1>2 DEF HandlerStep, Deliver, RevokeAccessTokens, RevokeRefreshTokens,
              RevokeCodes, Redeliver, RowsGrow
<1> QED
  BY <1>1, <1>2 DEF Next, OtherStep, vars, Notify, DeleteAccount, RemoveClient, Lapse, RowsGrow

\* Row t was inserted after the request with locals j began.
Later(j, t) == Deauthorizes(j, t) => t.id >= j.since

\* What is gone once a request has issued the statements it no longer has to.
\* A statement that failed says nothing, which is why `failed` is remembered.
Cleared(r) ==
  at[r] = "revoke" =>
    /\ job[r].since <= nextId
    /\ ~job[r].failed =>
         /\ "codes" \notin job[r].left => \A t \in codes : Later(job[r], t)
         /\ "tokens" \notin job[r].left => \A t \in tokens : Later(job[r], t)
         /\ "refreshTokens" \notin job[r].left =>
              \A t \in refreshTokens : Later(job[r], t)

ClearInv == TypeInv /\ \A r \in Requests : Cleared(r)

\* New rows do not undo what a request has cleared.
LEMMA ClearedStays ==
  ASSUME ClearInv, TypeInv', RowsGrow, NEW r \in Requests,
         at'[r] = "revoke" => at[r] = "revoke" /\ job'[r] = job[r]
  PROVE  Cleared(r)'
<1> SUFFICES ASSUME at'[r] = "revoke" PROVE Cleared(r)'
  BY DEF Cleared
<1>1. at[r] = "revoke" /\ job'[r] = job[r] /\ Cleared(r)
  BY DEF ClearInv
<1>2. job[r].since \in Nat /\ nextId \in Nat
  BY DEF ClearInv, TypeInv, TypeOK, Jobs
<1>3. job[r].since <= nextId /\ job[r].since <= nextId'
  BY <1>1, <1>2 DEF Cleared, RowsGrow
<1>4. \A t : t.id = nextId => Later(job[r], t)
  BY <1>2, <1>3 DEF Later
<1>5. \A t : Later(job[r], t)' <=> Later(job[r], t)
  BY <1>1 DEF Later, Deauthorizes
<1> QED
  BY <1>1, <1>3, <1>4, <1>5 DEF Cleared, RowsGrow

\* The steps that end where the DELETEs are issued.
LEMMA ToRevoke ==
  ASSUME TypeInv, NEW r \in Requests, RequestStep(r), at'[r] = "revoke"
  PROVE  \/ ArriveToRevoke(r)
         \/ \E table \in Tables : RevokeTable(r, table) \/ RevokeTableFails(r, table)
<1> USE DEF TypeInv, TypeOK, Return, GoTo, Arrive
<1>1. ~ArriveWithAssertion(r) /\ ~ArriveWithCredential(r) /\ ~ArriveToDestroy(r)
  BY DEF ArriveWithAssertion, ArriveWithCredential, ArriveToDestroy
<1>2. ~GetClient(r)
  <2>1. FirstStatement(job[r].kind) # "revoke"
    BY DEF FirstStatement
  <2> QED
    BY <2>1 DEF GetClient
<1>3. ~InsertCode(r) /\ ~RemoveCode(r) /\ ~UsedRefreshToken(r)
  BY DEF InsertCode, RemoveCode, UsedRefreshToken
<1>4. ~GetCode(r) /\ ~GetRefreshToken(r)
  BY DEF GetCode, GetRefreshToken
<1>5. ~InsertAccess(r) /\ ~InsertRefresh(r) /\ ~GetToken(r) /\ ~RemoveToken(r)
  BY DEF InsertAccess, InsertRefresh, GetToken, RemoveToken
<1>6. ~RevokeEnds(r) /\ ~Fail(r)
  BY DEF RevokeEnds, Fail
<1> QED
  BY <1>1, <1>2, <1>3, <1>4, <1>5, <1>6 DEF RequestStep

\* One of the DELETEs: it removes every row of its table that it covers.
LEMMA TableCleared ==
  ASSUME ClearInv, TypeInv', NEW r \in Requests, NEW table \in Tables,
         RevokeTable(r, table) \/ RevokeTableFails(r, table)
  PROVE  Cleared(r)'
<1>1. at[r] = "revoke" /\ job[r] \in Jobs /\ Cleared(r)
  BY DEF ClearInv, TypeInv, TypeOK, RevokeTable, RevokeTableFails
<1>2. job[r].since <= nextId /\ UNCHANGED nextId
  BY <1>1 DEF Cleared, RevokeTable, RevokeTableFails
<1>3. CASE RevokeTableFails(r, table)
  <2>1. job'[r].failed /\ job'[r].since = job[r].since
    BY <1>1, <1>3 DEF RevokeTableFails, Jobs, ClearInv, TypeInv, TypeOK
  <2> QED
    BY <1>2, <2>1 DEF Cleared
<1>4. CASE RevokeTable(r, table)
  <2>1. /\ job'[r].left = job[r].left \ {table}
        /\ job'[r].since = job[r].since
        /\ job'[r].failed => job[r].failed
        /\ job[r].failed => job'[r].failed
        /\ job'[r].client = job[r].client
        /\ job'[r].user = job[r].user
    BY <1>1, <1>4 DEF RevokeTable, Jobs, ClearInv, TypeInv, TypeOK
  <2>2. \A t : Later(job[r], t)' <=> Later(job[r], t)
    BY <2>1 DEF Later, Deauthorizes
  <2>3. \A t : ~Deauthorizes(job[r], t) => Later(job[r], t)
    BY DEF Later
  <2>4. /\ codes' \subseteq codes /\ tokens' \subseteq tokens
        /\ refreshTokens' \subseteq refreshTokens
        /\ table = "codes" => \A t \in codes' : ~Deauthorizes(job[r], t)
        /\ table = "tokens" => \A t \in tokens' : ~Deauthorizes(job[r], t)
        /\ table = "refreshTokens" => \A t \in refreshTokens' : ~Deauthorizes(job[r], t)
    BY <1>4 DEF RevokeTable
  <2> QED
    BY <1>1, <1>2, <2>1, <2>2, <2>3, <2>4 DEF Cleared
<1> QED
  BY <1>3, <1>4

\* Only requests move requests.
LEMMA OtherKeepsJobs ==
  ASSUME TypeInv, [Next]_vars, ~ \E r \in Requests : RequestStep(r)
  PROVE  UNCHANGED <<at, job>>
<1>1. ASSUME NEW e \in Events, HandlerStep(e) \/ Redeliver(e)
      PROVE  UNCHANGED <<at, job>>
  BY <1>1 DEF HandlerStep, Deliver, RevokeAccessTokens, RevokeRefreshTokens,
              RevokeCodes, Redeliver
<1> QED
  BY <1>1 DEF Next, OtherStep, vars, Notify, DeleteAccount, RemoveClient, Lapse

\* DELETE /client-tokens answers with success only when nothing is left of what
\* the client had been granted when it began, whatever ran between its DELETEs.
THEOREM DeauthorizationCompletes == Spec => []DeauthorizationIsComplete
<1>1. Init => ClearInv
  BY InitType DEF Init, ClearInv, Cleared
<1>2. ClearInv /\ [Next]_vars => ClearInv'
  <2> SUFFICES ASSUME ClearInv, [Next]_vars PROVE ClearInv'
    OBVIOUS
  <2>1. TypeInv /\ TypeInv' /\ RowsGrow
    BY TypeStep, StepGrows DEF ClearInv
  <2> SUFFICES ASSUME NEW q \in Requests PROVE Cleared(q)'
    BY <2>1 DEF ClearInv
  <2>2. CASE \E r \in Requests : RequestStep(r)
    <3> PICK r \in Requests : RequestStep(r)
      BY <2>2
    <3>1. CASE q # r \/ at'[q] # "revoke"
      BY <2>1, <3>1, OthersStay, ClearedStays
    <3>2. CASE q = r /\ ArriveToRevoke(r)
      <4> PICK u \in Users, c \in Clients :
            Arrive(r, [NoJob EXCEPT !.kind = "revoke", !.user = u, !.client = c,
                         !.left = Tables, !.since = nextId], "revoke")
        BY <3>2 DEF ArriveToRevoke
      <4>1. job'[r].left = Tables /\ job'[r].since = nextId /\ UNCHANGED nextId
        BY <2>1, <3>2 DEF Arrive, ArriveToRevoke, NoJob, TypeInv, TypeOK
      <4>2. nextId <= nextId
        BY <2>1 DEF TypeInv, TypeOK
      <4> QED
        BY <3>2, <4>1, <4>2 DEF Cleared, Tables
    <3>3. CASE q = r /\ \E table \in Tables : RevokeTable(r, table) \/ RevokeTableFails(r, table)
      BY <2>1, <3>3, TableCleared
    <3> QED
      BY <2>1, <3>1, <3>2, <3>3, ToRevoke
  <2>3. CASE ~ \E r \in Requests : RequestStep(r)
    <3>1. UNCHANGED <<at, job>>
      BY <2>1, <2>3, OtherKeepsJobs
    <3> QED
      BY <2>1, <3>1, ClearedStays
  <2> QED
    BY <2>2, <2>3
<1>3. ClearInv => DeauthorizationIsComplete
  BY DEF ClearInv, Cleared, Later, DeauthorizationIsComplete, Rows
<1> QED
  BY <1>1, <1>2, <1>3, PTL DEF Spec

-----------------------------------------------------------------------------
(* What is left of a deleted account.                                      *)

\* Request r obtains the grant of a row of user u, or one asked for just now.
Obtains(r, u) ==
  /\ job'[r].grant.user = u
  /\ \/ job'[r].grant.asked = nextId
     \/ \E t \in codes \cup refreshTokens :
          t.grant.user = u /\ job'[r].grant.asked = t.grant.asked

\* What a request does with the grants of users: the rows it adds have the grant
\* it holds, and when it gets hold of another grant, it races with the handlers
\* of that user's messages.
Travels(r) ==
  /\ \A q \in Requests \ {r} : job'[q] = job[q]
  /\ \A t \in codes' : t \in codes \/ t.grant = job[r].grant
  /\ \A t \in tokens' : t \in tokens \/ t.grant = job[r].grant
  /\ \A t \in refreshTokens' : t \in refreshTokens \/ t.grant = job[r].grant
  /\ \/ /\ UNCHANGED event
        /\ job'[r].grant.user = None \/ job'[r].grant = job[r].grant
     \/ \E u \in Users : event' = RaceWith(u) /\ Obtains(r, u)

LEMMA NobodysGrant == NoJob.grant.user = None
BY DEF NoJob, NoGrant

LEMMA RequestTravels ==
  ASSUME TypeInv, NEW r \in Requests, RequestStep(r)
  PROVE  Travels(r)
<1> USE DEF TypeInv, TypeOK
<1> DEFINE Added == /\ \A t \in codes' : t \in codes \/ t.grant = job[r].grant
                    /\ \A t \in tokens' : t \in tokens \/ t.grant = job[r].grant
                    /\ \A t \in refreshTokens' :
                         t \in refreshTokens \/ t.grant = job[r].grant
<1>1. \A q \in Requests \ {r} : job'[q] = job[q]
  BY OthersStay
<1>2. CASE ArriveWithAssertion(r)
  <2> PICK k \in AssertionKinds, o \in Origins, off \in BOOLEAN, p \in Proofs :
        /\ Arrive(r, [NoJob EXCEPT !.kind = k, !.client = o.client, !.proof = p,
                        !.grant = [user |-> o.user, client |-> o.client,
                                   scope |-> o.scope, offline |-> off,
                                   origin |-> o, asked |-> nextId]],
                  "getClient")
        /\ event' = RaceWith(o.user)
    BY <1>2, AssertionArrives
  <2> DEFINE g == [user |-> o.user, client |-> o.client, scope |-> o.scope,
                   offline |-> off, origin |-> o, asked |-> nextId]
  <2>1. g.user = o.user /\ g.asked = nextId /\ o.user \in Users
    BY DEF Origins
  <2>2. job'[r].grant = g
    BY DEF Arrive, NoJob
  <2> HIDE DEF g
  <2>3. Obtains(r, o.user)
    BY <2>1, <2>2 DEF Obtains
  <2>4. Added
    BY <1>2 DEF ArriveWithAssertion
  <2> QED
    BY <1>1, <2>1, <2>3, <2>4 DEF Travels
<1>3. CASE ArriveWithCredential(r) \/ ArriveToDestroy(r) \/ ArriveToRevoke(r)
  <2>1. job'[r].grant = NoGrant
    <3>1. CASE ArriveWithCredential(r)
      BY <3>1 DEF ArriveWithCredential, Arrive, NoJob
    <3>2. CASE ArriveToDestroy(r)
      BY <3>2 DEF ArriveToDestroy, Arrive, NoJob
    <3>3. CASE ArriveToRevoke(r)
      BY <3>3 DEF ArriveToRevoke, Arrive, NoJob
    <3> QED
      BY <1>3, <3>1, <3>2, <3>3
  <2>2. Added /\ UNCHANGED event
    BY <1>3 DEF ArriveWithCredential, ArriveToDestroy, ArriveToRevoke
  <2>3. job'[r].grant.user = None
    BY <2>1 DEF NoGrant
  <2> QED
    BY <1>1, <2>2, <2>3 DEF Travels
<1>4. CASE GetCode(r)
  <2>1. CASE \E k \in codes : /\ job' = [job EXCEPT ![r].grant = k.grant]
                              /\ event' = RaceWith(k.grant.user)
    <3> PICK k \in codes : /\ job' = [job EXCEPT ![r].grant = k.grant]
                           /\ event' = RaceWith(k.grant.user)
      BY <2>1
    <3>1. job'[r].grant = k.grant /\ k.grant.user \in Users
      BY DEF Jobs, CodeRows, Grants
    <3>2. Obtains(r, k.grant.user)
      BY <3>1 DEF Obtains
    <3> QED
      BY <1>1, <1>4, <3>1, <3>2 DEF GetCode, Travels
  <2>2. CASE Return(r) /\ UNCHANGED event
    BY <1>1, <1>4, <2>2, NobodysGrant DEF GetCode, Return, Travels
  <2> QED
    BY <1>4, <2>1, <2>2 DEF GetCode
<1>5. CASE GetRefreshToken(r)
  <2>1. CASE \E t \in refreshTokens :
               /\ job' = [job EXCEPT ![r].grant =
                            [t.grant EXCEPT !.scope = job[r].scope, !.offline = FALSE]]
               /\ event' = RaceWith(t.grant.user)
    <3> PICK t \in refreshTokens :
               /\ job' = [job EXCEPT ![r].grant =
                            [t.grant EXCEPT !.scope = job[r].scope, !.offline = FALSE]]
               /\ event' = RaceWith(t.grant.user)
      BY <2>1
    <3> DEFINE g == [t.grant EXCEPT !.scope = job[r].scope, !.offline = FALSE]
    <3>1. g.user = t.grant.user /\ g.asked = t.grant.asked /\ t.grant.user \in Users
      BY DEF RefreshRows, Grants
    <3> HIDE DEF g
    <3>2. job' = [job EXCEPT ![r].grant = g]
      BY DEF g
    <3>3. job'[r].grant = g
      BY <3>2 DEF Jobs
    <3>4. Obtains(r, t.grant.user)
      BY <3>1, <3>3 DEF Obtains
    <3> QED
      BY <1>1, <1>5, <3>1, <3>4 DEF GetRefreshToken, Travels
  <2>2. CASE Return(r) /\ UNCHANGED event
    BY <1>1, <1>5, <2>2, NobodysGrant DEF GetRefreshToken, Return, Travels
  <2> QED
    BY <1>5, <2>1, <2>2 DEF GetRefreshToken
<1>6. CASE InsertCode(r) \/ InsertAccess(r) \/ InsertRefresh(r)
  <2>1. Added /\ UNCHANGED event
    BY <1>6 DEF InsertCode, InsertAccess, InsertRefresh
  <2>2. job'[r] \in {NoJob, job[r]}
    BY <1>6 DEF InsertCode, InsertAccess, InsertRefresh, Return
  <2> QED
    BY <1>1, <2>1, <2>2, NobodysGrant DEF Travels
<1>7. CASE \/ GetClient(r) \/ RemoveCode(r) \/ UsedRefreshToken(r) \/ GetToken(r)
           \/ RemoveToken(r) \/ RevokeEnds(r) \/ Fail(r)
  <2>1. Added /\ UNCHANGED event
    BY <1>7 DEF GetClient, RemoveCode, UsedRefreshToken, GetToken, RemoveToken, RevokeEnds, Fail
  <2>2. job'[r] \in {NoJob, job[r]}
    BY <1>7 DEF GetClient, RemoveCode, UsedRefreshToken, GetToken, RemoveToken, RevokeEnds,
                Fail, Return
  <2> QED
    BY <1>1, <2>1, <2>2, NobodysGrant DEF Travels
<1>8. CASE \E table \in Tables : RevokeTable(r, table) \/ RevokeTableFails(r, table)
  <2>1. Added /\ UNCHANGED event
    BY <1>8 DEF RevokeTable, RevokeTableFails
  <2>2. job'[r].grant = job[r].grant
    BY <1>8 DEF RevokeTable, RevokeTableFails, Jobs
  <2> QED
    BY <1>1, <2>1, <2>2 DEF Travels
<1> QED
  BY <1>2, <1>3, <1>4, <1>5, <1>6, <1>7, <1>8 DEF RequestStep

\* Grant g is of another user than the message's, or was approved by an assertion
\* that was presented after the handler last started.
Afterwards(e, g) == g.user = event[e].user => g.asked >= event[e].horizon

\* What is gone for good when the handler of a deletion has come so far, if no
\* request has crossed it: nobody holds an older grant of the user to make a row
\* of, and there is no older row left to make a grant of once the last statement
\* is done.
QuietSoFar(e) ==
  event[e].status \in Running \cup {"done"} /\ ~event[e].raced =>
    /\ \A r \in Requests : Afterwards(e, job[r].grant)
    /\ event[e].status \in {"refreshTokens", "codes", "done"} =>
         \A t \in tokens : Afterwards(e, t.grant)
    /\ event[e].status \in {"codes", "done"} =>
         \A t \in refreshTokens : Afterwards(e, t.grant)
    /\ event[e].status = "done" => \A t \in codes : Afterwards(e, t.grant)

Deleting(e) ==
  event[e].kind = "delete" =>
    event[e].user \in Users /\ QuietSoFar(e)

QuietInv == RevokeInv /\ \A e \in Events : Deleting(e)

LEMMA RequestQuiet ==
  ASSUME QuietInv, NEW r \in Requests, RequestStep(r), RevokeInv'
  PROVE  QuietInv'
<1> SUFFICES ASSUME NEW e \in Events, event'[e].kind = "delete"
             PROVE  event'[e].user \in Users /\ QuietSoFar(e)'
  BY DEF QuietInv, Deleting
<1>1. Travels(r) /\ Grow
  BY RequestTravels, RequestGrows DEF QuietInv, RevokeInv
<1>2. /\ event[e].kind = "delete" /\ event[e].user \in Users /\ QuietSoFar(e)
      /\ event'[e].status = event[e].status /\ event'[e].user = event[e].user
      /\ event'[e].horizon = event[e].horizon /\ event[e].horizon <= nextId
      /\ event[e] \in EventRecords
  BY <1>1 DEF Grow, QuietInv, RevokeInv, Deleting, TypeInv, TypeOK
<1>4. ASSUME event'[e].status \in Running \cup {"done"}, ~event'[e].raced
      PROVE  ~event[e].raced /\ Afterwards(e, job'[r].grant)
  <2>1. CASE /\ UNCHANGED event
             /\ job'[r].grant.user = None \/ job'[r].grant = job[r].grant
    <3>1. ~event[e].raced /\ Afterwards(e, job[r].grant)
      BY <1>2, <1>4, <2>1 DEF QuietSoFar
    <3> QED
      BY <1>2, <2>1, <3>1, ConstantsAssumption DEF Afterwards
  <2>2. ASSUME NEW u \in Users, event' = RaceWith(u), Obtains(r, u)
        PROVE  ~event[e].raced /\ Afterwards(e, job'[r].grant)
    <3>1. ~event[e].raced /\ ~(event[e].user = u /\ event[e].status \in Running)
      BY <1>2, <1>4, <2>2 DEF RaceWith, EventRecords
    <3>2. event[e].user = u => event[e].status = "done"
      BY <1>2, <1>4, <3>1
    <3>3. event[e].status = "done" =>
            \A t \in codes \cup refreshTokens : Afterwards(e, t.grant)
      BY <1>2, <3>1 DEF QuietSoFar
    <3>4. CASE job'[r].grant.asked = nextId
      BY <1>2, <3>1, <3>4 DEF Afterwards
    <3>5. CASE \E t \in codes \cup refreshTokens :
                 t.grant.user = u /\ job'[r].grant.asked = t.grant.asked
      <4> PICK t \in codes \cup refreshTokens :
             t.grant.user = u /\ job'[r].grant.asked = t.grant.asked
        BY <3>5
      <4>1. CASE event[e].user # u
        BY <3>1, <4>1, <2>2 DEF Afterwards, Obtains
      <4>2. CASE event[e].user = u
        <5>1. Afterwards(e, t.grant)
          BY <3>2, <3>3, <4>2
        <5> QED
          BY <3>1, <4>2, <5>1 DEF Afterwards
      <4> QED
        BY <4>1, <4>2
    <3> QED
      BY <2>2, <3>1, <3>4, <3>5 DEF Obtains
  <2> QED
    BY <1>1, <2>1, <2>2 DEF Travels
<1>5. \A g : Afterwards(e, g) <=> Afterwards(e, g)'
  BY <1>2 DEF Afterwards
<1>6. QuietSoFar(e)'
  <2> SUFFICES ASSUME event'[e].status \in Running \cup {"done"}, ~event'[e].raced
               PROVE  QuietSoFar(e)'
    BY DEF QuietSoFar
  <2>1. ~event[e].raced /\ Afterwards(e, job'[r].grant)
    BY <1>4
  <2>2. \A q \in Requests : Afterwards(e, job[q].grant)
    BY <1>2, <2>1 DEF QuietSoFar
  <2>3. \A q \in Requests : Afterwards(e, job'[q].grant)
    BY <1>1, <2>1, <2>2 DEF Travels
  <2>4. event[e].status \in {"refreshTokens", "codes", "done"} =>
          \A t \in tokens' : Afterwards(e, t.grant)
    BY <1>1, <1>2, <2>1, <2>2 DEF Travels, QuietSoFar
  <2>5. event[e].status \in {"codes", "done"} =>
          \A t \in refreshTokens' : Afterwards(e, t.grant)
    BY <1>1, <1>2, <2>1, <2>2 DEF Travels, QuietSoFar
  <2>6. event[e].status = "done" => \A t \in codes' : Afterwards(e, t.grant)
    BY <1>1, <1>2, <2>1, <2>2 DEF Travels, QuietSoFar
  <2> QED
    BY <1>2, <2>3, <2>4, <2>5, <2>6 DEF QuietSoFar, Afterwards
<1> QED
  BY <1>2, <1>6

\* The steps of the handlers.
LEMMA HandlerQuiet ==
  ASSUME QuietInv, NEW f \in Events, HandlerStep(f) \/ Redeliver(f), RevokeInv'
  PROVE  QuietInv'
<1> SUFFICES ASSUME NEW e \in Events, event'[e].kind = "delete"
             PROVE  event'[e].user \in Users /\ QuietSoFar(e)'
  BY DEF QuietInv, Deleting
<1>1. /\ \A g \in Events \ {f} : event'[g] = event[g]
      /\ event'[f].kind = event[f].kind /\ event'[f].user = event[f].user
      /\ codes' \subseteq codes /\ tokens' \subseteq tokens
      /\ refreshTokens' \subseteq refreshTokens
      /\ UNCHANGED <<job, nextId>>
  BY DEF HandlerStep, Deliver, RevokeAccessTokens, RevokeRefreshTokens, RevokeCodes, Redeliver,
         QuietInv, RevokeInv, TypeInv, TypeOK, EventRecords
<1>2. /\ event[e].kind = "delete" /\ event[e].user \in Users /\ QuietSoFar(e)
      /\ event[e].horizon <= nextId /\ nextId \in Nat /\ event[e] \in EventRecords
  BY <1>1 DEF QuietInv, RevokeInv, Deleting, TypeInv, TypeOK
<1>3. \A t : Revokes(e, t) <=> t.grant.user = event[e].user
  BY <1>2 DEF Revokes
<1>4. CASE e # f
  BY <1>1, <1>2, <1>4 DEF QuietSoFar, Afterwards
<1>5. CASE e = f /\ Deliver(f)
  <2> DEFINE races == \E r \in Requests : job[r].grant.user = event[e].user
  <2>1. event' = [event EXCEPT ![e].status = "tokens", ![e].horizon = nextId, ![e].raced = races]
    BY <1>2, <1>5 DEF Deliver
  <2> HIDE DEF races
  <2>2. /\ event'[e].status = "tokens" /\ event'[e].raced = races
        /\ event'[e].horizon = nextId
    BY <1>2, <2>1 DEF EventRecords, QuietInv, RevokeInv, TypeInv, TypeOK
  <2>3. ~event'[e].raced => \A r \in Requests : job[r].grant.user # event[e].user
    BY <2>2 DEF races
  <2> QED
    BY <1>1, <1>2, <1>5, <2>2, <2>3 DEF QuietSoFar, Afterwards
<1>6. CASE e = f /\ RevokeAccessTokens(f)
  <2>1. /\ event'[e].status = "refreshTokens" /\ event'[e].raced = event[e].raced
        /\ event'[e].horizon = event[e].horizon
        /\ event[e].status = "tokens" /\ \A t \in tokens' : ~Revokes(e, t)
    BY <1>2, <1>6 DEF RevokeAccessTokens, EventRecords, QuietInv, RevokeInv, TypeInv, TypeOK
  <2> QED
    BY <1>1, <1>2, <1>3, <2>1 DEF QuietSoFar, Afterwards, Running
<1>7. CASE e = f /\ RevokeRefreshTokens(f)
  <2>1. /\ event'[e].status = "codes" /\ event'[e].raced = event[e].raced
        /\ event'[e].horizon = event[e].horizon
        /\ event[e].status = "refreshTokens" /\ \A t \in refreshTokens' : ~Revokes(e, t)
    BY <1>2, <1>7 DEF RevokeRefreshTokens, EventRecords, QuietInv, RevokeInv, TypeInv, TypeOK
  <2> QED
    BY <1>1, <1>2, <1>3, <2>1 DEF QuietSoFar, Afterwards, Running
<1>8. CASE e = f /\ RevokeCodes(f)
  <2>1. /\ event'[e].status = "done" /\ event'[e].raced = event[e].raced
        /\ event'[e].horizon = event[e].horizon
        /\ event[e].status = "codes" /\ \A t \in codes' : ~Revokes(e, t)
    BY <1>2, <1>8 DEF RevokeCodes, EventRecords, QuietInv, RevokeInv, TypeInv, TypeOK
  <2> QED
    BY <1>1, <1>2, <1>3, <2>1 DEF QuietSoFar, Afterwards, Running
<1>9. CASE e = f /\ Redeliver(f)
  <2>1. event'[e].status = "queued" /\ event'[e].horizon = event[e].horizon
    BY <1>9 DEF Redeliver, EventRecords, QuietInv, RevokeInv, TypeInv, TypeOK
  <2> QED
    BY <1>1, <1>2, <2>1 DEF QuietSoFar, Afterwards, Running
<1> QED
  BY <1>4, <1>5, <1>6, <1>7, <1>8, <1>9 DEF HandlerStep

\* If no request crossed the handler of the deletion of an account, nothing that
\* was approved before is left of the user when it is done, or ever comes back.
THEOREM DeletionsAreFinal == Spec => []QuietDeletionIsFinal
<1>1. Init => QuietInv
  BY RevokeInit DEF Init, QuietInv, Deleting
<1>2. QuietInv /\ [Next]_vars => QuietInv'
  <2> SUFFICES ASSUME QuietInv, [Next]_vars PROVE QuietInv'
    OBVIOUS
  <2>1. RevokeInv' /\ TypeInv
    BY RevokeKept DEF QuietInv, RevokeInv
  <2>2. CASE \E r \in Requests : RequestStep(r)
    BY <2>1, <2>2, RequestQuiet
  <2>3. CASE \E e \in Events : HandlerStep(e) \/ Redeliver(e)
    BY <2>1, <2>3, HandlerQuiet
  <2>4. ASSUME NEW f \in Events, NEW u \in Users, NEW k \in EventKinds, Notify(f, u, k)
        PROVE  QuietInv'
    <3>1. /\ \A e \in Events \ {f} : event'[e] = event[e]
          /\ event'[f].status = "queued" /\ event'[f].kind = k /\ event'[f].user = u
          /\ event'[f].horizon = event[f].horizon
          /\ UNCHANGED <<codes, tokens, refreshTokens, job, nextId>>
      BY <2>4 DEF Notify, QuietInv, RevokeInv, TypeInv, TypeOK, EventRecords
    <3>2. \A e \in Events \ {f} : Deleting(e)'
      BY <3>1 DEF QuietInv, Deleting, QuietSoFar, Afterwards
    <3>3. Deleting(f)'
      BY <3>1 DEF Deleting, QuietSoFar, Running
    <3> QED
      BY <2>1, <3>2, <3>3 DEF QuietInv
  <2>5. CASE \/ UNCHANGED vars \/ Lapse
             \/ \E u \in Users : DeleteAccount(u)
             \/ \E c \in Clients : RemoveClient(c)
    <3>1. /\ codes' \subseteq codes /\ tokens' \subseteq tokens
          /\ refreshTokens' \subseteq refreshTokens
          /\ UNCHANGED <<job, event, nextId>>
      BY <2>5 DEF vars, Lapse, DeleteAccount, RemoveClient
    <3> QED
      BY <2>1, <3>1 DEF QuietInv, Deleting, QuietSoFar, Afterwards
  <2> QED
    BY <2>2, <2>3, <2>4, <2>5 DEF Next, OtherStep
<1>3. QuietInv => QuietDeletionIsFinal
  BY DEF QuietInv, Deleting, QuietSoFar, Afterwards, QuietDeletionIsFinal, Rows
<1> QED
  BY <1>1, <1>2, <1>3, PTL DEF Spec

-----------------------------------------------------------------------------
(* Who makes a token disappear.                                            *)

\* A request that is under way has its parameters: to answer is to drop them.
KindInv ==
  /\ TypeInv
  /\ \A r \in Requests :
       /\ at[r] # "idle" => job[r].kind \in Kinds
       /\ at[r] \in {"getToken", "removeToken"} => job[r].kind \in DestroyKinds

\* A request that has arrived keeps its kind until it ends.
LEMMA KeepsKind ==
  ASSUME TypeInv, NEW r \in Requests, RequestStep(r), at[r] # "idle", at'[r] # "idle"
  PROVE  job'[r].kind = job[r].kind
<1> USE DEF TypeInv, TypeOK
<1>1. ~ (\/ ArriveWithAssertion(r) \/ ArriveWithCredential(r)
         \/ ArriveToDestroy(r) \/ ArriveToRevoke(r))
  BY DEF ArriveWithAssertion, ArriveWithCredential, ArriveToDestroy, ArriveToRevoke
<1>3. ~Return(r)
  BY DEF Return
<1>4. CASE GetCode(r) \/ GetRefreshToken(r)
  BY <1>3, <1>4 DEF GetCode, GetRefreshToken, Jobs
<1>5. CASE \E table \in Tables : RevokeTable(r, table) \/ RevokeTableFails(r, table)
  BY <1>5 DEF RevokeTable, RevokeTableFails, Jobs
<1>6. CASE \/ GetClient(r) \/ RemoveCode(r) \/ UsedRefreshToken(r) \/ InsertAccess(r) \/ GetToken(r)
  BY <1>3, <1>6 DEF GetClient, RemoveCode, UsedRefreshToken, InsertAccess, GetToken
<1>7. ~InsertCode(r) /\ ~InsertRefresh(r) /\ ~RemoveToken(r) /\ ~RevokeEnds(r) /\ ~Fail(r)
  BY <1>3 DEF InsertCode, InsertRefresh, RemoveToken, RevokeEnds, Fail
<1> QED
  BY <1>1, <1>4, <1>5, <1>6, <1>7 DEF RequestStep

\* Only requests to destroy a token get to the statements that do.
LEMMA DestroysByKind ==
  ASSUME TypeInv, NEW r \in Requests, RequestStep(r), at'[r] \in {"getToken", "removeToken"}
  PROVE  \/ job'[r].kind \in DestroyKinds
         \/ at[r] = "getToken" /\ job'[r].kind = job[r].kind
<1> USE DEF TypeInv, TypeOK
<1>1. CASE ArriveWithAssertion(r)
  <2>1. \E j : Arrive(r, j, "getClient")
    BY <1>1, Zenon DEF ArriveWithAssertion
  <2> QED
    BY <2>1 DEF Arrive
<1>2. CASE ArriveWithCredential(r)
  <2>1. \E j : Arrive(r, j, "getClient")
    BY <1>2, Zenon DEF ArriveWithCredential
  <2> QED
    BY <2>1 DEF Arrive
<1>3. CASE ArriveToRevoke(r)
  <2>1. \E j : Arrive(r, j, "revoke")
    BY <1>3, Zenon DEF ArriveToRevoke
  <2> QED
    BY <2>1 DEF Arrive
<1>4. CASE ArriveToDestroy(r)
  BY <1>4 DEF ArriveToDestroy, Arrive, NoJob
<1>5. CASE GetToken(r)
  BY <1>5 DEF GetToken, GoTo, Return
<1>6. CASE GetClient(r)
  BY <1>6 DEF GetClient, GoTo, FirstStatement, Return
<1>7. CASE \E table \in Tables : RevokeTable(r, table) \/ RevokeTableFails(r, table)
  BY <1>7 DEF RevokeTable, RevokeTableFails
<1>8. CASE InsertCode(r) \/ GetCode(r) \/ RemoveCode(r) \/ GetRefreshToken(r)
  BY <1>8 DEF InsertCode, GetCode, RemoveCode, GetRefreshToken, GoTo, Return
<1>9. CASE \/ UsedRefreshToken(r) \/ InsertAccess(r) \/ InsertRefresh(r) \/ RemoveToken(r)
           \/ RevokeEnds(r) \/ Fail(r)
  BY <1>9 DEF UsedRefreshToken, InsertAccess, InsertRefresh, RemoveToken, RevokeEnds, Fail,
              GoTo, Return
<1> QED
  BY <1>1, <1>2, <1>3, <1>4, <1>5, <1>6, <1>7, <1>8, <1>9 DEF RequestStep

\* A request arrives at one of the endpoints.
LEMMA ArrivesWithKind ==
  ASSUME TypeInv, NEW r \in Requests, RequestStep(r), at[r] = "idle"
  PROVE  job'[r].kind \in Endpoints
<1>1. \E j, s : Arrive(r, j, s)
  <2>1. CASE ArriveWithAssertion(r)
    BY <2>1, Zenon DEF ArriveWithAssertion
  <2>2. CASE ArriveWithCredential(r)
    BY <2>2, Zenon DEF ArriveWithCredential
  <2>3. CASE ArriveToDestroy(r) \/ ArriveToRevoke(r)
    BY <2>3, Zenon DEF ArriveToDestroy, ArriveToRevoke
  <2> QED
    BY <2>1, <2>2, <2>3 DEF RequestStep, GetClient, InsertCode, GetCode, RemoveCode,
       GetRefreshToken, UsedRefreshToken, InsertAccess, InsertRefresh, GetToken, RemoveToken,
       RevokeTable, RevokeTableFails, RevokeEnds, Fail
<1> QED
  BY <1>1 DEF Arrive, TypeInv, TypeOK

\* The statements of requests that delete tokens.
LEMMA RequestRemoves ==
  ASSUME TypeInv, NEW r \in Requests, RequestStep(r),
         NEW t \in (tokens \ tokens') \cup (refreshTokens \ refreshTokens')
  PROVE  RemoveToken(r) \/ \E table \in Tables : RevokeTable(r, table)
<1>1. ~(UNCHANGED <<tokens, refreshTokens>>)
  OBVIOUS
<1>2. ~InsertAccess(r) /\ ~InsertRefresh(r)
  BY DEF InsertAccess, InsertRefresh
<1>3. ~ \E table \in Tables : RevokeTableFails(r, table)
  BY <1>1 DEF RevokeTableFails
<1> QED
  BY <1>1, <1>2, <1>3 DEF RequestStep, ArriveWithAssertion, ArriveWithCredential, ArriveToDestroy,
     ArriveToRevoke, GetClient, InsertCode, GetCode, RemoveCode, GetRefreshToken,
     UsedRefreshToken, GetToken, RevokeEnds, Fail

LEMMA KindStep ==
  ASSUME KindInv, [Next]_vars
  PROVE  KindInv'
<1>1. TypeInv /\ TypeInv'
  BY TypeStep DEF KindInv
<1> SUFFICES ASSUME NEW q \in Requests
             PROVE  /\ at'[q] # "idle" => job'[q].kind \in Kinds
                    /\ at'[q] \in {"getToken", "removeToken"} => job'[q].kind \in DestroyKinds
  BY <1>1 DEF KindInv
<1>2. CASE \E r \in Requests : RequestStep(r)
  <2> PICK r \in Requests : RequestStep(r)
    BY <1>2
  <2>1. CASE q # r
    BY <1>1, <2>1, OthersStay DEF KindInv
  <2>2. ASSUME q = r, at'[r] # "idle"
        PROVE  job'[r].kind \in Kinds
    <3>1. CASE at[r] # "idle"
      BY <1>1, <2>2, <3>1, KeepsKind DEF KindInv
    <3>2. CASE at[r] = "idle"
      BY <1>1, <3>2, ArrivesWithKind, EndpointsAssumption
    <3> QED
      BY <3>1, <3>2
  <2>3. ASSUME q = r, at'[r] \in {"getToken", "removeToken"}
        PROVE  job'[r].kind \in DestroyKinds
    BY <1>1, <2>3, DestroysByKind DEF KindInv
  <2> QED
    BY <2>1, <2>2, <2>3
<1>3. CASE ~ \E r \in Requests : RequestStep(r)
  BY <1>1, <1>3, OtherKeepsJobs DEF KindInv
<1> QED
  BY <1>2, <1>3

\* An access or refresh token never disappears but by an act of its own user,
\* or with its client.
THEOREM OwnersRevoke == Spec => OnlyOwnerRevokes
<1> DEFINE Step ==
      \A t \in (tokens \ tokens') \cup (refreshTokens \ refreshTokens') :
       \/ t.grant.client \in clients \ clients'
       \/ \E r \in Requests : /\ job'[r] # job[r]
                              /\ \/ /\ job[r].kind \in DestroyKinds
                                    /\ job[r].target = t.id
                                 \/ Deauthorizes(job[r], t)
       \/ \E e \in Events :
            /\ event'[e] # event[e]
            /\ event[e].user = t.grant.user
            /\ event[e].kind = "passwordChange" =>
                 t.grant.client \in Publics \cup CanGrant
<1>1. Init => KindInv
  BY InitType DEF Init, KindInv
<1>2. KindInv /\ [Next]_vars => KindInv'
  BY KindStep
<1>3. KindInv /\ [Next]_vars => [Step]_vars
  <2> SUFFICES ASSUME KindInv, Next,
                      NEW t \in (tokens \ tokens') \cup (refreshTokens \ refreshTokens')
               PROVE  \/ t.grant.client \in clients \ clients'
                      \/ \E r \in Requests : /\ job'[r] # job[r]
                                             /\ \/ /\ job[r].kind \in DestroyKinds
                                                   /\ job[r].target = t.id
                                                \/ Deauthorizes(job[r], t)
                      \/ \E e \in Events :
                           /\ event'[e] # event[e]
                           /\ event[e].user = t.grant.user
                           /\ event[e].kind = "passwordChange" =>
                                t.grant.client \in Publics \cup CanGrant
    OBVIOUS
  <2>1. TypeInv
    BY DEF KindInv
  <2>2. ASSUME NEW r \in Requests, RequestStep(r)
        PROVE  /\ job'[r] # job[r]
               /\ \/ job[r].kind \in DestroyKinds /\ job[r].target = t.id
                  \/ Deauthorizes(job[r], t)
    <3>1. RemoveToken(r) \/ \E table \in Tables : RevokeTable(r, table)
      BY <2>1, <2>2, RequestRemoves
    <3>2. CASE RemoveToken(r)
      <4>1. job[r].target = t.id
        BY <3>2 DEF RemoveToken
      <4>2. job[r].kind \in DestroyKinds /\ job'[r].kind = "none"
        BY <2>1, <3>2 DEF RemoveToken, Return, NoJob, KindInv, TypeInv, TypeOK
      <4> QED
        BY <4>1, <4>2 DEF DestroyKinds
    <3>3. CASE \E table \in Tables : RevokeTable(r, table)
      <4> PICK table \in Tables : RevokeTable(r, table)
        BY <3>3
      <4>1. Deauthorizes(job[r], t)
        BY DEF RevokeTable
      <4>2. table \in job[r].left /\ table \notin job'[r].left
        BY <2>1 DEF RevokeTable, TypeInv, TypeOK, Jobs
      <4> QED
        BY <4>1, <4>2
    <3> QED
      BY <3>1, <3>2, <3>3
  <2>3. ASSUME NEW e \in Events, HandlerStep(e) \/ Redeliver(e)
        PROVE  /\ event'[e] # event[e]
               /\ event[e].user = t.grant.user
               /\ event[e].kind = "passwordChange" =>
                    t.grant.client \in Publics \cup CanGrant
    <3>1. RevokeAccessTokens(e) \/ RevokeRefreshTokens(e)
      BY <2>3 DEF HandlerStep, Deliver, RevokeCodes, Redeliver
    <3>2. Revokes(e, t)
      BY <3>1 DEF RevokeAccessTokens, RevokeRefreshTokens
    <3>3. event'[e].status # event[e].status
      BY <2>1, <3>1 DEF RevokeAccessTokens, RevokeRefreshTokens, TypeInv, TypeOK, EventRecords
    <3> QED
      BY <3>2, <3>3 DEF Revokes
  <2>4. ASSUME NEW c \in Clients, RemoveClient(c)
        PROVE  t.grant.client \in clients \ clients'
    BY <2>4 DEF RemoveClient
  <2> QED
    BY <2>2, <2>3, <2>4 DEF Next, OtherStep, Notify, DeleteAccount, Lapse
<1> QED
  BY <1>1, <1>2, <1>3, PTL DEF Spec, OnlyOwnerRevokes

-----------------------------------------------------------------------------
(* How often a code is traded.                                             *)

Removed(i) == \A k \in codes : k.id # i

\* Every access token that came from the code which request j trades was inserted
\* after j had arrived.
Since(j) == \A t \in tokens : t.receipt.code = j.target => j.since <= t.id

\* What is known of the code that a request at statement s with locals j trades:
\* from the moment that it found the code until it has a token.
Trading(s, j) ==
  /\ s \notin Bystander /\ j.kind = "exchange" =>
       j.target \in Issued /\ j.since <= nextId
  /\ s = "removeCode" => j.kind = "exchange" /\ Since(j)
  /\ s = "insertAccess" /\ j.kind = "exchange" => Since(j) /\ Removed(j.target)

\* What is known of the access token of row t.  The code it came from is in the
\* table no more, and never will be again.
Spent(t) ==
  /\ t.id < nextId
  /\ t.receipt.code # 0 =>
       /\ t.receipt.code \in Issued /\ Removed(t.receipt.code)
       /\ t.receipt.since <= t.id

SpendInv ==
  /\ ReachInv
  /\ \A k \in codes : k.id \in Issued
  /\ \A t \in tokens : Spent(t)
  /\ \A r \in Requests : Trading(at[r], job[r])
  /\ CodesAreSpentTogether

\* A step that inserts no token, of which it is known where the request gets to.
LEMMA SpendKept ==
  ASSUME SpendInv, ReachInv', [Next]_vars, tokens' \subseteq tokens,
         \A k \in codes' : k \in codes \/ (k.id = nextId /\ nextId' = nextId + 1),
         \A q \in Requests : \/ at'[q] \in Bystander
                             \/ at'[q] = at[q] /\ job'[q] = job[q]
                             \/ Trading(at[q], job[q])'
  PROVE  SpendInv'
<1>1. nextId \in Nat \ {0} /\ nextId' \in {nextId, nextId + 1}
  BY StepGrows DEF SpendInv, ReachInv, TypeInv, TypeOK, RowsGrow
<1>2. Issued \subseteq Issued' /\ nextId \notin Issued
  <2>1. CASE nextId' = nextId
    BY <1>1, <2>1 DEF Issued
  <2>2. CASE nextId' = nextId + 1
    BY <1>1, <2>2 DEF Issued
  <2> QED
    BY <1>1, <2>1, <2>2
<1>3. \A k \in codes' : k.id \in Issued'
  BY <1>1, <1>2 DEF SpendInv, Issued
<1>4. ASSUME NEW i \in Issued, Removed(i) PROVE Removed(i)'
  BY <1>2, <1>4 DEF Removed
<1>5. ASSUME NEW j, Since(j) PROVE Since(j)'
  BY <1>5 DEF Since
<1>6. \A t \in tokens' : Spent(t)'
  <2> SUFFICES ASSUME NEW t \in tokens' PROVE Spent(t)'
    OBVIOUS
  <2>1. Spent(t) /\ t.id \in Nat
    BY DEF SpendInv, ReachInv, TypeInv, TypeOK, AccessRows
  <2> QED
    BY <1>1, <1>2, <1>4, <2>1 DEF Spent
<1>7. ASSUME NEW q \in Requests PROVE Trading(at[q], job[q])'
  <2>1. CASE at'[q] \in Bystander
    BY <2>1 DEF Trading, Bystander
  <2>2. CASE at'[q] = at[q] /\ job'[q] = job[q]
    <3>1. Trading(at[q], job[q])
      BY DEF SpendInv
    <3>2. at[q] = "insertAccess" /\ job[q].kind = "exchange" => job[q].target \in Issued
      BY <3>1 DEF Trading, Bystander
    <3>3. job[q].since \in Nat
      BY DEF SpendInv, ReachInv, TypeInv, TypeOK, Jobs
    <3>4. job[q].since <= nextId => job[q].since <= nextId'
      BY <1>1, <3>3
    <3> QED
      BY <1>2, <1>4, <1>5, <2>2, <3>1, <3>2, <3>4 DEF Trading
  <2> QED
    BY <2>1, <2>2
<1>8. CodesAreSpentTogether'
  BY DEF SpendInv, CodesAreSpentTogether
<1> QED
  BY <1>3, <1>6, <1>7, <1>8 DEF SpendInv

\* The token that is inserted for a code comes after every other request that
\* got hold of the code, and the tokens that the code was traded for before came
\* after this request.
LEMMA AccessSpends ==
  ASSUME SpendInv, ReachInv', [Next]_vars,
         NEW r \in Requests, RequestStep(r), InsertAccess(r)
  PROVE  SpendInv'
<1> DEFINE row == [id |-> nextId, grant |-> job[r].grant, receipt |-> Receipt(job[r])]
<1>0. TypeInv /\ TypeInv' /\ Trading(at[r], job[r]) /\ job[r] \in Jobs /\ at[r] = "insertAccess"
  BY DEF SpendInv, ReachInv, TypeInv, TypeOK, InsertAccess
<1>1. /\ tokens' = tokens \cup {row} /\ UNCHANGED codes
      /\ nextId' = nextId + 1 /\ nextId \in Nat \ {0}
      /\ at'[r] \in {"idle", "insertRefresh"}
      /\ at'[r] = "insertRefresh" => job'[r] = job[r]
  BY <1>0 DEF InsertAccess, Fresh, Return, GoTo, TypeInv, TypeOK
<1>2. /\ row.id = nextId /\ row.receipt.since = job[r].since
      /\ row.receipt.code = (IF job[r].kind = "exchange" THEN job[r].target ELSE 0)
  BY DEF Receipt
<1>3. row.receipt.code # 0 =>
        /\ row.receipt.code = job[r].target /\ row.receipt.code \in Issued
        /\ row.receipt.since <= nextId
        /\ Since(job[r]) /\ Removed(row.receipt.code)
  BY <1>0, <1>2 DEF Trading, Bystander
<1> HIDE DEF row
<1>4. Issued \subseteq Issued'
  BY <1>1 DEF Issued
<1>5. \A k \in codes' : k.id \in Issued'
  BY <1>1, <1>4 DEF SpendInv
<1>6. ASSUME NEW t \in tokens' PROVE Spent(t)'
  <2>1. CASE t = row
    BY <1>1, <1>2, <1>3, <1>4, <2>1 DEF Spent, Removed
  <2>2. CASE t \in tokens
    <3>1. Spent(t) /\ t.id \in Nat
      BY <1>0, <2>2 DEF SpendInv, TypeInv, TypeOK, AccessRows
    <3> QED
      BY <1>1, <1>4, <3>1 DEF Spent, Removed
  <2> QED
    BY <1>1, <2>1, <2>2
<1>7. CodesAreSpentTogether'
  <2> SUFFICES ASSUME NEW s \in tokens', NEW t \in tokens',
                      s.receipt.code # 0, s.receipt.code = t.receipt.code
               PROVE  s.receipt.since <= t.id
    BY DEF CodesAreSpentTogether
  <2>1. CASE s = row /\ t = row
    BY <1>2, <1>3, <2>1
  <2>2. CASE s = row /\ t \in tokens
    BY <1>2, <1>3, <2>2 DEF Since
  <2>3. CASE s \in tokens /\ t = row
    <3>1. Spent(s) /\ s.id \in Nat /\ s.receipt.since \in Nat
      BY <1>0, <2>3 DEF SpendInv, TypeInv, TypeOK, AccessRows, Receipts
    <3> QED
      BY <1>1, <1>2, <2>3, <3>1 DEF Spent
  <2>4. CASE s \in tokens /\ t \in tokens
    BY <2>4 DEF SpendInv, CodesAreSpentTogether
  <2> QED
    BY <1>1, <2>1, <2>2, <2>3, <2>4
<1>8. ASSUME NEW q \in Requests PROVE Trading(at[q], job[q])'
  <2>0. job[q].since \in Nat
    BY <1>0 DEF TypeInv, TypeOK, Jobs
  <2>1. CASE q = r
    BY <1>0, <1>1, <1>4, <2>0, <2>1 DEF Trading, Bystander
  <2>2. CASE q # r
    <3>1. at'[q] = at[q] /\ job'[q] = job[q] /\ Trading(at[q], job[q])
      BY <1>0, <2>2, OthersStay DEF SpendInv
    <3>2. job[q].since <= nextId => job[q].since <= nextId'
      BY <1>1, <2>0
    <3>3. \A i : Removed(i) => Removed(i)'
      BY <1>1 DEF Removed
    <3>4. ASSUME NEW j, j.since <= nextId, Since(j) PROVE Since(j)'
      BY <1>1, <1>2, <3>4 DEF Since
    <3>5. at[q] \in {"removeCode", "insertAccess"} => at[q] \notin Bystander
      BY DEF Bystander
    <3> QED
      BY <1>4, <3>1, <3>2, <3>3, <3>4, <3>5 DEF Trading
  <2> QED
    BY <2>1, <2>2
<1> QED
  BY <1>5, <1>6, <1>7, <1>8 DEF SpendInv

LEMMA CarrySpends ==
  ASSUME SpendInv, ReachInv', [Next]_vars,
         NEW r \in Requests, RequestStep(r), CarryGrant(r)
  PROVE  SpendInv'
<1>0. /\ TypeInv /\ TypeInv' /\ Trading(at[r], job[r]) /\ Shown(at[r], job[r])
      /\ at[r] \in Steps /\ job[r] \in Jobs /\ nextId \in Nat
  BY DEF SpendInv, ReachInv, TypeInv, TypeOK
<1>1. ASSUME tokens' \subseteq tokens, Trading(at[r], job[r])',
             \A k \in codes' : k \in codes \/ (k.id = nextId /\ nextId' = nextId + 1)
      PROVE  SpendInv'
  BY <1>0, <1>1, OthersStay, SpendKept
<1>2. CASE ArriveWithAssertion(r)
  <2>1. \E k \in AssertionKinds :
          at'[r] = "getClient" /\ job'[r].kind = k /\ UNCHANGED <<codes, tokens>>
    <3> PICK k \in AssertionKinds, o \in Origins, off \in BOOLEAN, p \in Proofs :
          /\ Arrive(r, [NoJob EXCEPT !.kind = k, !.client = o.client, !.proof = p,
                          !.grant = [user |-> o.user, client |-> o.client,
                                     scope |-> o.scope, offline |-> off,
                                     origin |-> o, asked |-> nextId]],
                    "getClient")
          /\ event' = RaceWith(o.user)
      BY <1>2, AssertionArrives
    <3>1. UNCHANGED <<codes, tokens>>
      BY <1>2 DEF ArriveWithAssertion
    <3> QED
      BY <1>0, <3>1 DEF Arrive, NoJob, TypeInv, TypeOK
  <2>2. Trading(at[r], job[r])'
    BY <2>1 DEF Trading, AssertionKinds
  <2> QED
    BY <1>1, <2>1, <2>2
<1>3. CASE ArriveWithCredential(r)
  <2>1. /\ at'[r] = "getClient" /\ job'[r].target \in Issued /\ job'[r].since = nextId
        /\ UNCHANGED <<codes, tokens, nextId>>
    BY <1>0, <1>3 DEF ArriveWithCredential, Arrive, NoJob, TypeInv, TypeOK
  <2>2. Trading(at[r], job[r])'
    BY <1>0, <2>1 DEF Trading, Issued
  <2> QED
    BY <1>1, <2>1, <2>2
<1>4. CASE /\ GetClient(r) /\ GoTo(r, FirstStatement(job[r].kind))
           /\ Accepts(job[r]) /\ UNCHANGED job
  <2>1. /\ at[r] = "getClient" /\ at'[r] = FirstStatement(job[r].kind) /\ job'[r] = job[r]
        /\ UNCHANGED <<codes, tokens, nextId>>
    BY <1>0, <1>4 DEF GetClient, GoTo, TypeInv, TypeOK
  <2>2. job[r].kind = "exchange" =>
          at'[r] = "getCode" /\ job[r].target \in Issued /\ job[r].since <= nextId
    BY <1>0, <2>1 DEF FirstStatement, Trading, Bystander
  <2>3. at'[r] # "removeCode"
    BY <2>1 DEF FirstStatement
  <2>4. Trading(at[r], job[r])'
    BY <2>1, <2>2, <2>3 DEF Trading, Issued
  <2> QED
    BY <1>1, <2>1, <2>4
<1>5. CASE InsertCode(r) \/ InsertRefresh(r)
  <2>1. at'[r] = "idle" /\ UNCHANGED tokens
    BY <1>0, <1>5 DEF InsertCode, InsertRefresh, Return, TypeInv, TypeOK
  <2>2. \A k \in codes' : k \in codes \/ (k.id = nextId /\ nextId' = nextId + 1)
    BY <1>5 DEF InsertCode, InsertRefresh, Fresh
  <2>3. Trading(at[r], job[r])'
    BY <2>1 DEF Trading, Bystander
  <2> QED
    BY <1>1, <2>1, <2>2, <2>3
<1>6. CASE /\ GetCode(r)
           /\ \E k \in codes : /\ Redeems(job[r], k)
                              /\ job' = [job EXCEPT ![r].grant = k.grant]
                              /\ GoTo(r, "removeCode")
  <2>1. /\ at[r] = "getCode" /\ at'[r] = "removeCode"
        /\ job'[r].kind = job[r].kind /\ job'[r].target = job[r].target
        /\ job'[r].since = job[r].since
        /\ UNCHANGED <<codes, tokens, nextId>>
    BY <1>0, <1>6 DEF GetCode, GoTo, Jobs, TypeInv, TypeOK
  <2>2. job[r].kind = "exchange" /\ job[r].target \in Issued /\ job[r].since <= nextId
    BY <1>0, <2>1 DEF Shown, Trading, Bystander
  <2>3. ~Removed(job[r].target)
    <3>1. ~Return(r)
      BY <1>0, <2>1 DEF Return, TypeInv, TypeOK
    <3> QED
      BY <1>6, <3>1 DEF GetCode, Removed
  <2>4. \A t \in tokens : t.receipt.code # job[r].target
    BY <2>2, <2>3 DEF SpendInv, Spent, Issued
  <2>5. Trading(at[r], job[r])'
    BY <2>1, <2>2, <2>4 DEF Trading, Since, Issued
  <2> QED
    BY <1>1, <2>1, <2>5
<1>7. CASE RemoveCode(r)
  <2>1. /\ at[r] = "removeCode" /\ at'[r] = "insertAccess" /\ job'[r] = job[r]
        /\ UNCHANGED <<tokens, nextId>>
        /\ codes' = {k \in codes : k.id # job[r].target}
    BY <1>0, <1>7 DEF RemoveCode, GoTo, TypeInv, TypeOK
  <2>2. Trading(at[r], job[r])'
    BY <1>0, <2>1 DEF Trading, Bystander, Since, Removed, Issued
  <2> QED
    BY <1>1, <2>1, <2>2
<1>8. CASE UsedRefreshToken(r)
  <2>1. /\ at[r] = "usedRefreshToken" /\ at'[r] = "insertAccess" /\ job'[r] = job[r]
        /\ UNCHANGED <<codes, tokens>>
    BY <1>0, <1>8 DEF UsedRefreshToken, GoTo, TypeInv, TypeOK
  <2>2. Trading(at[r], job[r])'
    BY <1>0, <2>1 DEF Trading, Shown
  <2> QED
    BY <1>1, <2>1, <2>2
<1>9. CASE /\ GetRefreshToken(r)
           /\ \E t \in refreshTokens :
                /\ Refreshes(job[r], t)
                /\ job' = [job EXCEPT ![r].grant =
                             [t.grant EXCEPT !.scope = job[r].scope,
                                             !.offline = FALSE]]
                /\ \E s \in {"usedRefreshToken", "insertAccess"} : GoTo(r, s)
  <2>1. /\ at[r] = "getRefreshToken" /\ at'[r] \in {"usedRefreshToken", "insertAccess"}
        /\ job'[r].kind = job[r].kind /\ UNCHANGED <<codes, tokens>>
    <3>1. \E g : job' = [job EXCEPT ![r].grant = g]
      BY <1>9
    <3>2. job'[r].kind = job[r].kind
      BY <1>0, <3>1 DEF Jobs, TypeInv, TypeOK
    <3> QED
      BY <1>0, <1>9, <3>2 DEF GetRefreshToken, GoTo, TypeInv, TypeOK
  <2>2. job'[r].kind # "exchange"
    BY <1>0, <2>1 DEF Shown
  <2>3. Trading(at[r], job[r])'
    BY <2>1, <2>2 DEF Trading
  <2> QED
    BY <1>1, <2>1, <2>3
<1>10. CASE InsertAccess(r)
  BY <1>10, AccessSpends
<1> QED
  BY <1>2, <1>3, <1>4, <1>5, <1>6, <1>7, <1>8, <1>9, <1>10 DEF CarryGrant

\* When two access tokens came from the same code, neither request began after
\* the other's token was inserted: the code is gone when a token is inserted for
\* it, and only a request that had found it before can go on.
THEOREM CodesSpentTogether == Spec => []CodesAreSpentTogether
<1>1. Init => SpendInv
  BY InitType DEF Init, SpendInv, ReachInv, Shown, TokensReachTheirClient, CodesAreSpentTogether,
                  Trading, Bystander
<1>2. SpendInv /\ [Next]_vars => SpendInv'
  <2> SUFFICES ASSUME SpendInv, [Next]_vars PROVE SpendInv'
    OBVIOUS
  <2>1. TypeInv /\ ReachInv'
    BY ReachKept DEF SpendInv, ReachInv
  <2>2. CASE Frame
    BY <2>1, <2>2, SpendKept DEF Frame
  <2>3. CASE \E r \in Requests : RequestStep(r) /\ CarryGrant(r)
    BY <2>1, <2>3, CarrySpends
  <2> QED
    BY <2>1, <2>2, <2>3, RequestFrames, OtherFrames
<1>3. SpendInv => CodesAreSpentTogether
  BY DEF SpendInv
<1> QED
  BY <1>1, <1>2, <1>3, PTL DEF Spec

=============================================================================
