----------------------- MODULE SessionVerificationProofs -----------------------
(***************************************************************************)
(* Theorems about SigninGates and SessionVerification: codes are accepted  *)
(* once, and the verification and the assurance of a session, and the      *)
(* second factor of the account, are what their users earned, whatever the *)
(* requests that overlap and whichever of their calls fail.                *)
(***************************************************************************)
EXTENDS SessionVerification, TLAPS

-----------------------------------------------------------------------------
(* Codes.                                                                  *)

\* A code that is known was not accepted yet.
KnownAreUnused ==
  /\ DOMAIN unblock \cap DOMAIN signin = {}
  /\ \A c \in Known : uses[c] = 0

GateInv == GTypeOK /\ KnownAreUnused /\ CodesAreAcceptedOnce

LEMMA FunctionsType ==
  ASSUME NEW S, NEW T, NEW f
  PROVE  f \in Functions(S, T) <=>
           f = [x \in DOMAIN f |-> f[x]] /\ DOMAIN f \subseteq S /\ \A x \in DOMAIN f : f[x] \in T
<1>1. ASSUME f \in Functions(S, T)
      PROVE  f = [x \in DOMAIN f |-> f[x]] /\ DOMAIN f \subseteq S /\ \A x \in DOMAIN f : f[x] \in T
  BY <1>1 DEF Functions
<1>2. ASSUME f = [x \in DOMAIN f |-> f[x]], DOMAIN f \subseteq S, \A x \in DOMAIN f : f[x] \in T
      PROVE  f \in Functions(S, T)
  <2>1. f \in [DOMAIN f -> T]
    BY <1>2
  <2> QED
    BY <1>2, <2>1 DEF Functions
<1> QED
  BY <1>1, <1>2

LEMMA GateInit == GInit => GateInv
<1> SUFFICES ASSUME GInit PROVE GateInv
  OBVIOUS
<1>1. unblock \in Functions(Codes, Times) /\ DOMAIN unblock = {}
  <2>1. unblock = [c \in {} |-> 0]
    BY DEF GInit
  <2>2. DOMAIN unblock = {} /\ unblock = [x \in DOMAIN unblock |-> unblock[x]]
    BY <2>1
  <2> QED
    BY <2>2, FunctionsType
<1>2. signin \in Functions(Codes, Flows \cup {None}) /\ DOMAIN signin = {}
  <2>1. signin = [c \in {} |-> None]
    BY DEF GInit
  <2>2. DOMAIN signin = {} /\ signin = [x \in DOMAIN signin |-> signin[x]]
    BY <2>1
  <2> QED
    BY <2>2, FunctionsType
<1>3. GTypeOK
  BY <1>1, <1>2, GateAssumption DEF GInit, GTypeOK, Times
<1> QED
  BY <1>1, <1>2, <1>3 DEF GInit, GateInv, KnownAreUnused, Known, CodesAreAcceptedOnce

\* Code c is gone from f.
LEMMA WithoutType ==
  ASSUME NEW S, NEW T, NEW f \in Functions(S, T), NEW c
  PROVE  Without(f, c) \in Functions(S, T) /\ DOMAIN Without(f, c) = DOMAIN f \ {c}
BY FunctionsType DEF Without

\* A step that draws no code: the codes that remain were known, and one of those
\* that go may be accepted.
LEMMA SpendStep ==
  ASSUME GateInv, NEW c,
         unblock' \in Functions(Codes, Times), signin' \in Functions(Codes, Flows \cup {None}),
         DOMAIN unblock' \subseteq DOMAIN unblock, DOMAIN signin' \subseteq DOMAIN signin,
         gate' \in [Requests -> Gates \cup {None}], clock' \in Times, faults' \in 0..MaxFaults,
         uses' = uses \/ (c \in Known /\ c \notin Known' /\ Used(c))
  PROVE  GateInv'
<1>1. Known \subseteq Codes
  BY FunctionsType DEF Known, GateInv, GTypeOK
<1>2. DOMAIN unblock' \cap DOMAIN signin' = {} /\ Known' \subseteq Known
  BY DEF GateInv, KnownAreUnused, Known
<1>3. CASE uses' = uses
  BY <1>2, <1>3 DEF GateInv, GTypeOK, KnownAreUnused, CodesAreAcceptedOnce
<1>4. CASE c \in Known /\ c \notin Known' /\ Used(c)
  <2>1. c \in Codes /\ uses[c] = 0
    BY <1>1, <1>4 DEF GateInv, KnownAreUnused
  <2>2. \A d \in Codes : uses'[d] = IF d = c THEN 1 ELSE uses[d]
    BY <1>4, <2>1 DEF Used, GateInv, GTypeOK
  <2>3. uses' \in [Codes -> 0..2]
    BY <1>4, <2>1 DEF Used, GateInv, GTypeOK
  <2> QED
    BY <1>1, <1>2, <1>4, <2>2, <2>3 DEF GateInv, GTypeOK, KnownAreUnused, CodesAreAcceptedOnce
<1> QED
  BY <1>3, <1>4

LEMMA GateMoves ==
  ASSUME GateInv, NEW r \in Requests, gate[r] # None, NEW pc,
         pc \in {"customs", "account", "consume", "load", "passed", "refused"}, Move(r, pc)
  PROVE  gate' \in [Requests -> Gates \cup {None}]
<1>1. gate[r] \in Gates
  BY DEF GateInv, GTypeOK
<1>2. [gate[r] EXCEPT !.pc = pc] \in Gates
  BY <1>1 DEF Gates
<1> QED
  BY <1>2 DEF Move, GateInv, GTypeOK

LEMMA GateSteps ==
  ASSUME GateInv, GNext
  PROVE  GateInv'
<1>0. GTypeOK
  BY DEF GateInv
<1>1. ASSUME NEW c \in Codes, SendUnblockCode(c) PROVE GateInv'
  <2>1. c \notin Known /\ uses' = [uses EXCEPT ![c] = 0] /\ UNCHANGED <<signin, gate, clock, faults>>
        /\ unblock' = [d \in DOMAIN unblock \cup {c} |-> IF d = c THEN clock ELSE unblock[d]]
    BY <1>1 DEF SendUnblockCode, CreateUnblockCode
  <2>2. unblock' \in Functions(Codes, Times) /\ DOMAIN unblock' = DOMAIN unblock \cup {c}
    BY <1>0, <2>1, FunctionsType DEF GTypeOK
  <2>3. uses' \in [Codes -> 0..2]
    BY <1>0, <2>1 DEF GTypeOK
  <2> QED
    BY <1>0, <2>1, <2>2, <2>3, FunctionsType DEF GateInv, GTypeOK, KnownAreUnused, Known, CodesAreAcceptedOnce
<1>2. ASSUME NEW c \in Codes, NEW f \in Flows, NEW d \in Codes, SendSms(f, c, d) PROVE GateInv'
  <2>1. c \notin Known /\ uses' = [uses EXCEPT ![c] = 0] /\ UNCHANGED <<unblock, gate, clock, faults>>
        /\ signin' = [e \in DOMAIN signin \cup {c} |->
             IF e # c THEN signin[e] ELSE IF d = c THEN f ELSE None]
    BY <1>2 DEF SendSms, CreateSigninCode
  <2>2. signin' \in Functions(Codes, Flows \cup {None}) /\ DOMAIN signin' = DOMAIN signin \cup {c}
    BY <1>0, <2>1, FunctionsType DEF GTypeOK
  <2>3. uses' \in [Codes -> 0..2]
    BY <1>0, <2>1 DEF GTypeOK
  <2> QED
    BY <1>0, <2>1, <2>2, <2>3, FunctionsType DEF GateInv, GTypeOK, KnownAreUnused, Known, CodesAreAcceptedOnce
<1>3. ASSUME NEW c \in Codes, RejectUnblockCode(c) PROVE GateInv'
  <2>1. unblock' \in Functions(Codes, Times) /\ DOMAIN unblock' = DOMAIN unblock \ {c}
    BY <1>0, <1>3, WithoutType DEF RejectUnblockCode, GTypeOK
  <2>2. c \in Known /\ c \notin Known'
    BY <1>3, <2>1 DEF RejectUnblockCode, Known, GateInv, KnownAreUnused
  <2> QED
    BY <1>0, <1>3, <2>1, <2>2, SpendStep DEF RejectUnblockCode, GTypeOK
<1>4. ASSUME NEW c \in Codes, ConsumeSigninCode(c) PROVE GateInv'
  <2>1. signin' \in Functions(Codes, Flows \cup {None}) /\ DOMAIN signin' = DOMAIN signin \ {c}
    BY <1>0, <1>4, WithoutType DEF ConsumeSigninCode, GTypeOK
  <2>2. c \in Known /\ c \notin Known'
    BY <1>4, <2>1 DEF ConsumeSigninCode, Known, GateInv, KnownAreUnused
  <2> QED
    BY <1>0, <1>4, <2>1, <2>2, SpendStep DEF ConsumeSigninCode, GTypeOK
<1>5. ASSUME NEW r \in Requests, Allowed(r) \/ Blocked(r) \/ Unblockable(r) \/ Account(r) \/ GateFails(r)
      PROVE  GateInv'
  <2>1. gate[r] # None /\ UNCHANGED <<unblock, signin, clock, uses>>
        /\ \E pc \in {"customs", "account", "consume", "load", "passed", "refused"} : Move(r, pc)
    BY <1>5 DEF Allowed, Blocked, Unblockable, Account, GateFails, AtGate
  <2>2. gate' \in [Requests -> Gates \cup {None}]
    BY <2>1, GateMoves
  <2>3. faults' \in 0..MaxFaults
    BY <1>0, <1>5, GateAssumption DEF Allowed, Blocked, Unblockable, Account, GateFails, GTypeOK
  <2> QED
    BY <1>0, <2>1, <2>2, <2>3, SpendStep DEF GTypeOK
<1>6. ASSUME NEW r \in Requests, Consume(r) PROVE GateInv'
  <2> DEFINE c == gate[r].code
  <2>1. gate[r] # None /\ UNCHANGED <<signin, clock, faults>> /\ unblock' = Without(unblock, c)
        /\ (Move(r, "passed") \/ Move(r, "refused"))
        /\ (uses' = uses \/ (c \in DOMAIN unblock /\ Used(c)))
    BY <1>6 DEF Consume, AtGate
  <2>2. unblock' \in Functions(Codes, Times) /\ DOMAIN unblock' = DOMAIN unblock \ {c}
    BY <1>0, <2>1, WithoutType DEF GTypeOK
  <2>3. gate' \in [Requests -> Gates \cup {None}]
    BY <2>1, GateMoves
  <2>4. c \in DOMAIN unblock => c \in Known /\ c \notin Known'
    BY <2>1, <2>2 DEF Known, GateInv, KnownAreUnused
  <2> HIDE DEF c
  <2> QED
    BY <1>0, <2>1, <2>2, <2>3, <2>4, SpendStep DEF GTypeOK
<1>7. CASE Tick
  <2>1. clock' \in Times /\ UNCHANGED <<unblock, signin, gate, uses, faults>>
    BY <1>0, <1>7, GateAssumption DEF Tick, gatevars, Times, GTypeOK
  <2> QED
    BY <1>0, <2>1, SpendStep DEF GTypeOK
<1> QED
  BY <1>1, <1>2, <1>3, <1>4, <1>5, <1>6, <1>7 DEF GNext

-----------------------------------------------------------------------------
(* What a request under way may rely on.                                   *)

\* Session i must be verified before it may do what asked for that.
MustVerify(i) == i \in DOMAIN rows /\ rows[i].must

\* Request r goes on with what it read: a secret it enables was entered, a
\* session it raises earned that, and so did one that was assured; what it read
\* of the TOTP token and of the session still holds unless it was overtaken.
JobOK(r) ==
  /\ job[r].pc = "enable" => job[r].op = "totp" /\ job[r].new \in entered
  /\ job[r].pc \in {"gate", "update"} => job[r].op = "reauth"
  /\ job[r].pc = "consume" => job[r].op = "recovery"
  /\ job[r].pc = "raise" => job[r].op \in {"totp", "recovery"}
  /\ job[r].pc \in {"enable", "notify", "replace", "raise"}
       /\ job[r].op \in {"totp", "recovery"} => job[r].sess \in earned
  /\ Assured(job[r].tok) => job[r].sess \in earned
  /\ job[r].got # 0 => job[r].pc \in {"raise", "answer"}
  /\ job[r].pc = "delete" /\ ~job[r].had /\ Enabled => r \in overtaken
  /\ job[r].op = "reauth" /\ MustVerify(job[r].sess) /\ ~job[r].tok.must => r \in overtaken
JobsOK == \A r \in Requests : job[r] # None => JobOK(r)

\* No two sessions wait for the same, and what is verified waits for nothing.
VersAreOwn ==
  /\ \A i, k \in DOMAIN rows : rows[i].ver = rows[k].ver => i = k \/ Verified(rows[i])
  /\ \A i \in DOMAIN rows : Verified(rows[i]) => ~rows[i].coded

Inv ==
  /\ GateInv
  /\ TypeOK
  /\ JobsOK
  /\ VersAreOwn
  /\ AssuranceIsEarned
  /\ EnabledIsUsable

LEMMA JobIs ==
  ASSUME Inv, NEW r \in Requests, job[r] # None
  PROVE  /\ job[r] \in JobRecords /\ JobOK(r)
         /\ job[r].op \in Ops /\ job[r].sess \in Sessions /\ job[r].tok \in Rows
         /\ job[r].had \in BOOLEAN /\ job[r].new \in Secrets \cup {None}
         /\ job[r].got \in 0..MaxBatch
<1>1. job[r] \in JobRecords
  BY DEF Inv, TypeOK
<1>2. JobOK(r)
  BY DEF Inv, JobsOK
<1> QED
  BY <1>1, <1>2 DEF JobRecords

\* The other requests rely on what they did if request r, or nobody, takes a
\* step that disturbs nothing of that.
LEMMA JobsStep ==
  ASSUME Inv, NEW r,
         job' \in [Requests -> JobRecords \cup {None}],
         \A q \in Requests : q # r => job'[q] = job[q],
         r \in Requests /\ job'[r] # None => JobOK(r)',
         entered \subseteq entered',
         \A q \in Requests \ {r} : q \in overtaken => q \in overtaken',
         \A q \in Requests \ {r} :
           job[q] # None /\ job[q].sess \in earned => job[q].sess \in earned',
         \A q \in Requests \ {r} : At(q, "delete") /\ Enabled' => Enabled \/ q \in overtaken',
         \A q \in Requests \ {r} : job[q] # None /\ job[q].op = "reauth" =>
           (MustVerify(job[q].sess)' => MustVerify(job[q].sess) \/ q \in overtaken')
  PROVE  JobsOK'
<1> SUFFICES ASSUME NEW q \in Requests, job'[q] # None PROVE JobOK(q)'
  BY DEF JobsOK
<1>1. CASE q = r
  BY <1>1
<1>2. CASE q # r
  <2>1. job'[q] = job[q] /\ job[q] # None
    BY <1>2
  <2>2. JobOK(q)
    BY <2>1, JobIs
  <2> QED
    BY <1>2, <2>1, <2>2 DEF JobOK, At, MustVerify
<1> QED
  BY <1>1, <1>2

\* Recovery codes that request r makes, or is to show, are in force.
Pending(r) ==
  \/ Is(r, "totp", "notify") \/ At(r, "replace")
  \/ job[r] # None /\ job[r].got = batch /\ batch # 0

LEMMA CodesStep ==
  ASSUME Inv, NEW r, batch' = batch, shown \subseteq shown',
         Enabled' /\ ~broken' => Enabled /\ ~broken,
         \A q \in Requests : q # r => job'[q] = job[q],
         r \in Requests /\ Pending(r) => broken' \/ batch \in shown' \/ Pending(r)'
  PROVE  EnabledHasCodes'
<1> SUFFICES ASSUME Enabled', ~broken'
             PROVE  batch \in shown' \/ \E q \in Requests : Pending(q)'
  BY DEF EnabledHasCodes, Pending
<1>1. batch \in shown \/ \E q \in Requests : Pending(q)
  BY DEF Inv, EnabledIsUsable, EnabledHasCodes, Pending
<1>2. ASSUME NEW q \in Requests, q # r, Pending(q) PROVE Pending(q)'
  BY <1>2 DEF Pending, Is, At
<1> QED
  BY <1>1, <1>2

\* Request r takes a step that leaves the sessions, and enables no TOTP token.
LEMMA QuietStep ==
  ASSUME Inv, GateInv', NEW r \in Requests,
         job' \in [Requests -> JobRecords \cup {None}],
         \A q \in Requests : q # r => job'[q] = job[q],
         job'[r] # None => JobOK(r)',
         UNCHANGED <<rows, batch, swapped>>,
         totp' \in Totps \cup {None}, totp' = totp \/ ~Enabled',
         left' \in 0..CodeCount,
         shown \subseteq shown', shown' \subseteq 1..MaxBatch,
         entered \subseteq entered', entered' \subseteq Secrets,
         earned \subseteq earned', earned' \subseteq Sessions,
         overtaken' = overtaken \/ overtaken' = overtaken \ {r},
         broken' \in BOOLEAN, broken => broken',
         Pending(r) => broken' \/ batch \in shown' \/ Pending(r)'
  PROVE  Inv'
<1>1. Enabled' => Enabled
  BY DEF Enabled
<1>2. JobsOK'
  BY <1>1, JobsStep DEF MustVerify
<1>3. EnabledHasCodes'
  BY <1>1, CodesStep
<1>4. EnabledWasConfirmed'
  BY <1>1 DEF Inv, EnabledIsUsable, EnabledWasConfirmed, Enabled
<1>5. TypeOK'
  BY DEF Inv, TypeOK, GateInv
<1>6. VersAreOwn' /\ AssuranceIsEarned'
  BY DEF Inv, VersAreOwn, AssuranceIsEarned
<1> QED
  BY <1>2, <1>3, <1>4, <1>5, <1>6 DEF Inv, EnabledIsUsable

\* A request ends, with or without an error.
LEMMA EndStep ==
  ASSUME Inv, NEW r \in Requests, End(r)
  PROVE  /\ job' \in [Requests -> JobRecords \cup {None}]
         /\ \A q \in Requests : q # r => job'[q] = job[q]
         /\ job'[r] = None /\ overtaken' = overtaken \ {r}
BY DEF End, Inv, TypeOK

\* A request goes on to place pc.
LEMMA GoStep ==
  ASSUME Inv, NEW r \in Requests, job[r] # None, NEW pc, Go(r, pc),
         pc \in {"notify", "replace", "raise", "answer"}
  PROVE  /\ job' \in [Requests -> JobRecords \cup {None}]
         /\ \A q \in Requests : q # r => job'[q] = job[q]
         /\ job'[r] \in JobRecords /\ job'[r] # None /\ job'[r].pc = pc
         /\ job'[r].op = job[r].op /\ job'[r].sess = job[r].sess /\ job'[r].tok = job[r].tok
         /\ job'[r].had = job[r].had /\ job'[r].new = job[r].new /\ job'[r].got = job[r].got
<1> DEFINE b == [job[r] EXCEPT !.pc = pc]
<1>1. job[r] \in JobRecords
  BY JobIs
<1>2. b \in JobRecords /\ b.pc = pc /\ b.op = job[r].op /\ b.sess = job[r].sess
      /\ b.tok = job[r].tok /\ b.had = job[r].had /\ b.new = job[r].new /\ b.got = job[r].got
  BY <1>1 DEF JobRecords
<1>3. job' = [job EXCEPT ![r] = b]
  BY DEF Go
<1>4. b # None
  BY <1>2, RecordAssumption
<1> HIDE DEF b
<1> QED
  BY <1>2, <1>3, <1>4 DEF Inv, TypeOK

-----------------------------------------------------------------------------
(* Each request.                                                           *)

LEMMA SpawnStep ==
  ASSUME Inv, NEW r \in Requests, NEW i \in Sessions, NEW op \in Ops,
         NEW pc \in {"gate", "read", "create", "replace", "consume", "copy"},
         op \in {"totp", "recovery"} => pc # "replace",
         pc = "consume" => op = "recovery", pc = "gate" => op = "reauth",
         Spawn(r, i, op, pc), GateInv'
  PROVE  Inv'
<1> DEFINE b == [op |-> op, pc |-> pc, sess |-> i, tok |-> rows[i], had |-> FALSE,
                 new |-> None, got |-> 0]
<1>1. /\ job[r] = None /\ i \in DOMAIN rows /\ job' = [job EXCEPT ![r] = b]
      /\ UNCHANGED <<rows, totp, batch, left, hvars>>
  BY DEF Spawn
<1>2. b \in JobRecords /\ b # None /\ b.op = op /\ b.pc = pc /\ b.sess = i
      /\ b.tok = rows[i] /\ b.got = 0
  <2>1. rows[i] \in Rows /\ 0 \in 0..MaxBatch
    BY <1>1, VerificationAssumption DEF Inv, TypeOK
  <2>2. b \in JobRecords
    BY <2>1 DEF JobRecords
  <2> QED
    BY <2>2, RecordAssumption
<1> HIDE DEF b
<1>3. /\ job' \in [Requests -> JobRecords \cup {None}] /\ job'[r] = b
      /\ \A q \in Requests : q # r => job'[q] = job[q]
  BY <1>1, <1>2 DEF Inv, TypeOK
<1>4. UNCHANGED <<shown, entered, earned, overtaken, swapped, broken>>
  BY <1>1 DEF hvars
<1>5. JobOK(r)'
  BY <1>1, <1>2, <1>3, <1>4 DEF JobOK, Inv, AssuranceIsEarned, MustVerify
<1>6. Pending(r) => FALSE
  BY <1>1 DEF Pending, Is, At
<1> QED
  BY <1>1, <1>3, <1>4, <1>5, <1>6, QuietStep DEF Inv, TypeOK

LEMMA SameGates ==
  ASSUME Inv, UNCHANGED gvars
  PROVE  GateInv'
BY DEF Inv, gvars, gatevars, GateInv, GTypeOK, KnownAreUnused, Known, CodesAreAcceptedOnce

\* Gates are entered and left, and no code is used.
LEMMA GateChange ==
  ASSUME Inv, UNCHANGED <<unblock, signin, uses, clock>>, faults' \in 0..MaxFaults,
         gate' \in [Requests -> Gates \cup {None}]
  PROVE  GateInv'
BY DEF Inv, GateInv, GTypeOK, KnownAreUnused, Known, CodesAreAcceptedOnce

LEMMA StartsKeep ==
  ASSUME Inv, NEW r \in Requests, NEW i \in Sessions,
         \/ \E op \in Ops : StartVerified(r, i, op) \/ StartAny(r, i, op)
         \/ StartReplace(r, i)
         \/ \E c \in Codes \cup {None} : StartReauth(r, i, c)
  PROVE  Inv'
<1>1. ASSUME NEW op \in Ops, StartVerified(r, i, op) PROVE Inv'
  BY <1>1, SameGates, SpawnStep DEF StartVerified, Ops
<1>2. ASSUME NEW op \in Ops, StartAny(r, i, op) PROVE Inv'
  BY <1>2, SameGates, SpawnStep DEF StartAny, Ops
<1>3. CASE StartReplace(r, i)
  BY <1>3, SameGates, SpawnStep DEF StartReplace, Ops
<1>4. ASSUME NEW c \in Codes \cup {None}, StartReauth(r, i, c) PROVE Inv'
  <2>1. [pc |-> "customs", code |-> c] \in Gates
    BY DEF Gates
  <2>2. GateInv'
    BY <1>4, <2>1, GateChange DEF StartReauth, Enter, Inv, GateInv, GTypeOK
  <2> QED
    BY <1>4, <2>2, SpawnStep DEF StartReauth, Ops
<1> QED
  BY <1>1, <1>2, <1>3, <1>4

LEMMA FailsKeep ==
  ASSUME Inv, NEW r \in Requests, Fails(r)
  PROVE  Inv'
<1>1. /\ job[r] # None /\ End(r) /\ faults' = faults + 1 /\ faults < MaxFaults
      /\ broken' = (broken \/ job[r].pc \in {"notify", "replace", "raise", "answer"})
      /\ UNCHANGED <<gatevars, clock, rows, totp, batch, left, shown, entered, earned, swapped>>
  BY DEF Fails
<1>2. GateInv'
  BY <1>1, GateAssumption, GateChange DEF gatevars, Inv, GateInv, GTypeOK
<1>3. Pending(r) => broken'
  BY <1>1, JobIs DEF Pending, Is, At, JobOK
<1>4. broken' \in BOOLEAN /\ (broken => broken')
  BY <1>1
<1> QED
  BY <1>1, <1>2, <1>3, <1>4, EndStep, QuietStep DEF Inv, TypeOK

\* A request that only ends, as it has nothing pending.
LEMMA EndKeeps ==
  ASSUME Inv, NEW r \in Requests, End(r), ~Pending(r), UNCHANGED gvars,
         UNCHANGED <<rows, batch, left, shown, entered, earned, swapped>>,
         totp' \in Totps \cup {None}, totp' = totp \/ ~Enabled',
         broken' \in BOOLEAN, broken => broken'
  PROVE  Inv'
BY SameGates, EndStep, QuietStep DEF Inv, TypeOK

\* What is not at a place where codes are made or shown has none to show.
LEMMA NothingPending ==
  ASSUME Inv, NEW r \in Requests, job[r] # None,
         job[r].pc \notin {"notify", "replace", "raise", "answer"}
  PROVE  ~Pending(r)
BY JobIs DEF Pending, Is, At, JobOK

LEMMA CreateTotpKeeps ==
  ASSUME Inv, NEW r \in Requests, NEW s \in Secrets, CreateTotp(r, s)
  PROVE  Inv'
<1>1. /\ job[r] # None /\ job[r].pc = "create" /\ End(r)
      /\ UNCHANGED <<gvars, rows, batch, left, shown, entered, earned, swapped, broken>>
  BY DEF CreateTotp, Is, At
<1>2. totp' \in Totps \cup {None} /\ (totp' = totp \/ ~Enabled')
  BY DEF CreateTotp, Totps, Enabled, Inv, TypeOK
<1> QED
  BY <1>1, <1>2, NothingPending, EndKeeps DEF Inv, TypeOK

LEMMA ReadForDeleteKeeps ==
  ASSUME Inv, NEW r \in Requests, ReadForDelete(r)
  PROVE  Inv'
<1>1. /\ job[r] # None /\ job[r].pc = "read"
      /\ UNCHANGED <<gvars, rows, totp, batch, left, shown, entered, earned, swapped, broken>>
  BY DEF ReadForDelete, Is, At
<1>2. ~Pending(r)
  BY <1>1, NothingPending
<1>3. CASE End(r)
  BY <1>1, <1>2, <1>3, EndKeeps DEF Inv, TypeOK
<1>4. CASE job' = [job EXCEPT ![r].had = Enabled, ![r].pc = "delete"] /\ overtaken' = overtaken
  <2> DEFINE b == [job[r] EXCEPT !.had = Enabled, !.pc = "delete"]
  <2>1. job[r] \in JobRecords /\ JobOK(r) /\ Enabled \in BOOLEAN
    BY <1>1, JobIs DEF Enabled, Inv, TypeOK, Totps
  <2>2. b \in JobRecords /\ b.pc = "delete" /\ (Enabled => b.had) /\ b.op = job[r].op
        /\ b.sess = job[r].sess /\ b.tok = job[r].tok /\ b.got = job[r].got
    BY <2>1 DEF JobRecords
  <2>3. job' = [job EXCEPT ![r] = b]
    BY <1>4
  <2> HIDE DEF b
  <2>4. /\ job' \in [Requests -> JobRecords \cup {None}] /\ job'[r] = b
        /\ \A q \in Requests : q # r => job'[q] = job[q]
    BY <2>2, <2>3 DEF Inv, TypeOK
  <2>5. Enabled' = Enabled /\ (job'[r].op = "reauth" => FALSE)
    BY <1>1, <2>2, <2>4 DEF Enabled, ReadForDelete, Is
  <2>6. JobOK(r)'
    BY <1>1, <1>4, <2>1, <2>2, <2>4, <2>5 DEF JobOK
  <2> QED
    BY <1>1, <1>2, <1>4, <2>4, <2>6, SameGates, QuietStep DEF Inv, TypeOK
<1> QED
  BY <1>3, <1>4 DEF ReadForDelete

LEMMA DeleteTotpKeeps ==
  ASSUME Inv, NEW r \in Requests, DeleteTotp(r)
  PROVE  Inv'
<1>1. /\ job[r] # None /\ job[r].pc = "delete"
      /\ UNCHANGED <<gvars, rows, batch, left, shown, entered, earned, swapped>>
  BY DEF DeleteTotp, At
<1>2. ~Pending(r) /\ Enabled \in BOOLEAN
  BY <1>1, NothingPending DEF Enabled, Inv, TypeOK, Totps
<1>3. CASE End(r) /\ UNCHANGED <<totp, broken>>
  BY <1>1, <1>2, <1>3, EndKeeps DEF Inv, TypeOK
<1>4. CASE totp' = None /\ End(r) /\ broken' = (broken \/ Enabled)
  BY <1>1, <1>2, <1>4, EndKeeps DEF Inv, TypeOK, Enabled
<1>5. CASE totp' = None /\ job[r].op = "destroy" /\ Go(r, "notify") /\ UNCHANGED <<overtaken, broken>>
  <2>1. JobOK(r)
    BY <1>1, JobIs
  <2>2. JobOK(r)'
    <3>1. job'[r].pc = "notify" /\ job'[r].op = "destroy" /\ job'[r].sess = job[r].sess
          /\ job'[r].tok = job[r].tok /\ job'[r].got = job[r].got
      BY <1>1, <1>5, GoStep
    <3> QED
      BY <1>1, <2>1, <3>1 DEF JobOK
  <2>3. /\ job' \in [Requests -> JobRecords \cup {None}]
        /\ \A q \in Requests : q # r => job'[q] = job[q]
    BY <1>1, <1>5, GoStep
  <2>4. ~Enabled'
    BY <1>5 DEF Enabled
  <2> QED
    BY <1>1, <1>2, <1>5, <2>2, <2>3, <2>4, SameGates, QuietStep DEF Inv, TypeOK
<1> QED
  BY <1>3, <1>4, <1>5 DEF DeleteTotp

LEMMA ReadTotpKeeps ==
  ASSUME Inv, NEW r \in Requests, NEW valid, ReadTotp(r, valid)
  PROVE  Inv'
<1>1. /\ job[r] # None /\ job[r].pc = "read" /\ job[r].op = "totp"
      /\ UNCHANGED <<gvars, rows, totp, batch, left, shown, swapped, broken>>
  BY DEF ReadTotp, Is, At
<1>2. ~Pending(r)
  BY <1>1, NothingPending
<1>3. CASE End(r) /\ UNCHANGED <<entered, earned>>
  BY <1>1, <1>2, <1>3, EndKeeps DEF Inv, TypeOK
<1>4. CASE /\ totp # None
           /\ job' = [job EXCEPT ![r].had = totp.enabled, ![r].new = totp.secret,
                                 ![r].pc = IF totp.enabled THEN "raise" ELSE "enable"]
           /\ entered' = entered \cup {totp.secret}
           /\ earned' = earned \cup {job[r].sess}
           /\ overtaken' = overtaken
  <2> DEFINE pc == IF totp.enabled THEN "raise" ELSE "enable"
             had == totp.enabled
             new == totp.secret
             b == [job[r] EXCEPT !.had = had, !.new = new, !.pc = pc]
  <2>1. job[r] \in JobRecords /\ JobOK(r) /\ job[r].sess \in Sessions
    BY <1>1, JobIs
  <2>2. had \in BOOLEAN /\ new \in Secrets /\ pc \in {"raise", "enable"}
    BY <1>4 DEF Inv, TypeOK, Totps
  <2>3. job' = [job EXCEPT ![r] = b]
    BY <1>4
  <2>4. entered' = entered \cup {new}
    BY <1>4
  <2> HIDE DEF had, new, pc
  <2>5. b \in JobRecords /\ b.pc = pc /\ b.new = new /\ b.op = job[r].op
        /\ b.sess = job[r].sess /\ b.tok = job[r].tok /\ b.got = job[r].got
    BY <2>1, <2>2 DEF JobRecords
  <2> HIDE DEF b
  <2>6. /\ job' \in [Requests -> JobRecords \cup {None}] /\ job'[r] = b
        /\ \A q \in Requests : q # r => job'[q] = job[q]
    BY <2>3, <2>5 DEF Inv, TypeOK
  <2>7. JobOK(r)'
    BY <1>1, <1>4, <2>1, <2>2, <2>4, <2>5, <2>6 DEF JobOK
  <2> QED
    BY <1>1, <1>2, <1>4, <2>1, <2>2, <2>4, <2>6, <2>7, SameGates, QuietStep DEF Inv, TypeOK
<1> QED
  BY <1>3, <1>4 DEF ReadTotp

LEMMA EnableKeeps ==
  ASSUME Inv, NEW r \in Requests, Enable(r)
  PROVE  Inv'
<1>1. /\ job[r] # None /\ job[r].pc = "enable"
      /\ UNCHANGED <<gvars, rows, batch, left, shown, entered, earned, broken>>
  BY DEF Enable, At
<1>2. ~Pending(r)
  BY <1>1, NothingPending
<1>3. CASE End(r) /\ UNCHANGED <<totp, swapped>>
  BY <1>1, <1>2, <1>3, EndKeeps DEF Inv, TypeOK
<1>4. CASE /\ totp # None
           /\ totp' = [totp EXCEPT !.enabled = TRUE]
           /\ swapped' = (swapped \/ totp.secret # job[r].new)
           /\ Go(r, "notify")
           /\ overtaken' = overtaken \cup {q \in Requests : At(q, "delete")}
  <2>1. JobOK(r) /\ job[r].op = "totp" /\ job[r].new \in entered
    BY <1>1, JobIs DEF JobOK
  <2>2. /\ job' \in [Requests -> JobRecords \cup {None}]
        /\ \A q \in Requests : q # r => job'[q] = job[q]
        /\ job'[r] # None /\ job'[r].pc = "notify" /\ job'[r].op = "totp"
        /\ job'[r].sess = job[r].sess /\ job'[r].tok = job[r].tok /\ job'[r].got = job[r].got
    BY <1>1, <1>4, <2>1, GoStep
  <2>3. JobOK(r)'
    BY <1>1, <1>4, <2>1, <2>2 DEF JobOK
  <2>4. JobsOK'
    BY <1>1, <1>4, <2>2, <2>3, JobsStep DEF MustVerify
  <2>5. EnabledHasCodes'
    BY <2>2 DEF EnabledHasCodes, Is, At
  <2>6. EnabledWasConfirmed'
    BY <1>1, <1>4, <2>1 DEF EnabledWasConfirmed, Inv, TypeOK, Totps
  <2>7. totp' \in Totps
    BY <1>4 DEF Inv, TypeOK, Totps
  <2>8. TypeOK'
    BY <1>1, <1>4, <2>2, <2>7, SameGates DEF Inv, TypeOK, GateInv
  <2> QED
    BY <1>1, <2>4, <2>5, <2>6, <2>8, SameGates DEF Inv, EnabledIsUsable, VersAreOwn,
       AssuranceIsEarned
<1> QED
  BY <1>3, <1>4 DEF Enable

LEMMA NotifyKeeps ==
  ASSUME Inv, NEW r \in Requests, Notify(r)
  PROVE  Inv'
<1>1. /\ job[r] # None /\ job[r].pc = "notify"
      /\ UNCHANGED <<gvars, rows, totp, batch, left, shown, entered, earned, swapped, broken>>
  BY DEF Notify, At
<1>2. JobOK(r)
  BY <1>1, JobIs
<1>3. CASE job[r].op # "totp" /\ End(r)
  BY <1>1, <1>2, <1>3, EndKeeps DEF Inv, TypeOK, Pending, Is, At, JobOK
<1>4. CASE job[r].op = "totp" /\ Go(r, "replace") /\ overtaken' = overtaken
  <2>1. /\ job' \in [Requests -> JobRecords \cup {None}]
        /\ \A q \in Requests : q # r => job'[q] = job[q]
        /\ job'[r] # None /\ job'[r].pc = "replace" /\ job'[r].op = "totp"
        /\ job'[r].sess = job[r].sess /\ job'[r].tok = job[r].tok /\ job'[r].got = job[r].got
    BY <1>1, <1>4, GoStep
  <2>2. JobOK(r)' /\ Pending(r)'
    BY <1>1, <1>2, <1>4, <2>1 DEF JobOK, Pending, At
  <2> QED
    BY <1>1, <1>4, <2>1, <2>2, SameGates, QuietStep DEF Inv, TypeOK
<1> QED
  BY <1>3, <1>4 DEF Notify

LEMMA ReplaceKeeps ==
  ASSUME Inv, NEW r \in Requests, Replace(r)
  PROVE  Inv'
<1> DEFINE got == batch + 1
           pc == IF job[r].op = "totp" THEN "raise" ELSE "answer"
           b == [job[r] EXCEPT !.got = got, !.pc = pc]
<1>1. /\ job[r] # None /\ job[r].pc = "replace"
      /\ UNCHANGED <<gvars, rows, totp, shown, entered, earned, overtaken, swapped, broken>>
      /\ batch < MaxBatch /\ batch' = got /\ left' = CodeCount
      /\ job' = [job EXCEPT ![r] = b]
  BY DEF Replace, ReplaceRecoveryCodes, At, hvars
<1>2. job[r] \in JobRecords /\ JobOK(r)
  BY <1>1, JobIs
<1>3. got \in 0..MaxBatch /\ got # 0 /\ CodeCount \in 0..CodeCount
  BY <1>1, VerificationAssumption DEF Inv, TypeOK
<1>4. pc \in {"raise", "answer"} /\ (pc = "raise" => job[r].op = "totp")
  OBVIOUS
<1> HIDE DEF got, pc
<1>5. b \in JobRecords /\ b.pc = pc /\ b.got = got /\ b.op = job[r].op
      /\ b.sess = job[r].sess /\ b.tok = job[r].tok
  BY <1>2, <1>3, <1>4 DEF JobRecords
<1> HIDE DEF b
<1>6. /\ job' \in [Requests -> JobRecords \cup {None}] /\ job'[r] = b /\ b # None
      /\ \A q \in Requests : q # r => job'[q] = job[q]
  BY <1>1, <1>5, RecordAssumption DEF Inv, TypeOK
<1>7. JobOK(r)'
  <2>1. job'[r].pc \in {"raise", "answer"} /\ (job'[r].pc = "raise" => job'[r].op = "totp")
        /\ job'[r].op = job[r].op /\ job'[r].sess = job[r].sess /\ job'[r].tok = job[r].tok
    BY <1>4, <1>5, <1>6
  <2> QED
    BY <1>1, <1>2, <2>1 DEF JobOK, MustVerify
<1>8. JobsOK'
  BY <1>1, <1>6, <1>7, JobsStep DEF MustVerify, Enabled
<1>9. EnabledHasCodes'
  BY <1>1, <1>3, <1>5, <1>6 DEF EnabledHasCodes
<1>10. TypeOK'
  BY <1>1, <1>3, <1>6, SameGates DEF Inv, TypeOK, GateInv
<1> QED
  BY <1>1, <1>8, <1>9, <1>10, SameGates DEF Inv, EnabledIsUsable, EnabledWasConfirmed,
     Enabled, VersAreOwn, AssuranceIsEarned

LEMMA AnswerKeeps ==
  ASSUME Inv, NEW r \in Requests, Answer(r)
  PROVE  Inv'
<1>1. /\ job[r] # None /\ job[r].pc = "answer" /\ End(r)
      /\ shown' = shown \cup ({job[r].got} \ {0})
      /\ UNCHANGED <<gvars, rows, totp, batch, left, entered, earned, swapped, broken>>
  BY DEF Answer, At
<1>2. job[r].got \in 0..MaxBatch
  BY <1>1, JobIs
<1>3. shown' \subseteq 1..MaxBatch
  <2>1. job[r].got # 0 => job[r].got \in 1..MaxBatch
    BY <1>2, VerificationAssumption
  <2> QED
    BY <1>1, <2>1 DEF Inv, TypeOK
<1>4. Pending(r) => batch \in shown'
  BY <1>1 DEF Pending, Is, At
<1> QED
  BY <1>1, <1>3, <1>4, SameGates, EndStep, QuietStep DEF Inv, TypeOK

LEMMA ConsumeRecoveryKeeps ==
  ASSUME Inv, NEW r \in Requests, ConsumeRecovery(r)
  PROVE  Inv'
<1>1. /\ job[r] # None /\ job[r].pc = "consume"
      /\ UNCHANGED <<gvars, rows, totp, batch, shown, entered, swapped, broken>>
  BY DEF ConsumeRecovery, At
<1>2. ~Pending(r) /\ JobOK(r) /\ job[r].sess \in Sessions
  BY <1>1, NothingPending, JobIs
<1>3. CASE End(r) /\ UNCHANGED <<left, earned>>
  BY <1>1, <1>2, <1>3, EndKeeps DEF Inv, TypeOK
<1>4. CASE /\ ConsumeRecoveryCode /\ earned' = earned \cup {job[r].sess} /\ Go(r, "raise")
           /\ UNCHANGED overtaken
  <2>0. job[r].op = "recovery"
    BY <1>1, <1>2 DEF JobOK
  <2>1. /\ job' \in [Requests -> JobRecords \cup {None}]
        /\ \A q \in Requests : q # r => job'[q] = job[q]
        /\ job'[r] # None /\ job'[r].pc = "raise" /\ job'[r].op = "recovery"
        /\ job'[r].sess = job[r].sess /\ job'[r].tok = job[r].tok /\ job'[r].got = job[r].got
    BY <1>1, <1>4, <2>0, GoStep
  <2>2. JobOK(r)'
    BY <1>1, <1>2, <1>4, <2>1 DEF JobOK
  <2>3. left' \in 0..CodeCount
    BY <1>4, VerificationAssumption DEF ConsumeRecoveryCode, Inv, TypeOK
  <2> QED
    BY <1>1, <1>2, <1>4, <2>1, <2>2, <2>3, SameGates, QuietStep DEF Inv, TypeOK
<1> QED
  BY <1>3, <1>4 DEF ConsumeRecovery

LEMMA ReauthPassedKeeps ==
  ASSUME Inv, NEW r \in Requests, NEW match, ReauthPassed(r, match)
  PROVE  Inv'
<1>1. /\ job[r] # None /\ job[r].pc = "gate" /\ Leave(r)
      /\ UNCHANGED <<clock, faults, rows, totp, batch, left, shown, entered, earned,
                     swapped, broken>>
  BY DEF ReauthPassed, At
<1>2. GateInv'
  <2>1. gate' \in [Requests -> Gates \cup {None}] /\ UNCHANGED <<unblock, signin, uses>>
    BY <1>1 DEF Leave, Inv, GateInv, GTypeOK
  <2> QED
    BY <1>1, <2>1, GateChange DEF Inv, GateInv, GTypeOK
<1>3. ~Pending(r) /\ JobOK(r) /\ job[r] \in JobRecords
  BY <1>1, NothingPending, JobIs
<1>4. CASE End(r)
  BY <1>1, <1>2, <1>3, <1>4, EndStep, QuietStep DEF Inv, TypeOK
<1>5. CASE job' = [job EXCEPT ![r].had = Enabled, ![r].pc = "update"] /\ overtaken' = overtaken
  <2> DEFINE had == Enabled
             b == [job[r] EXCEPT !.had = had, !.pc = "update"]
  <2>1. had \in BOOLEAN
    BY DEF Enabled, Inv, TypeOK, Totps
  <2>2. job' = [job EXCEPT ![r] = b]
    BY <1>5
  <2> HIDE DEF had
  <2>3. b \in JobRecords /\ b.pc = "update" /\ b.op = job[r].op /\ b.sess = job[r].sess
        /\ b.tok = job[r].tok /\ b.got = job[r].got
    BY <1>3, <2>1 DEF JobRecords
  <2> HIDE DEF b
  <2>4. /\ job' \in [Requests -> JobRecords \cup {None}] /\ job'[r] = b
        /\ \A q \in Requests : q # r => job'[q] = job[q]
    BY <2>2, <2>3 DEF Inv, TypeOK
  <2>5. job'[r].pc = "update" /\ job'[r].op = job[r].op /\ job'[r].sess = job[r].sess
        /\ job'[r].tok = job[r].tok /\ job'[r].got = job[r].got
    BY <2>3, <2>4
  <2>6. job[r].op = "reauth"
    BY <1>1, <1>3 DEF JobOK
  <2>7. JobOK(r)'
    BY <1>1, <1>3, <1>5, <2>5, <2>6 DEF JobOK, MustVerify
  <2> QED
    BY <1>1, <1>2, <1>3, <1>5, <2>4, <2>7, QuietStep DEF Inv, TypeOK
<1> QED
  BY <1>4, <1>5 DEF ReauthPassed

\* A step of request r, or of nobody, that changes sessions: those that it makes
\* are nobody's, and those that become assured have earned it.
LEMMA RowsKeep ==
  ASSUME Inv, GateInv', NEW r,
         job' \in [Requests -> JobRecords \cup {None}],
         \A q \in Requests : q # r => job'[q] = job[q],
         r \in Requests /\ job'[r] # None => JobOK(r)',
         UNCHANGED <<totp, batch, left, shown, entered, swapped>>,
         DOMAIN rows' \subseteq Sessions, \A i \in DOMAIN rows' : rows'[i] \in Rows,
         VersAreOwn', AssuranceIsEarned',
         earned' \subseteq Sessions, overtaken' \subseteq Requests,
         \A q \in Requests \ {r} : q \in overtaken => q \in overtaken',
         \A q \in Requests \ {r} :
           job[q] # None /\ job[q].sess \in earned => job[q].sess \in earned',
         \A q \in Requests \ {r} : job[q] # None /\ job[q].op = "reauth" =>
           (MustVerify(job[q].sess)' => MustVerify(job[q].sess) \/ q \in overtaken'),
         broken' \in BOOLEAN, broken => broken',
         r \in Requests /\ Pending(r) => broken' \/ Pending(r)'
  PROVE  Inv'
<1>1. JobsOK'
  BY JobsStep DEF Enabled
<1>2. EnabledHasCodes'
  BY CodesStep DEF Enabled
<1>3. EnabledWasConfirmed'
  BY DEF Inv, EnabledIsUsable, EnabledWasConfirmed, Enabled
<1>4. TypeOK'
  BY DEF Inv, TypeOK, GateInv
<1> QED
  BY <1>1, <1>2, <1>3, <1>4 DEF Inv, EnabledIsUsable

\* What verifies one session verifies that one only.
LEMMA VerifyOne ==
  ASSUME Inv, NEW V, NEW i \in DOMAIN rows, V \subseteq {rows[i].ver}, None \notin V
  PROVE  /\ DOMAIN Verify(V) = DOMAIN rows
         /\ \A k \in DOMAIN rows : k # i => Verify(V)[k] = rows[k]
         /\ Verify(V)[i] \in Rows
         /\ Verify(V)[i].method = rows[i].method /\ Verify(V)[i].must = rows[i].must
         /\ Verify(V)[i] = rows[i] \/ (Verified(Verify(V)[i]) /\ ~Verify(V)[i].coded)
<1>1. \A k \in DOMAIN rows : k # i => rows[k].ver \notin V
  BY DEF Inv, VersAreOwn, Verified
<1>2. rows[i] \in Rows
  BY DEF Inv, TypeOK
<1>3. [rows[i] EXCEPT !.ver = None, !.coded = FALSE] \in Rows
  BY <1>2 DEF Rows
<1> QED
  BY <1>1, <1>2, <1>3 DEF Verify, Verified, Rows

LEMMA LinkKeeps ==
  ASSUME Inv, NEW i \in Sessions, VerifyLink(i) \/ VerifyTokenCode(i) \/ CodeExpires(i)
  PROVE  Inv'
<1>1. i \in DOMAIN rows /\ UNCHANGED <<gvars, totp, batch, left, job, hvars>>
  BY DEF VerifyLink, VerifyTokenCode, CodeExpires
<1>2. /\ DOMAIN rows' = DOMAIN rows
      /\ \A k \in DOMAIN rows : k # i => rows'[k] = rows[k]
      /\ rows'[i] \in Rows
      /\ rows'[i].method = rows[i].method /\ rows'[i].must = rows[i].must
      /\ Verified(rows'[i]) => ~rows'[i].coded
      /\ rows'[i].ver = rows[i].ver \/ Verified(rows'[i])
  <2>1. CASE rows' = Verify({rows[i].ver}) /\ rows[i].ver # None
    BY <1>1, <2>1, VerifyOne DEF Inv, VersAreOwn
  <2>2. CASE rows' = [rows EXCEPT ![i].coded = FALSE]
    BY <1>1, <2>2 DEF Inv, TypeOK, Rows
  <2>3. rows[i].coded => rows[i].ver # None
    BY <1>1 DEF Inv, VersAreOwn, Verified
  <2> QED
    BY <2>1, <2>2, <2>3 DEF VerifyLink, VerifyTokenCode, CodeExpires, Verified
<1>3. VersAreOwn' /\ AssuranceIsEarned'
  BY <1>1, <1>2 DEF Inv, VersAreOwn, AssuranceIsEarned, Verified, Assured, hvars
<1>4. \A k : MustVerify(k)' = MustVerify(k)
  BY <1>1, <1>2 DEF MustVerify
<1>5. PICK r : r \notin Requests
  BY NoSetContainsEverything
<1>6. UNCHANGED <<job, totp, batch, left, shown, entered, earned, overtaken, swapped, broken>>
  BY <1>1 DEF hvars
<1>7. TypeOK /\ GateInv'
  BY <1>1, SameGates DEF Inv
<1> QED
  BY <1>2, <1>3, <1>4, <1>5, <1>6, <1>7, RowsKeep DEF TypeOK

LEMMA RaiseKeeps ==
  ASSUME Inv, NEW r \in Requests, Raise(r)
  PROVE  Inv'
<1> DEFINE i == job[r].sess
           m == IF job[r].op = "totp" THEN "totp-2fa" ELSE "recovery-code"
           needed == IF job[r].op = "totp" THEN ~Assured(job[r].tok) ELSE ~Verified(job[r].tok)
<1>1. /\ job[r] # None /\ job[r].pc = "raise"
      /\ UNCHANGED <<gvars, totp, batch, left, shown, entered, earned, swapped>>
  BY DEF Raise, At
<1>2. JobOK(r) /\ job[r].op \in {"totp", "recovery"} /\ i \in earned /\ i \in Sessions
  BY <1>1, JobIs DEF JobOK
<1>3. CASE End(r) /\ rows' = rows /\ broken' = TRUE
  BY <1>1, <1>3, SameGates, EndStep, QuietStep DEF Inv, TypeOK
<1>4. ASSUME Go(r, "answer"), UNCHANGED <<overtaken, broken>>
      PROVE  /\ job' \in [Requests -> JobRecords \cup {None}]
             /\ \A q \in Requests : q # r => job'[q] = job[q]
             /\ JobOK(r)'
             /\ Pending(r) => Pending(r)'
  <2>1. /\ job' \in [Requests -> JobRecords \cup {None}]
        /\ \A q \in Requests : q # r => job'[q] = job[q]
        /\ job'[r] # None /\ job'[r].pc = "answer" /\ job'[r].op = job[r].op
        /\ job'[r].sess = job[r].sess /\ job'[r].tok = job[r].tok /\ job'[r].got = job[r].got
    BY <1>1, <1>4, GoStep
  <2>2. JobOK(r)'
    BY <1>1, <1>2, <2>1 DEF JobOK
  <2>3. Pending(r) => Pending(r)'
    BY <1>1, <2>1 DEF Pending, Is, At
  <2> QED
    BY <2>1, <2>2, <2>3
<1>5. CASE rows' = rows /\ Go(r, "answer") /\ UNCHANGED <<overtaken, broken>>
  BY <1>1, <1>4, <1>5, SameGates, QuietStep DEF Inv, TypeOK
<1>6. CASE /\ i \in DOMAIN rows /\ Go(r, "answer") /\ UNCHANGED <<overtaken, broken>>
           /\ rows' = [Verify({rows[i].ver} \ {None}) EXCEPT ![i].method = m]
  <2> DEFINE W == Verify({rows[i].ver} \ {None})
  <2>1. /\ DOMAIN W = DOMAIN rows
        /\ \A k \in DOMAIN rows : k # i => W[k] = rows[k]
        /\ W[i] \in Rows /\ W[i].must = rows[i].must
        /\ W[i] = rows[i] \/ (Verified(W[i]) /\ ~W[i].coded)
    BY <1>6, VerifyOne
  <2>2. rows' = [W EXCEPT ![i].method = m] /\ m \in Methods
    BY <1>6 DEF Methods
  <2> HIDE DEF W, m
  <2>3. /\ DOMAIN rows' = DOMAIN rows
        /\ \A k \in DOMAIN rows : k # i => rows'[k] = rows[k]
        /\ rows'[i] \in Rows /\ rows'[i].must = rows[i].must
        /\ Verified(rows'[i]) => ~rows'[i].coded
        /\ rows'[i].ver = rows[i].ver \/ Verified(rows'[i])
    <3>1. Verified(W[i]) => ~W[i].coded
      BY <1>6, <2>1 DEF Inv, VersAreOwn
    <3>2. W[i].ver = rows[i].ver \/ Verified(W[i])
      BY <2>1
    <3>3. rows'[i] = [W[i] EXCEPT !.method = m]
      BY <1>6, <2>1, <2>2
    <3>4. /\ rows'[i] \in Rows /\ rows'[i].must = W[i].must
          /\ rows'[i].ver = W[i].ver /\ rows'[i].coded = W[i].coded
      BY <2>1, <2>2, <3>3 DEF Rows
    <3> QED
      BY <1>6, <2>1, <2>2, <3>1, <3>2, <3>4 DEF Verified
  <2>4. VersAreOwn' /\ AssuranceIsEarned'
    BY <1>1, <1>2, <2>3 DEF Inv, VersAreOwn, AssuranceIsEarned, Verified, Assured
  <2>5. \A k : MustVerify(k)' = MustVerify(k)
    BY <2>3 DEF MustVerify
  <2>6. TypeOK /\ GateInv'
    BY <1>1, SameGates DEF Inv
  <2> QED
    BY <1>1, <1>4, <1>6, <2>3, <2>4, <2>5, <2>6, RowsKeep DEF TypeOK
<1> QED
  BY <1>3, <1>5, <1>6 DEF Raise

LEMMA UpdateSessionKeeps ==
  ASSUME Inv, NEW r \in Requests, NEW wants \in BOOLEAN, UpdateSession(r, wants)
  PROVE  Inv'
<1> DEFINE i == job[r].sess
           must == Must(r, wants)
<1>1. /\ job[r] # None /\ job[r].pc = "update"
      /\ rows' = [k \in DOMAIN rows |-> IF k = i THEN [rows[k] EXCEPT !.must = must] ELSE rows[k]]
      /\ job' = [job EXCEPT ![r] = None]
      /\ overtaken' = (overtaken \ {r}) \cup {q \in Requests \ {r} :
            must /\ job[q] # None /\ job[q].op = "reauth" /\ job[q].sess = i}
      /\ UNCHANGED <<gvars, totp, batch, left, shown, entered, earned, swapped, broken>>
  BY DEF UpdateSession, At
<1>2. must \in BOOLEAN
  <2>1. job[r].tok.must \in BOOLEAN /\ job[r].had \in BOOLEAN
    BY <1>1, JobIs DEF Rows
  <2> QED
    BY <2>1 DEF Must
<1>3. ~Pending(r)
  BY <1>1, NothingPending
<1> HIDE DEF must
<1>4. /\ DOMAIN rows' = DOMAIN rows
      /\ \A k \in DOMAIN rows : /\ rows'[k] \in Rows
                               /\ rows'[k].ver = rows[k].ver
                               /\ rows'[k].coded = rows[k].coded
                               /\ rows'[k].method = rows[k].method
                               /\ rows'[k].must = IF k = i THEN must ELSE rows[k].must
  BY <1>1, <1>2 DEF Inv, TypeOK, Rows
<1>5. VersAreOwn' /\ AssuranceIsEarned'
  BY <1>1, <1>4 DEF Inv, VersAreOwn, AssuranceIsEarned, Verified, Assured
<1>6. \A q \in Requests \ {r} : job[q] # None /\ job[q].op = "reauth" =>
        (MustVerify(job[q].sess)' => MustVerify(job[q].sess) \/ q \in overtaken')
  BY <1>1, <1>4 DEF MustVerify
<1>7. /\ job' \in [Requests -> JobRecords \cup {None}] /\ job'[r] = None
      /\ \A q \in Requests : q # r => job'[q] = job[q]
  BY <1>1 DEF Inv, TypeOK
<1>8. overtaken' \subseteq Requests /\ TypeOK /\ GateInv'
  BY <1>1, SameGates DEF Inv, TypeOK
<1>9. \A q \in Requests \ {r} : q \in overtaken => q \in overtaken'
  BY <1>1
<1> QED
  BY <1>1, <1>3, <1>4, <1>5, <1>6, <1>7, <1>8, <1>9, RowsKeep DEF TypeOK

LEMMA DuplicateKeeps ==
  ASSUME Inv, NEW r \in Requests, NEW k \in Sessions, NEW v \in Vers, NEW method \in Methods,
         Duplicate(r, k, v, method)
  PROVE  Inv'
<1> DEFINE s == job[r].tok
           b == [Copied(s, v) EXCEPT !.method = method]
<1>1. /\ job[r] # None /\ job[r].pc = "copy" /\ k \notin DOMAIN rows
      /\ \A q \in Requests : job[q] # None => job[q].sess # k
      /\ \A i \in DOMAIN rows : rows[i].ver # v
      /\ method \in {s.method, "none"}
      /\ rows' = [i \in DOMAIN rows \cup {k} |-> IF i = k THEN b ELSE rows[i]]
      /\ earned' = IF job[r].sess \in earned THEN earned \cup {k} ELSE earned \ {k}
      /\ End(r)
      /\ UNCHANGED <<gvars, totp, batch, left, shown, entered, swapped, broken>>
  BY DEF Duplicate, At
<1>2. JobOK(r) /\ s \in Rows /\ ~Pending(r)
  BY <1>1, JobIs, NothingPending
<1>3. /\ b \in Rows /\ ~b.coded /\ b.method = method
      /\ Verified(b) \/ b.ver = v
  BY <1>2 DEF Copied, Rows, Verified
<1>4. Assured(b) => k \in earned'
  <2>1. Assured(b) => Assured(s)
    BY <1>1, <1>3 DEF Assured
  <2> QED
    BY <1>1, <1>2, <2>1 DEF JobOK
<1> HIDE DEF b
<1>5. /\ DOMAIN rows' = DOMAIN rows \cup {k} /\ rows'[k] = b
      /\ \A i \in DOMAIN rows : rows'[i] = rows[i]
  BY <1>1
<1>6. VersAreOwn'
  BY <1>1, <1>3, <1>5 DEF Inv, VersAreOwn, Verified
<1>7. AssuranceIsEarned'
  BY <1>1, <1>4, <1>5 DEF Inv, AssuranceIsEarned
<1>8. \A q \in Requests \ {r} :
        job[q] # None => (MustVerify(job[q].sess)' => MustVerify(job[q].sess))
  <2>1. \A i : i # k => (MustVerify(i)' => MustVerify(i))
    BY <1>5 DEF MustVerify
  <2>2. \A q \in Requests \ {r} : job'[q] = job[q]
    BY <1>1, EndStep
  <2> QED
    BY <1>1, <2>1, <2>2 DEF MustVerify
<1>9. /\ DOMAIN rows' \subseteq Sessions /\ \A i \in DOMAIN rows' : rows'[i] \in Rows
      /\ earned' \subseteq Sessions
  BY <1>1, <1>3, <1>5 DEF Inv, TypeOK
<1>10. \A q \in Requests \ {r} :
         job[q] # None /\ job[q].sess \in earned => job[q].sess \in earned'
  BY <1>1
<1>11. TypeOK /\ GateInv'
  BY <1>1, SameGates DEF Inv
<1> QED
  BY <1>1, <1>2, <1>6, <1>7, <1>8, <1>9, <1>10, <1>11, EndStep, RowsKeep DEF TypeOK

LEMMA DestroySessionKeeps ==
  ASSUME Inv, NEW i \in Sessions, DestroySession(i)
  PROVE  Inv'
<1>1. /\ rows' = [k \in DOMAIN rows \ {i} |-> rows[k]]
      /\ UNCHANGED <<gvars, totp, batch, left, job, shown, entered, earned, overtaken,
                     swapped, broken>>
  BY DEF DestroySession, hvars
<1>2. DOMAIN rows' \subseteq DOMAIN rows /\ \A k \in DOMAIN rows' : rows'[k] = rows[k]
  BY <1>1
<1>3. VersAreOwn' /\ AssuranceIsEarned'
  BY <1>1, <1>2 DEF Inv, VersAreOwn, AssuranceIsEarned
<1>4. \A k : MustVerify(k)' => MustVerify(k)
  BY <1>2 DEF MustVerify
<1>5. PICK r : r \notin Requests
  BY NoSetContainsEverything
<1>6. TypeOK /\ GateInv'
  BY <1>1, SameGates DEF Inv
<1> QED
  BY <1>1, <1>2, <1>3, <1>4, <1>5, <1>6, RowsKeep DEF TypeOK

-----------------------------------------------------------------------------
(* The invariant.                                                          *)

LEMMA StepKeeps ==
  ASSUME Inv, Next
  PROVE  Inv'
<1>1. CASE GNext /\ UNCHANGED vvars
  <2>1. GateInv'
    BY <1>1, GateSteps DEF Inv
  <2>2. UNCHANGED <<rows, totp, batch, left, job, shown, entered, earned, overtaken, swapped, broken>>
    BY <1>1 DEF vvars, hvars
  <2>3. TypeOK'
    BY <2>1, <2>2 DEF Inv, TypeOK, GateInv
  <2> QED
    BY <2>1, <2>2, <2>3 DEF Inv, JobsOK, JobOK, MustVerify, VersAreOwn, AssuranceIsEarned,
       EnabledIsUsable, EnabledWasConfirmed, EnabledHasCodes, Enabled, Is, At
<1>2. ASSUME NEW r \in Requests, NEW i \in Sessions,
             \/ \E op \in Ops : StartVerified(r, i, op) \/ StartAny(r, i, op)
             \/ StartReplace(r, i)
             \/ \E c \in Codes \cup {None} : StartReauth(r, i, c)
      PROVE  Inv'
  BY <1>2, StartsKeep
<1>3. ASSUME NEW r \in Requests, Fails(r) \/ \E s \in Secrets : CreateTotp(r, s)
      PROVE  Inv'
  BY <1>3, FailsKeep, CreateTotpKeeps
<1>4. ASSUME NEW r \in Requests,
             \/ ReadForDelete(r) \/ DeleteTotp(r) \/ Enable(r) \/ Notify(r) \/ Replace(r)
             \/ Raise(r) \/ Answer(r) \/ ConsumeRecovery(r)
      PROVE  Inv'
  BY <1>4, ReadForDeleteKeeps, DeleteTotpKeeps, EnableKeeps, NotifyKeeps, ReplaceKeeps,
     RaiseKeeps, AnswerKeeps, ConsumeRecoveryKeeps
<1>5. ASSUME NEW r \in Requests, NEW b \in BOOLEAN,
             ReadTotp(r, b) \/ ReauthPassed(r, b) \/ UpdateSession(r, b)
      PROVE  Inv'
  BY <1>5, ReadTotpKeeps, ReauthPassedKeeps, UpdateSessionKeeps
<1>6. ASSUME NEW r \in Requests, NEW k \in Sessions, NEW v \in Vers, NEW m \in Methods,
             Duplicate(r, k, v, m)
      PROVE  Inv'
  BY <1>6, DuplicateKeeps
<1>7. ASSUME NEW i \in Sessions,
             VerifyLink(i) \/ VerifyTokenCode(i) \/ CodeExpires(i) \/ DestroySession(i)
      PROVE  Inv'
  BY <1>7, LinkKeeps, DestroySessionKeeps
<1> QED
  BY <1>1, <1>2, <1>3, <1>4, <1>5, <1>6, <1>7 DEF Next

LEMMA InvInit == Init => Inv
<1> SUFFICES ASSUME Init PROVE Inv
  OBVIOUS
<1>1. GateInv
  BY GateInit DEF Init
<1>2. DOMAIN rows \subseteq Sessions /\ \A i \in DOMAIN rows : rows[i] \in Rows
  BY FunctionsType DEF Init
<1>3. totp \in Totps \cup {None} /\ entered \subseteq Secrets
      /\ (totp # None => totp.secret \in entered)
  BY DEF Init, Totps
<1>4. shown \subseteq 1..MaxBatch /\ (batch # 0 => batch \in shown)
  BY VerificationAssumption DEF Init
<1>5. TypeOK
  BY <1>1, <1>2, <1>3, <1>4 DEF Init, TypeOK, GateInv
<1>6. EnabledIsUsable
  BY <1>3, <1>4 DEF Init, EnabledIsUsable, EnabledWasConfirmed, EnabledHasCodes, Enabled
<1> QED
  BY <1>1, <1>5, <1>6 DEF Init, Inv, JobsOK, VersAreOwn, AssuranceIsEarned

LEMMA Invariance == Spec => []Inv
<1>1. Inv /\ UNCHANGED vars => Inv'
  <2> SUFFICES ASSUME Inv, UNCHANGED vars PROVE Inv'
    OBVIOUS
  <2>1. GateInv'
    BY SameGates DEF vars
  <2>2. UNCHANGED <<rows, totp, batch, left, job, shown, entered, earned, overtaken, swapped, broken>>
    BY DEF vars, vvars, hvars
  <2>3. TypeOK'
    BY <2>1, <2>2 DEF Inv, TypeOK, GateInv
  <2> QED
    BY <2>1, <2>2, <2>3 DEF Inv, JobsOK, JobOK, MustVerify, VersAreOwn, AssuranceIsEarned,
       EnabledIsUsable, EnabledWasConfirmed, EnabledHasCodes, Enabled, Is, At
<1> QED
  BY InvInit, StepKeeps, <1>1, PTL DEF Spec

\* What the model says of its variables holds throughout.
THEOREM VerificationTypes == Spec => []TypeOK
BY Invariance, PTL DEF Inv

\* An unblock code or a sign-in code is accepted at most once, whichever requests
\* present it together (db.js consumeUnblockCode, consumeSigninCode).
THEOREM CodesOnce == Spec => []CodesAreAcceptedOnce
BY Invariance, PTL DEF Inv, GateInv

\* A session is assured only if a code of the second factor was entered in it or
\* in the session that it is a copy of (totp.js, recovery-codes.js, session.js).
THEOREM AssuredHaveEarned == Spec => []AssuranceIsEarned
BY Invariance, PTL DEF Inv

\* Nobody is locked out by the second factor that was set up: its secret was
\* confirmed, and recovery codes in force were shown or will be, save for the
\* overlaps and failures that the property names (totp.js).
THEOREM SecondFactorIsUsable == Spec => []EnabledIsUsable
BY Invariance, PTL DEF Inv

-----------------------------------------------------------------------------
(* What a step may not do.                                                 *)

\* Only the deletion of the TOTP token takes it away.
LEMMA OnlyDeleteTotp ==
  ASSUME Inv, Next, totp # None, totp' = None
  PROVE  \E r \in Requests : DeleteTotp(r)
<1>1. CASE GNext /\ UNCHANGED vvars
  BY <1>1 DEF vvars
<1>2. ASSUME NEW r \in Requests, NEW i \in Sessions,
             \/ \E op \in Ops : StartVerified(r, i, op) \/ StartAny(r, i, op)
             \/ StartReplace(r, i)
             \/ \E c \in Codes \cup {None} : StartReauth(r, i, c)
      PROVE  FALSE
  BY <1>2 DEF StartVerified, StartAny, StartReplace, StartReauth, Spawn
<1>3. ASSUME NEW r \in Requests,
             \/ Fails(r) \/ \E s \in Secrets : CreateTotp(r, s)
             \/ ReadForDelete(r) \/ Notify(r) \/ Replace(r)
             \/ Raise(r) \/ Answer(r) \/ ConsumeRecovery(r)
      PROVE  FALSE
  BY <1>3 DEF Fails, CreateTotp, ReadForDelete, Notify, Replace, ReplaceRecoveryCodes, Raise,
     Answer, ConsumeRecovery
<1>4. ASSUME NEW r \in Requests, Enable(r) PROVE FALSE
  <2>1. totp' = [totp EXCEPT !.enabled = TRUE]
    BY <1>4 DEF Enable
  <2>2. totp' \in Totps
    BY <2>1 DEF Inv, TypeOK, Totps
  <2> QED
    BY <2>2, RecordAssumption
<1>5. ASSUME NEW r \in Requests, NEW b \in BOOLEAN,
             ReadTotp(r, b) \/ ReauthPassed(r, b) \/ UpdateSession(r, b)
      PROVE  FALSE
  BY <1>5 DEF ReadTotp, ReauthPassed, UpdateSession
<1>6. ASSUME NEW r \in Requests, NEW k \in Sessions, NEW v \in Vers, NEW m \in Methods,
             Duplicate(r, k, v, m)
      PROVE  FALSE
  BY <1>6 DEF Duplicate
<1>7. ASSUME NEW i \in Sessions,
             VerifyLink(i) \/ VerifyTokenCode(i) \/ CodeExpires(i) \/ DestroySession(i)
      PROVE  FALSE
  BY <1>7 DEF VerifyLink, VerifyTokenCode, CodeExpires, DestroySession
<1> QED
  BY <1>1, <1>2, <1>3, <1>4, <1>5, <1>6, <1>7 DEF Next

\* A second factor that is enabled goes by a session that had it, or by a request
\* that looked before it was enabled (totp.js /totp/destroy, /totp/exists).
THEOREM SecondFactorIsKept == Spec => OnlySecondFactorDisables
<1>1. ASSUME Inv, Next, Enabled, totp' = None
      PROVE  \E r \in Requests : At(r, "delete") /\ job'[r] # job[r]
                                 /\ (r \in overtaken \/ Assured(job[r].tok))
  <2>1. PICK r \in Requests : DeleteTotp(r)
    BY <1>1, OnlyDeleteTotp DEF Enabled
  <2>2. At(r, "delete") /\ job[r] # None /\ job[r].pc = "delete" /\ MayDelete(r)
        /\ (Go(r, "notify") \/ End(r))
    BY <1>1, <2>1 DEF DeleteTotp, At, Enabled
  <2>3. job'[r] # job[r]
    BY <1>1, <2>2, GoStep, EndStep
  <2>4. r \in overtaken \/ Assured(job[r].tok)
    BY <1>1, <2>2, JobIs DEF JobOK, MayDelete
  <2> QED
    BY <2>2, <2>3, <2>4
<1>2. ASSUME UNCHANGED vars, Enabled PROVE totp' # None
  BY <1>2 DEF vars, vvars, Enabled
<1> QED
  BY <1>1, <1>2, Invariance, PTL DEF Spec, OnlySecondFactorDisables

LEMMA VerificationStep ==
  ASSUME Inv, Next
  PROVE  MustVerifyStays /\ SessionsAreVerifiedAlone
<1>0. ASSUME \A k \in DOMAIN rows \cap DOMAIN rows' :
               rows'[k].must = rows[k].must /\ rows'[k].ver = rows[k].ver
      PROVE  MustVerifyStays /\ SessionsAreVerifiedAlone
  BY <1>0 DEF MustVerifyStays, SessionsAreVerifiedAlone, Verified
<1>1. ASSUME NEW i \in DOMAIN rows,
             \A k \in DOMAIN rows : rows'[k].must = rows[k].must,
             \A k \in DOMAIN rows : k # i => rows'[k].ver = rows[k].ver
      PROVE  MustVerifyStays /\ SessionsAreVerifiedAlone
  BY <1>1 DEF MustVerifyStays, SessionsAreVerifiedAlone, Verified
<1>2. CASE GNext /\ UNCHANGED vvars
  BY <1>0, <1>2 DEF vvars
<1>3. ASSUME NEW r \in Requests, NEW i \in Sessions,
             \/ \E op \in Ops : StartVerified(r, i, op) \/ StartAny(r, i, op)
             \/ StartReplace(r, i)
             \/ \E c \in Codes \cup {None} : StartReauth(r, i, c)
      PROVE  UNCHANGED rows
  BY <1>3 DEF StartVerified, StartAny, StartReplace, StartReauth, Spawn
<1>4. ASSUME NEW r \in Requests,
             \/ Fails(r) \/ \E s \in Secrets : CreateTotp(r, s)
             \/ ReadForDelete(r) \/ DeleteTotp(r) \/ Enable(r) \/ Notify(r) \/ Replace(r)
             \/ Answer(r) \/ ConsumeRecovery(r)
             \/ \E b \in BOOLEAN : ReadTotp(r, b) \/ ReauthPassed(r, b)
      PROVE  UNCHANGED rows
  BY <1>4 DEF Fails, CreateTotp, ReadForDelete, DeleteTotp, Enable, Notify, Replace, Answer,
     ConsumeRecovery, ReadTotp, ReauthPassed
<1>5. ASSUME NEW r \in Requests, Raise(r) PROVE MustVerifyStays /\ SessionsAreVerifiedAlone
  <2> DEFINE i == job[r].sess
             m == IF job[r].op = "totp" THEN "totp-2fa" ELSE "recovery-code"
             W == Verify({rows[i].ver} \ {None})
  <2>1. CASE rows' = rows
    BY <1>0, <2>1
  <2>2. CASE i \in DOMAIN rows /\ rows' = [W EXCEPT ![i].method = m]
    <3>1. /\ DOMAIN W = DOMAIN rows
          /\ \A k \in DOMAIN rows : k # i => W[k] = rows[k]
          /\ W[i] \in Rows /\ W[i].must = rows[i].must
      BY <2>2, VerifyOne
    <3> HIDE DEF W, m
    <3>2. \A k \in DOMAIN rows : k # i => rows'[k] = rows[k]
      BY <2>2, <3>1
    <3>3. rows'[i] = [W[i] EXCEPT !.method = m]
      BY <2>2, <3>1
    <3>4. rows'[i].must = rows[i].must
      BY <3>1, <3>3 DEF Rows
    <3> HIDE DEF i
    <3> QED
      BY <1>1, <2>2, <3>2, <3>4
  <2> QED
    BY <1>5, <2>1, <2>2 DEF Raise
<1>6. ASSUME NEW r \in Requests, NEW b \in BOOLEAN, UpdateSession(r, b)
      PROVE  MustVerifyStays /\ SessionsAreVerifiedAlone
  <2> DEFINE i == job[r].sess
             must == Must(r, b)
  <2>1. /\ job[r] # None /\ job[r].pc = "update" /\ job' = [job EXCEPT ![r] = None]
        /\ rows' = [k \in DOMAIN rows |-> IF k = i THEN [rows[k] EXCEPT !.must = must] ELSE rows[k]]
    BY <1>6 DEF UpdateSession, At
  <2>2. JobOK(r) /\ job[r].op = "reauth" /\ job'[r] # job[r] /\ (job[r].tok.must => must)
    BY <2>1, JobIs DEF JobOK, Must, Inv, TypeOK
  <2> HIDE DEF must
  <2>3. /\ DOMAIN rows' = DOMAIN rows
        /\ \A k \in DOMAIN rows : rows'[k].ver = rows[k].ver
        /\ \A k \in DOMAIN rows : k # i => rows'[k] = rows[k]
        /\ must /\ i \in DOMAIN rows => rows'[i].must
    BY <2>1 DEF Inv, TypeOK, Rows
  <2>4. SessionsAreVerifiedAlone
    BY <2>3 DEF SessionsAreVerifiedAlone, Verified
  <2>5. ASSUME NEW k \in DOMAIN rows, rows[k].must, ~rows'[k].must
        PROVE  r \in overtaken /\ job[r].sess = k
    <3>1. k = i /\ ~must
      BY <2>3, <2>5
    <3> QED
      BY <2>2, <2>5, <3>1 DEF JobOK, MustVerify
  <2> QED
    BY <2>2, <2>4, <2>5 DEF MustVerifyStays
<1>7. ASSUME NEW r \in Requests, NEW k \in Sessions, NEW v \in Vers, NEW m \in Methods,
             Duplicate(r, k, v, m)
      PROVE  MustVerifyStays /\ SessionsAreVerifiedAlone
  BY <1>0, <1>7 DEF Duplicate
<1>8. ASSUME NEW i \in Sessions, DestroySession(i)
      PROVE  MustVerifyStays /\ SessionsAreVerifiedAlone
  BY <1>0, <1>8 DEF DestroySession
<1>9. ASSUME NEW i \in Sessions, VerifyLink(i) \/ VerifyTokenCode(i)
      PROVE  MustVerifyStays /\ SessionsAreVerifiedAlone
  <2>1. i \in DOMAIN rows /\ rows' = Verify({rows[i].ver}) /\ rows[i].ver # None
    BY <1>9 DEF VerifyLink, VerifyTokenCode, Verified, Inv, VersAreOwn
  <2>2. /\ Verify({rows[i].ver})[i].must = rows[i].must
        /\ \A k \in DOMAIN rows : k # i => rows'[k] = rows[k]
    BY <2>1, VerifyOne
  <2>3. \A k \in DOMAIN rows : rows'[k].must = rows[k].must
    BY <2>1, <2>2
  <2> QED
    BY <1>1, <2>1, <2>2, <2>3
<1>10. ASSUME NEW i \in Sessions, CodeExpires(i)
       PROVE  MustVerifyStays /\ SessionsAreVerifiedAlone
  <2>1. \A k \in DOMAIN rows : rows'[k].must = rows[k].must /\ rows'[k].ver = rows[k].ver
    BY <1>10 DEF CodeExpires, Inv, TypeOK, Rows
  <2> QED
    BY <1>0, <2>1
<1> QED
  BY <1>0, <1>2, <1>3, <1>4, <1>5, <1>6, <1>7, <1>8, <1>9, <1>10 DEF Next

\* What a session was asked to verify stays asked, save for a request that loaded
\* it before, and what verifies a session verifies no other (session.js, db.js).
THEOREM VerificationIsOwn == Spec => VerificationIsItsOwn
<1>1. Inv /\ UNCHANGED vars => MustVerifyStays /\ SessionsAreVerifiedAlone
  BY DEF vars, vvars, MustVerifyStays, SessionsAreVerifiedAlone
<1> QED
  BY <1>1, VerificationStep, Invariance, PTL DEF Spec, VerificationIsItsOwn
=============================================================================
