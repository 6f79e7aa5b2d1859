------------------------- MODULE PasswordFlowsProofs -------------------------
(***************************************************************************)
(* Theorems about PasswordFlows.  A request acts on credentials that it    *)
(* read earlier, so the invariant says what is true of them as long as     *)
(* they are still the account's: the salt tells whether they are, because  *)
(* no password change ever sends one that is in use.                       *)
(***************************************************************************)
EXTENDS PasswordFlows, TLAPS

\* Which requests come by which step.
Placed(r) ==
  /\ r.pc = "load" => r.op \in {"login", "changeStart", "forgotSend"}
  /\ r.pc = "check" => r.op \in {"login", "changeStart"}
  /\ r.pc = "totp" => r.op \in {"login", "changeFinish", "reset"}
  /\ r.pc = "session" => r.op = "changeFinish" /\ r.slot \in Slots
  /\ r.pc = "delete" => r.op = "changeFinish"
  /\ r.pc \in {"stamp", "apply", "reread", "announce"} => r.op \in Replacers
  /\ r.pc \in {"purge", "dropKey", "recovery"} => r.op = "reset"
  /\ r.recovery => r.op = "reset"
  /\ r.pc = "newSession" => r.op \in {"login", "changeFinish", "reset"}
  /\ r.pc = "newKeys" => r.op \in {"login", "changeStart", "changeFinish", "reset"}
  /\ r.pc = "issue" => r.op \in {"changeStart", "forgotSend"}
  /\ r.pc = "submit" => r.op = "forgotVerify"
  /\ r.pc = "serve" => r.op = "keys"
  /\ r.op \in {"login", "changeFinish", "reset"} => r.pw \in Passwords

\* The salt of a password that is, or was, the account's: not one that is on
\* its way to the database.
InUse(salt) ==
  /\ salt <= clock
  /\ \A k \in Jobs : job[k].pc = "apply" => job[k].stamp # salt

\* The salts on their way are new, and differ from each other.
Stamps ==
  \A j \in Jobs : job[j].pc = "apply" =>
    /\ job[j].stamp \in 1..clock
    /\ \A k \in Jobs : job[k].pc = "apply" /\ job[k].stamp = job[j].stamp => k = j

\* The requests that have kB, and those that have proved or set the password.
Applied == {"purge", "reread", "announce", "dropKey", "newSession", "newKeys"}
KnowsKb(r) == \/ r.op \in {"login", "changeStart"} /\ r.pc # "load"
              \/ r.op = "changeFinish"
              \/ r.op = "reset" /\ r.pc \in Applied
KnowsPw(r) == \/ r.op = "login" /\ r.pc \in {"totp", "newSession", "newKeys"}
              \/ r.op \in Replacers /\ r.pc \in Applied

\* What they know is right: the password until a change overtakes them, kB until
\* it is replaced.
Claim(r) ==
  /\ r.salt \in lineage /\ KnowsKb(r) => r.kb = account.kb
  /\ r.salt = account.salt /\ KnowsPw(r) => r.pw = account.pw

\* The generations since kB was last replaced, which those that know it are of.
LineageOK ==
  /\ account.salt \in lineage
  /\ \A salt \in lineage : InUse(salt)

\* A request that is to make a session knows whether there is a second factor.
FactorKnown(r) ==
  /\ r.op = "login" /\ r.pc = "newSession" => r.totp = account.totp
  /\ r.op = "reset" /\ r.pc \in Applied \cup {"stamp", "apply"}
       => r.totp = account.totp
  /\ r.pc = "session" => r.totp = account.totp
  /\ r.op = "changeFinish" /\ account.totp /\ r.verified => r.factor # "none"

JobOK(r) == Placed(r) /\ InUse(r.salt) /\ Claim(r) /\ FactorKnown(r)

TokenOK(kind, t) ==
  /\ InUse(t.salt)
  /\ kind = "change" /\ t.salt \in lineage => t.kb = account.kb

Tables == OldSessionsWereOvertaken /\ OldKeysWereOvertaken /\ SecondFactorHolds

IInv ==
  /\ TypeOK
  /\ \A j \in Jobs : JobOK(job[j])
  /\ Stamps
  /\ InUse(account.salt)
  /\ LineageOK
  /\ \A kind \in TokenKinds : \A t \in tokens[kind] : TokenOK(kind, t)
  /\ Tables

LEMMA IdleOK ==
  ASSUME IInv
  PROVE  Idle \in JobRecords /\ JobOK(Idle) /\ Idle.pc # "apply"
<1>1. Idle \in JobRecords /\ Idle.pc = "idle" /\ Idle.op = "none"
      /\ Idle.salt = 0 /\ ~Idle.recovery
  BY ConstantsAssumption DEF Idle, JobRecords, Kinds, Steps, Times, Ids, Tries, Factors
<1>2. InUse(0)
  BY ConstantsAssumption DEF IInv, TypeOK, Times, Stamps, InUse
<1> QED
  BY <1>1, <1>2 DEF JobOK, Placed, Claim, KnowsKb, KnowsPw, FactorKnown,
                    Replacers, Applied

LEMMA InitInv == Init => IInv
<1> SUFFICES ASSUME Init PROVE IInv
  OBVIOUS
<1>1. Idle \in JobRecords /\ Idle.pc = "idle" /\ Idle.op = "none"
      /\ Idle.salt = 0 /\ ~Idle.recovery
  BY ConstantsAssumption DEF Idle, JobRecords, Kinds, Steps, Times, Ids, Tries, Factors
<1>2. 0 \in Times /\ 0 \in Ids
  BY ConstantsAssumption DEF Times, Ids
<1>3. TypeOK
  <2>1. account \in Accounts
    BY <1>2 DEF Init, Accounts
  <2>2. job \in [Jobs -> JobRecords]
    BY <1>1 DEF Init
  <2>3. /\ sessions \in [Slots -> SessionRows \cup {None}]
        /\ keyFetches \in [Slots -> KeyFetchRows \cup {None}]
        /\ tokens \in [TokenKinds -> SUBSET TokenRows]
        /\ recovery \subseteq [kb : Times]
    BY DEF Init
  <2>4. /\ clock \in Times
        /\ issued \in Ids
        /\ spent \subseteq Ids
        /\ lineage \subseteq Times
        /\ wrong \in [Ids -> Nat]
        /\ announced \subseteq Times
        /\ faults \in 0..MaxFaults
    BY <1>2, ConstantsAssumption DEF Init
  <2> QED
    BY <2>1, <2>2, <2>3, <2>4 DEF TypeOK
<1>4. InUse(0) /\ account.salt = 0
  BY <1>1 DEF Init, InUse
<1>5. \A j \in Jobs : JobOK(job[j])
  BY <1>1, <1>4 DEF Init, JobOK, Placed, Claim, KnowsKb, KnowsPw, FactorKnown,
                    Replacers, Applied
<1>6. Stamps
  BY <1>1 DEF Init, Stamps
<1>7. \A kind \in TokenKinds : \A t \in tokens[kind] : TokenOK(kind, t)
  BY DEF Init
<1>8. Tables
  BY DEF Init, Tables, OldSessionsWereOvertaken, OldKeysWereOvertaken,
         SecondFactorHolds
<1>9. LineageOK
  BY <1>4 DEF Init, LineageOK
<1> QED
  BY <1>3, <1>4, <1>5, <1>6, <1>7, <1>8, <1>9 DEF IInv

-----------------------------------------------------------------------------
(* A request that changes neither the account nor the clock.               *)

\* The record that such a request goes on with.
GoesOn(j, r) ==
  /\ r \in JobRecords
  /\ JobOK(r)
  /\ r.pc # "apply"
  /\ job' = [job EXCEPT ![j] = r]

\* It leaves what the others rely on as it was.
LEMMA Frame ==
  ASSUME IInv, NEW j \in Jobs, NEW r, GoesOn(j, r),
         UNCHANGED <<account, clock, lineage>>
  PROVE  /\ job' \in [Jobs -> JobRecords]
         /\ \A k \in Jobs : JobOK(job[k])'
         /\ Stamps'
         /\ \A salt : InUse(salt) => InUse(salt)'
         /\ InUse(account.salt)' /\ LineageOK'
<1>1. job' \in [Jobs -> JobRecords]
  BY DEF GoesOn, IInv, TypeOK
<1>2. \A k \in Jobs : job'[k] = IF k = j THEN r ELSE job[k]
  BY DEF GoesOn, IInv, TypeOK
<1>3. \A salt : InUse(salt) => InUse(salt)'
  BY <1>2 DEF InUse, GoesOn
<1>4. Stamps'
  BY <1>2 DEF Stamps, IInv, GoesOn
<1>5. \A k \in Jobs : JobOK(job[k])'
  <2> SUFFICES ASSUME NEW k \in Jobs PROVE JobOK(job[k])'
    OBVIOUS
  <2>1. JobOK(job'[k])
    BY <1>2 DEF GoesOn, IInv
  <2>2. InUse(job[k].salt)'
    BY <2>1, <1>2 DEF JobOK, InUse, GoesOn
  <2> QED
    BY <2>1, <2>2 DEF JobOK, Placed, Claim, FactorKnown, KnowsKb, KnowsPw
<1>6. LineageOK'
  BY <1>3 DEF IInv, LineageOK
<1> QED
  BY <1>1, <1>3, <1>4, <1>5, <1>6 DEF IInv

LEMMA EndGoesOn ==
  ASSUME IInv, NEW j \in Jobs, End(j)
  PROVE  GoesOn(j, Idle)
BY IdleOK DEF GoesOn, End, Continue

\* A request that arrives.
LEMMA StartGoesOn ==
  ASSUME IInv, NEW j \in Jobs, Start(j)
  PROVE  \E r : GoesOn(j, r)
<1>0. Idle \in JobRecords
  BY IdleOK
<1>1. InUse(0)
  BY ConstantsAssumption DEF IInv, TypeOK, Times, Stamps, InUse
<1>2. CASE StartLogin(j)
  <2>0. PICK pw \in Passwords, wants \in {"session", "keys"} :
        Begin(j, [Idle EXCEPT !.op = "login", !.pc = "load", !.pw = pw,
                              !.wants = wants])
    BY <1>2 DEF StartLogin
  <2> DEFINE r == [Idle EXCEPT !.op = "login", !.pc = "load", !.pw = pw,
                               !.wants = wants]
  <2>t. r \in JobRecords
    BY <1>0, <2>0 DEF JobRecords, Kinds, Steps
  <2>1. r \in JobRecords
        /\ r.op = "login" /\ r.pc = "load" /\ r.salt = 0
        /\ r.pw = pw /\ ~r.recovery
    BY <2>t, <2>0 DEF Idle
  <2> HIDE DEF r
  <2>2. JobOK(r)
    BY <2>1, <1>1 DEF JobOK, Placed, Claim, KnowsKb, KnowsPw, FactorKnown, Replacers,
           Applied
  <2> QED
    BY <2>0, <2>1, <2>2 DEF r, GoesOn, Begin
<1>3. CASE StartChange(j)
  <2>0. PICK pw \in Passwords :
        Begin(j, [Idle EXCEPT !.op = "changeStart", !.pc = "load", !.pw = pw,
                              !.wants = "keys"])
    BY <1>3 DEF StartChange
  <2> DEFINE r == [Idle EXCEPT !.op = "changeStart", !.pc = "load", !.pw = pw,
                               !.wants = "keys"]
  <2>t. r \in JobRecords
    BY <1>0, <2>0 DEF JobRecords, Kinds, Steps
  <2>1. r \in JobRecords
        /\ r.op = "changeStart" /\ r.pc = "load" /\ r.salt = 0
        /\ ~r.recovery
    BY <2>t, <2>0 DEF Idle
  <2> HIDE DEF r
  <2>2. JobOK(r)
    BY <2>1, <1>1 DEF JobOK, Placed, Claim, KnowsKb, KnowsPw, FactorKnown, Replacers,
           Applied
  <2> QED
    BY <2>0, <2>1, <2>2 DEF r, GoesOn, Begin
<1>4. CASE StartForgot(j)
  <2> DEFINE r == [Idle EXCEPT !.op = "forgotSend", !.pc = "load"]
  <2>t. r \in JobRecords
    BY <1>0 DEF JobRecords, Kinds, Steps
  <2>1. r \in JobRecords
        /\ r.op = "forgotSend" /\ r.pc = "load" /\ r.salt = 0
        /\ ~r.recovery
    BY <2>t DEF Idle
  <2>2. Begin(j, r)
    BY <1>4 DEF StartForgot
  <2> HIDE DEF r
  <2>3. JobOK(r)
    BY <2>1, <1>1 DEF JobOK, Placed, Claim, KnowsKb, KnowsPw, FactorKnown, Replacers,
           Applied
  <2> QED
    BY <2>1, <2>2, <2>3 DEF GoesOn, Begin
<1>5. CASE StartVerify(j)
  <2>0. PICK t \in tokens["forgot"] :
        Begin(j, [Presenting(t) EXCEPT !.op = "forgotVerify", !.pc = "submit",
                                       !.kb = t.kb])
    BY <1>5 DEF StartVerify
  <2> DEFINE r == [Presenting(t) EXCEPT !.op = "forgotVerify", !.pc = "submit",
                                        !.kb = t.kb]
  <2>1. t \in TokenRows /\ InUse(t.salt)
    BY <2>0 DEF IInv, TypeOK, TokenKinds, TokenOK
  <2>t. r \in JobRecords
    BY <1>0, <2>0, <2>1 DEF JobRecords, Kinds, Steps, TokenRows, Presenting
  <2>2. r \in JobRecords
        /\ r.op = "forgotVerify" /\ r.pc = "submit"
        /\ r.salt = t.salt /\ ~r.recovery
    BY <2>t, <2>0, <2>1 DEF Idle, Presenting
  <2> HIDE DEF r
  <2>3. JobOK(r)
    BY <2>1, <2>2 DEF JobOK, Placed, Claim, KnowsKb, KnowsPw, FactorKnown, Replacers,
           Applied
  <2> QED
    BY <2>0, <2>2, <2>3 DEF r, GoesOn, Begin
<1>6. CASE StartFinish(j)
  <2>0. PICK t \in tokens["change"], pw \in Passwords, slot \in Slots \cup {None},
           wants \in {"session", "keys"} :
        Begin(j, [Presenting(t) EXCEPT !.op = "changeFinish", !.pc = "totp",
                    !.pw = pw, !.kb = t.kb, !.slot = slot, !.wants = wants])
    BY <1>6 DEF StartFinish
  <2> DEFINE r == [Presenting(t) EXCEPT !.op = "changeFinish", !.pc = "totp",
                     !.pw = pw, !.kb = t.kb, !.slot = slot, !.wants = wants]
  <2>1. t \in TokenRows /\ TokenOK("change", t)
    BY <2>0 DEF IInv, TypeOK, TokenKinds
  <2>t. r \in JobRecords
    BY <1>0, <2>0, <2>1 DEF JobRecords, Kinds, Steps, TokenRows, Presenting
  <2>2. r \in JobRecords
        /\ r.op = "changeFinish" /\ r.pc = "totp"
        /\ r.salt = t.salt /\ r.kb = t.kb /\ r.pw = pw /\ ~r.recovery
        /\ ~r.verified
    BY <2>t, <2>0, <2>1 DEF Idle, Presenting
  <2> HIDE DEF r
  <2>3. JobOK(r)
    BY <2>1, <2>2 DEF JobOK, Placed, Claim, KnowsKb, KnowsPw, FactorKnown, Replacers,
           Applied, TokenOK
  <2> QED
    BY <2>0, <2>2, <2>3 DEF r, GoesOn, Begin
<1>7. CASE StartReset(j)
  <2>0. PICK t \in tokens["reset"], pw \in Passwords, withKey \in BOOLEAN,
           wants \in {"nothing", "session", "keys"} :
        Begin(j, [Presenting(t) EXCEPT !.op = "reset", !.pw = pw, !.wants = wants,
                    !.pc = IF withKey THEN "recovery" ELSE "totp",
                    !.recovery = withKey])
    BY <1>7 DEF StartReset
  <2> DEFINE step == IF withKey THEN "recovery" ELSE "totp"
             r == [Presenting(t) EXCEPT !.op = "reset", !.pw = pw, !.wants = wants,
                     !.pc = step, !.recovery = withKey]
  <2>1. t \in TokenRows /\ InUse(t.salt)
    BY <2>0 DEF IInv, TypeOK, TokenKinds, TokenOK
  <2>s. step \in {"recovery", "totp"}
    OBVIOUS
  <2> HIDE DEF step
  <2>t. r \in JobRecords
    BY <1>0, <2>0, <2>1, <2>s DEF JobRecords, Kinds, Steps, TokenRows, Presenting
  <2>2. r \in JobRecords
        /\ r.op = "reset" /\ r.pc \in {"recovery", "totp"}
        /\ r.salt = t.salt /\ r.pw = pw
    BY <2>t, <2>0, <2>1, <2>s DEF Idle, Presenting
  <2> HIDE DEF r
  <2>3. JobOK(r)
    BY <2>1, <2>2 DEF JobOK, Placed, Claim, KnowsKb, KnowsPw, FactorKnown, Replacers,
           Applied
  <2> QED
    BY <2>0, <2>2, <2>3 DEF r, step, GoesOn, Begin
<1>8. CASE StartKeys(j)
  <2>0. PICK s \in Slots \ Free(keyFetches) :
        Begin(j, [Fetching(s) EXCEPT !.op = "keys", !.pc = "serve"])
    BY <1>8 DEF StartKeys
  <2> DEFINE r == [Fetching(s) EXCEPT !.op = "keys", !.pc = "serve"]
  <2>1. keyFetches[s] \in KeyFetchRows
    BY <2>0 DEF IInv, TypeOK, Free
  <2>t. r \in JobRecords
    BY <1>0, <2>0, <2>1 DEF JobRecords, Kinds, Steps, KeyFetchRows, Fetching
  <2>2. r \in JobRecords
        /\ r.op = "keys" /\ r.pc = "serve" /\ r.salt = 0
        /\ ~r.recovery
    BY <2>t, <2>0, <2>1 DEF Idle, Fetching
  <2> HIDE DEF r
  <2>3. JobOK(r)
    BY <2>2, <1>1 DEF JobOK, Placed, Claim, KnowsKb, KnowsPw, FactorKnown, Replacers,
           Applied
  <2> QED
    BY <2>0, <2>2, <2>3 DEF r, GoesOn, Begin
<1> QED
  BY <1>2, <1>3, <1>4, <1>5, <1>6, <1>7, <1>8 DEF Start

\* Two records that differ in nothing the invariant looks at, but perhaps the
\* step.
Alike(r, b) ==
  /\ r.op = b.op /\ r.pw = b.pw /\ r.salt = b.salt /\ r.kb = b.kb
  /\ r.slot = b.slot /\ r.totp = b.totp /\ r.verified = b.verified
  /\ r.factor = b.factor /\ r.recovery = b.recovery

LEMMA Moved ==
  ASSUME NEW b \in JobRecords, NEW step \in Steps
  PROVE  /\ [b EXCEPT !.pc = step] \in JobRecords
         /\ Alike([b EXCEPT !.pc = step], b)
         /\ [b EXCEPT !.pc = step].pc = step
BY DEF JobRecords, Alike

\* A request whose password has been replaced and announced goes on to what
\* remains to be done.
LEMMA RewardsOK ==
  ASSUME IInv, NEW j \in Jobs, job[j].op \in Replacers,
         job[j].pc \in {"announce", "dropKey"}
  PROVE  /\ Rewards(job[j]) \in JobRecords
         /\ JobOK(Rewards(job[j]))
         /\ Rewards(job[j]).pc # "apply"
<1> DEFINE b == job[j]
           r == [b EXCEPT !.pc = "newSession"]
<1>1. b \in JobRecords /\ JobOK(b)
  BY DEF IInv, TypeOK
<1>2. r \in JobRecords /\ Alike(r, b) /\ r.pc = "newSession"
  BY <1>1, Moved DEF Steps
<1>3. Rewards(b) = r \/ Rewards(b) = Idle
  BY DEF Rewards
<1> HIDE DEF r
<1>4. JobOK(r)
  BY <1>1, <1>2 DEF Alike, JobOK, Placed, Claim, KnowsKb, KnowsPw, FactorKnown,
                    Replacers, Applied
<1> QED
  BY <1>2, <1>3, <1>4, IdleOK

\* A request in its course, other than one that sends or applies a password.
LEMMA StepGoesOn ==
  ASSUME IInv, NEW j \in Jobs, Step(j), ~Stamp(j), ~ResetAccount(j)
  PROVE  \E r : GoesOn(j, r)
<1> DEFINE b == job[j]
<1>0. b \in JobRecords /\ JobOK(b)
  BY DEF IInv, TypeOK
<1>1. CASE Load(j)
  <2> DEFINE step == IF Op(j, {"forgotSend"}) THEN "issue" ELSE "check"
             r == [WithRecord(b) EXCEPT !.pc = step]
  <2>1. step \in Steps /\ (step = "issue" => b.op = "forgotSend")
        /\ step \in {"issue", "check"} /\ (step = "check" => b.op # "forgotSend")
    BY DEF Steps, Op
  <2>2. b.pc = "load" /\ job' = [job EXCEPT ![j] = r]
    BY <1>1 DEF Load, Continue, At
  <2>3. account.salt \in Times /\ account.kb \in Times
    BY DEF IInv, TypeOK, Accounts
  <2> HIDE DEF step
  <2>4. r \in JobRecords
    BY <1>0, <2>1, <2>3 DEF JobRecords, WithRecord
  <2>5. /\ r.pc = step /\ r.salt = account.salt /\ r.kb = account.kb
        /\ r.op = b.op /\ r.pw = b.pw /\ r.recovery = b.recovery
        /\ r.verified = b.verified /\ r.factor = b.factor
    BY <1>0, <2>1, <2>3 DEF JobRecords, WithRecord
  <2> HIDE DEF r
  <2>6. JobOK(r)
    BY <1>0, <2>1, <2>2, <2>5 DEF IInv, JobOK, Placed, Claim, KnowsKb, KnowsPw,
                           FactorKnown, Replacers, Applied
  <2> QED
    BY <2>1, <2>2, <2>4, <2>5, <2>6 DEF GoesOn
<1>2. CASE CheckPassword(j)
  <2>1. CASE End(j)
    BY <2>1, EndGoesOn
  <2>2. CASE ~End(j)
    <3> DEFINE step == IF Op(j, {"login"}) THEN "totp" ELSE "newKeys"
               r == [b EXCEPT !.pc = step]
    <3>1. b.pc = "check" /\ job' = [job EXCEPT ![j] = r]
          /\ b.pw = account.pw /\ b.salt = account.salt
      BY <1>2, <2>2 DEF CheckPassword, Goto, Continue, At
    <3>2. step \in Steps /\ step = IF b.op = "login" THEN "totp" ELSE "newKeys"
      BY DEF Steps, Op
    <3> HIDE DEF step
    <3>3. r \in JobRecords /\ Alike(r, b) /\ r.pc = step
      BY <1>0, <3>2, Moved
    <3> HIDE DEF r
    <3>4. JobOK(r)
      BY <1>0, <3>1, <3>2, <3>3 DEF Alike, JobOK, Placed, Claim, KnowsKb, KnowsPw,
                             FactorKnown, Replacers, Applied
    <3> QED
      BY <3>1, <3>2, <3>3, <3>4 DEF GoesOn
  <2> QED
    BY <2>1, <2>2
<1>3. CASE CheckTotp(j)
  <2>1. CASE End(j)
    BY <2>1, EndGoesOn
  <2>2. CASE ~End(j)
    <3>1. PICK step \in {"newSession", "delete", "session", "stamp"} :
            /\ job' = [job EXCEPT ![j] = [b EXCEPT !.pc = step, !.totp = account.totp]]
            /\ step = "newSession" => b.op = "login"
            /\ step \in {"delete", "session"} => b.op = "changeFinish"
            /\ step = "stamp" => b.op = "reset"
            /\ step = "session" => b.slot \in Slots
      <4>1. b.slot \in Slots \cup {None}
        BY <1>0 DEF JobRecords
      <4>2. CASE Op(j, {"login"})
        BY <1>3, <2>2, <4>2 DEF CheckTotp, Op, Continue
      <4>3. CASE Op(j, {"changeFinish"})
        BY <1>3, <2>2, <4>1, <4>3 DEF CheckTotp, Op, Continue
      <4>4. CASE Op(j, {"reset"})
        BY <1>3, <2>2, <4>4 DEF CheckTotp, Op, Continue
      <4> QED
        BY <1>3, <4>2, <4>3, <4>4 DEF CheckTotp
    <3> DEFINE r == [b EXCEPT !.pc = step, !.totp = account.totp]
    <3>2. b.pc = "totp" /\ account.totp \in BOOLEAN
      BY <1>3 DEF CheckTotp, At, IInv, TypeOK, Accounts
    <3>3. r \in JobRecords
      BY <1>0, <3>1, <3>2 DEF JobRecords, Steps
    <3>4. /\ r.pc = step /\ r.totp = account.totp
          /\ r.op = b.op /\ r.pw = b.pw /\ r.salt = b.salt /\ r.kb = b.kb
          /\ r.recovery = b.recovery /\ r.slot = b.slot
          /\ r.verified = b.verified /\ r.factor = b.factor
      BY <1>0, <3>2 DEF JobRecords
    <3> HIDE DEF r
    <3>5. JobOK(r)
      BY <1>0, <3>1, <3>2, <3>4 DEF JobOK, Placed, Claim, KnowsKb, KnowsPw,
                                    FactorKnown, Replacers, Applied
    <3> QED
      BY <3>1, <3>3, <3>4, <3>5 DEF GoesOn, r
  <2> QED
    BY <2>1, <2>2
<1>4. CASE CreateSessionToken(j)
  <2>1. PICK verified \in BOOLEAN :
          Continue(j, AfterSession([b EXCEPT !.verified = verified]))
          /\ verified \in Verifications(b)
    <3>1. Verifications(b) \subseteq BOOLEAN
      BY <1>0 DEF Verifications, JobRecords
    <3> QED
      BY <1>4, <3>1 DEF CreateSessionToken
  <2> DEFINE r == [[b EXCEPT !.verified = verified] EXCEPT !.pc = "newKeys"]
  <2>2. r \in JobRecords
    BY <1>0 DEF JobRecords, Steps
  <2>3. /\ r.pc = "newKeys" /\ r.verified = verified
        /\ r.op = b.op /\ r.pw = b.pw /\ r.salt = b.salt /\ r.kb = b.kb
        /\ r.recovery = b.recovery /\ r.totp = b.totp /\ r.factor = b.factor
    BY <1>0 DEF JobRecords
  <2>4. job' = [job EXCEPT ![j] = r] \/ job' = [job EXCEPT ![j] = Idle]
    BY <2>1 DEF Continue, AfterSession
  <2>5. b.pc = "newSession"
    BY <1>4 DEF CreateSessionToken, At
  <2> HIDE DEF r
  <2>6. JobOK(r)
    BY <1>0, <2>1, <2>3, <2>5 DEF JobOK, Placed, Claim, KnowsKb, KnowsPw,
                       FactorKnown, Replacers, Applied, Verifications
  <2> QED
    BY <2>2, <2>3, <2>4, <2>6, IdleOK DEF GoesOn
<1>5. CASE CreateKeyFetchToken(j)
  <2>1. CASE End(j)
    BY <2>1, EndGoesOn
  <2>2. CASE ~End(j)
    <3> DEFINE r == [b EXCEPT !.pc = "issue"]
    <3>1. /\ job' = [job EXCEPT ![j] = r]
          /\ b.op = "changeStart"
          /\ b.pc = "newKeys"
      BY <1>5, <2>2 DEF CreateKeyFetchToken, Goto, Continue, At, Op
    <3>2. r \in JobRecords /\ Alike(r, b) /\ r.pc = "issue"
      BY <1>0, Moved DEF Steps
    <3> HIDE DEF r
    <3>3. JobOK(r)
      BY <1>0, <3>1, <3>2 DEF Alike, JobOK, Placed, Claim, KnowsKb, KnowsPw,
                              FactorKnown, Replacers, Applied
    <3> QED
      BY <3>1, <3>2, <3>3 DEF GoesOn
  <2> QED
    BY <2>1, <2>2
<1>6. CASE IssueToken(j) \/ RightCode(j) \/ WrongCode(j) \/ ServeKeys(j)
  BY <1>6, EndGoesOn DEF IssueToken, RightCode, WrongCode, ServeKeys
<1>7. CASE CheckRecoveryKey(j)
  <2>1. CASE End(j)
    BY <2>1, EndGoesOn
  <2>2. CASE ~End(j)
    <3>1. PICK k \in recovery : Continue(j, [b EXCEPT !.pc = "totp", !.kb = k.kb])
      BY <1>7, <2>2 DEF CheckRecoveryKey
    <3> DEFINE r == [b EXCEPT !.pc = "totp", !.kb = k.kb]
    <3>2. k.kb \in Times /\ b.pc = "recovery"
      BY <1>7 DEF CheckRecoveryKey, At, IInv, TypeOK
    <3>3. r \in JobRecords
      BY <1>0, <3>2 DEF JobRecords, Steps
    <3>4. /\ r.pc = "totp" /\ r.op = b.op /\ r.pw = b.pw /\ r.salt = b.salt
          /\ r.recovery = b.recovery
      BY <1>0, <3>2 DEF JobRecords
    <3> HIDE DEF r
    <3>5. JobOK(r)
      BY <1>0, <3>2, <3>4 DEF JobOK, Placed, Claim, KnowsKb, KnowsPw,
                              FactorKnown, Replacers, Applied
    <3> QED
      BY <3>1, <3>3, <3>4, <3>5 DEF GoesOn, r, Continue
  <2> QED
    BY <2>1, <2>2
<1>8. CASE CheckSession(j)
  <2>1. CASE End(j)
    BY <2>1, EndGoesOn
  <2>2. CASE ~End(j)
    <3> DEFINE s == sessions[b.slot]
               factor == IF s.factor = "none" THEN "none" ELSE "inherited"
               r == [b EXCEPT !.pc = "delete", !.verified = s.verified,
                              !.factor = factor]
    <3>1. /\ b.pc = "session" /\ b.op = "changeFinish" /\ b.slot \in Slots
          /\ b.totp = account.totp
      BY <1>0, <1>8 DEF CheckSession, At, JobOK, Placed, FactorKnown
    <3>2. /\ s # None
          /\ b.totp => s.factor = "totp"
          /\ job' = [job EXCEPT ![j] = r]
      BY <1>8, <2>2 DEF CheckSession, Continue
    <3>3. s.verified \in BOOLEAN
      BY <3>1, <3>2 DEF IInv, TypeOK, SessionRows
    <3>4. factor \in Factors /\ (s.factor = "totp" => factor # "none")
      BY DEF Factors
    <3> HIDE DEF factor
    <3>5. r \in JobRecords
      BY <1>0, <3>3, <3>4 DEF JobRecords, Steps
    <3>6. /\ r.pc = "delete" /\ r.factor = factor
          /\ r.op = b.op /\ r.pw = b.pw /\ r.salt = b.salt /\ r.kb = b.kb
          /\ r.recovery = b.recovery
      BY <1>0, <3>3, <3>4 DEF JobRecords
    <3> HIDE DEF r, s
    <3>7. JobOK(r)
      BY <1>0, <3>1, <3>2, <3>4, <3>6 DEF JobOK, Placed, Claim, KnowsKb, KnowsPw,
                                          FactorKnown, Replacers, Applied
    <3> QED
      BY <3>2, <3>5, <3>6, <3>7 DEF GoesOn
  <2> QED
    BY <2>1, <2>2
<1>9. CASE DeleteChangeToken(j)
  <2> DEFINE r == [b EXCEPT !.pc = "stamp"]
  <2>1. job' = [job EXCEPT ![j] = r] /\ b.pc = "delete"
    BY <1>9 DEF DeleteChangeToken, Goto, Continue, At
  <2>2. r \in JobRecords /\ Alike(r, b) /\ r.pc = "stamp"
    BY <1>0, Moved DEF Steps
  <2> HIDE DEF r
  <2>3. JobOK(r)
    BY <1>0, <2>1, <2>2 DEF Alike, JobOK, Placed, Claim, KnowsKb, KnowsPw,
                            FactorKnown, Replacers, Applied
  <2> QED
    BY <2>1, <2>2, <2>3 DEF GoesOn
<1>10. CASE PurgeTokens(j)
  <2> DEFINE r == [b EXCEPT !.pc = "reread"]
  <2>1. job' = [job EXCEPT ![j] = r] /\ b.pc = "purge"
    BY <1>10 DEF PurgeTokens, Goto, Continue, At
  <2>2. r \in JobRecords /\ Alike(r, b) /\ r.pc = "reread"
    BY <1>0, Moved DEF Steps
  <2> HIDE DEF r
  <2>3. JobOK(r)
    BY <1>0, <2>1, <2>2 DEF Alike, JobOK, Placed, Claim, KnowsKb, KnowsPw,
                            FactorKnown, Replacers, Applied
  <2> QED
    BY <2>1, <2>2, <2>3 DEF GoesOn
<1>11. CASE Reread(j)
  <2> DEFINE r == [b EXCEPT !.pc = "announce", !.seen = account.salt]
  <2>1. job' = [job EXCEPT ![j] = r] /\ b.pc = "reread" /\ account.salt \in Times
    BY <1>11 DEF Reread, Continue, At, IInv, TypeOK, Accounts
  <2>2. r \in JobRecords
    BY <1>0, <2>1 DEF JobRecords, Steps
  <2>3. Alike(r, b) /\ r.pc = "announce"
    BY <1>0, <2>1 DEF JobRecords, Alike
  <2> HIDE DEF r
  <2>4. JobOK(r)
    BY <1>0, <2>1, <2>3 DEF Alike, JobOK, Placed, Claim, KnowsKb, KnowsPw,
                            FactorKnown, Replacers, Applied
  <2> QED
    BY <2>1, <2>2, <2>3, <2>4 DEF GoesOn
<1>12. CASE Announce(j)
  <2> DEFINE r == [b EXCEPT !.pc = "dropKey"]
  <2>1. b.pc = "announce" /\ b.op \in Replacers
    BY <1>0, <1>12 DEF Announce, At, JobOK, Placed
  <2>2. \/ job' = [job EXCEPT ![j] = r] /\ b.recovery
        \/ job' = [job EXCEPT ![j] = Rewards(b)]
    BY <1>12 DEF Announce, Goto, Continue
  <2>3. r \in JobRecords /\ Alike(r, b) /\ r.pc = "dropKey"
    BY <1>0, Moved DEF Steps
  <2> HIDE DEF r
  <2>4. b.recovery => JobOK(r)
    BY <1>0, <2>1, <2>3 DEF Alike, JobOK, Placed, Claim, KnowsKb, KnowsPw,
                            FactorKnown, Replacers, Applied
  <2> QED
    BY <2>1, <2>2, <2>3, <2>4, RewardsOK DEF GoesOn
<1>13. CASE DropRecoveryKey(j)
  <2>1. b.pc = "dropKey" /\ b.op \in Replacers
    BY <1>0, <1>13 DEF DropRecoveryKey, At, JobOK, Placed, Replacers
  <2> QED
    BY <1>13, <2>1, RewardsOK DEF DropRecoveryKey, Continue, GoesOn
<1> QED
  BY <1>1, <1>2, <1>3, <1>4, <1>5, <1>6, <1>7, <1>8, <1>9, <1>10, <1>11, <1>12,
     <1>13 DEF Step

-----------------------------------------------------------------------------
(* The tables.                                                             *)

\* What TypeOK says of everything but the requests.
Stored ==
  /\ account \in Accounts
  /\ sessions \in [Slots -> SessionRows \cup {None}]
  /\ keyFetches \in [Slots -> KeyFetchRows \cup {None}]
  /\ tokens \in [TokenKinds -> SUBSET TokenRows]
  /\ recovery \subseteq [kb : Times]
  /\ clock \in Times
  /\ issued \in Ids
  /\ spent \subseteq Ids
  /\ lineage \subseteq Times
  /\ wrong \in [Ids -> Nat]
  /\ announced \subseteq Times
  /\ faults \in 0..MaxFaults

TokensOK == \A kind \in TokenKinds : \A t \in tokens[kind] : TokenOK(kind, t)

\* Tokens taken away, or taken over with fewer tries, do no harm.
LEMMA TokensDwindle ==
  ASSUME IInv, UNCHANGED <<account, lineage>>,
         \A salt : InUse(salt) => InUse(salt)',
         \A kind \in TokenKinds : \A t \in tokens'[kind] :
           \E u \in tokens[kind] : t.salt = u.salt /\ t.kb = u.kb
  PROVE  TokensOK'
BY DEF TokensOK, TokenOK, IInv

LEMMA QuietTables ==
  ASSUME IInv, UNCHANGED <<account, sessions, keyFetches>>
  PROVE  Tables'
BY DEF IInv, Tables, OldSessionsWereOvertaken, OldKeysWereOvertaken,
       SecondFactorHolds

\* The tables after the step of a request that neither sends nor applies a
\* password.
LEMMA StepTables ==
  ASSUME IInv, NEW j \in Jobs,
         Start(j) \/ (Step(j) /\ ~Stamp(j) /\ ~ResetAccount(j)) \/ Fail(j),
         \A salt : InUse(salt) => InUse(salt)'
  PROVE  Stored' /\ TokensOK' /\ Tables'
<1> DEFINE b == job[j]
<1>0. b \in JobRecords /\ JobOK(b) /\ Stored /\ TokensOK /\ LineageOK
  BY DEF IInv, TypeOK, Stored, TokensOK
<1>1. CASE Start(j) \/ Load(j) \/ CheckPassword(j) \/ CheckTotp(j)
           \/ CheckRecoveryKey(j) \/ CheckSession(j) \/ Reread(j)
  <2>1. SameTables
    BY <1>1 DEF Start, StartLogin, StartChange, StartForgot, StartVerify,
                StartFinish, StartReset, StartKeys, Begin, Load, CheckPassword,
                CheckTotp, CheckRecoveryKey, CheckSession, Reread, SameTables
  <2>2. Stored'
    BY <1>0, <2>1 DEF Stored, SameTables
  <2>3. TokensOK' /\ Tables'
    BY <2>1, TokensDwindle, QuietTables DEF SameTables
  <2> QED
    BY <2>2, <2>3
<1>2. CASE CreateSessionToken(j)
  <2>1. PICK s \in Slots, verified \in Verifications(b) :
          sessions' = [sessions EXCEPT ![s] =
            [pw |-> b.pw, kb |-> b.kb, verified |-> verified,
             factor |-> b.factor, late |-> Overtaken(j)]]
    BY <1>2 DEF CreateSessionToken, Free
  <2>2. /\ b.pc = "newSession" /\ b.op \in {"login", "changeFinish", "reset"}
        /\ b.pw \in Passwords /\ b.kb \in Times /\ b.factor \in Factors
    BY <1>0, <1>2 DEF CreateSessionToken, At, JobOK, Placed, JobRecords
  <2>3. verified \in BOOLEAN
    BY <1>0, <2>1 DEF Verifications, JobRecords
  <2>4. UNCHANGED <<account, keyFetches, tokens, recovery, clock, issued,
                    spent, lineage, wrong, announced, faults>>
    BY <1>2 DEF CreateSessionToken
  <2>5. [pw |-> b.pw, kb |-> b.kb, verified |-> verified, factor |-> b.factor,
         late |-> Overtaken(j)] \in SessionRows
    BY <2>2, <2>3 DEF SessionRows, Overtaken
  <2>6. Stored'
    BY <1>0, <2>1, <2>4, <2>5 DEF Stored
  <2>7. \A q \in Slots : sessions'[q] =
          IF q = s THEN [pw |-> b.pw, kb |-> b.kb, verified |-> verified,
                         factor |-> b.factor, late |-> Overtaken(j)]
          ELSE sessions[q]
    BY <1>0, <2>1 DEF Stored
  <2>8. ~Overtaken(j) => b.pw = account.pw /\ b.kb = account.kb
    BY <1>0, <2>2 DEF Overtaken, JobOK, Claim, LineageOK, KnowsKb, KnowsPw, Replacers, Applied
  <2>9. account.totp /\ verified => b.factor # "none"
    <3>1. CASE b.op = "changeFinish"
      BY <1>0, <2>1, <3>1 DEF JobOK, FactorKnown, Verifications
    <3>2. CASE b.op = "login" \/ b.op = "reset"
      <4>1. b.totp = account.totp
        BY <1>0, <2>2, <3>2 DEF JobOK, FactorKnown, Applied
      <4> QED
        BY <2>1, <3>2, <4>1 DEF Verifications
    <3> QED
      BY <2>2, <3>1, <3>2
  <2>10. Tables'
    BY <2>4, <2>7, <2>8, <2>9 DEF IInv, Tables, OldSessionsWereOvertaken,
                                  OldKeysWereOvertaken, SecondFactorHolds
  <2> QED
    BY <2>4, <2>6, <2>10, TokensDwindle
<1>3. CASE CreateKeyFetchToken(j)
  <2> DEFINE row == [kb |-> b.kb,
                     verified |-> Op(j, {"changeStart", "changeFinish"}) \/ b.verified,
                     late |-> Overtaken(j)]
  <2>1. PICK s \in Slots : keyFetches' = [keyFetches EXCEPT ![s] = row]
    BY <1>3 DEF CreateKeyFetchToken, KeyFetchRow, Free
  <2>2. /\ b.pc = "newKeys" /\ b.op \in {"login", "changeStart", "changeFinish", "reset"}
        /\ b.kb \in Times /\ b.verified \in BOOLEAN
    BY <1>0, <1>3 DEF CreateKeyFetchToken, At, JobOK, Placed, JobRecords
  <2>3. UNCHANGED <<account, sessions, tokens, recovery, clock, issued,
                    spent, lineage, wrong, announced, faults>>
    BY <1>3 DEF CreateKeyFetchToken
  <2>4. row \in KeyFetchRows
    BY <2>2 DEF KeyFetchRows, Overtaken, Op
  <2>5. row.late = Overtaken(j) /\ row.kb = b.kb
    OBVIOUS
  <2>6. ~Overtaken(j) => b.kb = account.kb
    BY <1>0, <2>2 DEF Overtaken, JobOK, Claim, LineageOK, KnowsKb, Applied
  <2> HIDE DEF row
  <2>7. Stored'
    BY <1>0, <2>1, <2>3, <2>4 DEF Stored
  <2>8. \A q \in Slots : keyFetches'[q] = IF q = s THEN row ELSE keyFetches[q]
    BY <1>0, <2>1 DEF Stored
  <2>9. Tables'
    BY <2>3, <2>5, <2>6, <2>8 DEF IInv, Tables, OldSessionsWereOvertaken,
                                  OldKeysWereOvertaken, SecondFactorHolds
  <2> QED
    BY <2>3, <2>7, <2>9, TokensDwindle
<1>4. CASE IssueToken(j)
  <2> DEFINE kind == IF Op(j, {"forgotSend"}) THEN "forgot" ELSE "change"
             row == [id |-> issued + 1, salt |-> b.salt, kb |-> b.kb,
                     tries |-> IF Op(j, {"forgotSend"}) THEN Tries ELSE 0]
  <2>1. /\ tokens' = [tokens EXCEPT ![kind] = {row}]
        /\ issued' = issued + 1
        /\ issued < MaxTokens
        /\ b.pc = "issue"
        /\ UNCHANGED <<account, sessions, keyFetches, recovery, clock, spent,
                       lineage, wrong, announced, faults>>
    BY <1>4 DEF IssueToken, At
  <2>2. issued + 1 \in Ids /\ b.salt \in Times /\ b.kb \in Times
    BY <1>0, <2>1, ConstantsAssumption DEF Stored, Ids, JobRecords
  <2>3. row \in TokenRows
    BY <2>2 DEF TokenRows, Tries
  <2>4. kind \in TokenKinds /\ (kind = "change" => b.op = "changeStart")
    BY <1>0, <2>1 DEF TokenKinds, Op, JobOK, Placed
  <2>5. PICK salt, kb : salt = b.salt /\ kb = b.kb
    OBVIOUS
  <2>6. /\ InUse(salt)'
        /\ kind = "change" /\ salt \in lineage => kb = account.kb
        /\ row.salt = salt /\ row.kb = kb
    BY <1>0, <2>1, <2>4, <2>5 DEF JobOK, Claim, KnowsKb
  <2> HIDE DEF kind, row
  <2>7. Stored'
    BY <1>0, <2>1, <2>2, <2>3, <2>4 DEF Stored
  <2>8. TokensOK'
    <3> SUFFICES ASSUME NEW k \in TokenKinds, NEW t \in tokens'[k]
                 PROVE  TokenOK(k, t)'
      BY DEF TokensOK
    <3>1. CASE k = kind
      <4>1. t = row
        BY <1>0, <2>1, <2>4, <3>1 DEF Stored
      <4> QED
        BY <2>1, <2>6, <3>1, <4>1 DEF TokenOK
    <3>2. CASE k # kind
      <4>1. t \in tokens[k]
        BY <1>0, <2>1, <3>2 DEF Stored
      <4> QED
        BY <1>0, <2>1, <4>1 DEF TokensOK, TokenOK
    <3> QED
      BY <3>1, <3>2
  <2> QED
    BY <2>1, <2>7, <2>8, QuietTables
<1>5. CASE RightCode(j)
  <2> DEFINE row == [id |-> issued + 1, salt |-> b.salt, kb |-> b.kb, tries |-> 0]
  <2>1. /\ tokens' = [tokens EXCEPT !["forgot"] = Without("forgot", b.token),
                                    !["reset"] = {row}]
        /\ issued' = issued + 1
        /\ issued < MaxTokens
        /\ UNCHANGED <<account, sessions, keyFetches, recovery, clock, spent,
                       lineage, wrong, announced, faults>>
    BY <1>5 DEF RightCode
  <2>2. issued + 1 \in Ids /\ b.salt \in Times /\ b.kb \in Times
    BY <1>0, <2>1, ConstantsAssumption DEF Stored, Ids, JobRecords
  <2>3. row \in TokenRows
    BY <2>2 DEF TokenRows, Tries
  <2>4. PICK salt : salt = b.salt
    OBVIOUS
  <2>5. InUse(salt)' /\ row.salt = salt
    BY <1>0, <2>4 DEF JobOK
  <2> HIDE DEF row
  <2>6. /\ \A t \in tokens'["forgot"] : t \in tokens["forgot"]
        /\ tokens'["reset"] = {row}
        /\ tokens'["change"] = tokens["change"]
        /\ tokens' \in [TokenKinds -> SUBSET TokenRows]
    BY <1>0, <2>1, <2>3 DEF Stored, Without, TokenKinds
  <2>7. Stored'
    BY <1>0, <2>1, <2>2, <2>6 DEF Stored
  <2>8. TokensOK'
    BY <1>0, <2>1, <2>5, <2>6 DEF TokensOK, TokenOK, TokenKinds
  <2> QED
    BY <2>1, <2>7, <2>8, QuietTables
<1>6. CASE WrongCode(j)
  <2>1. /\ tokens' = [tokens EXCEPT !["forgot"] = FailAttempt(j)]
        /\ wrong' = [wrong EXCEPT ![b.token] = @ + 1]
        /\ UNCHANGED <<account, sessions, keyFetches, recovery, clock,
                       issued, spent, lineage, announced, faults>>
    BY <1>6 DEF WrongCode
  <2>2. wrong' \in [Ids -> Nat]
    BY <1>0, <2>1 DEF Stored, JobRecords
  <2>3. \A t \in FailAttempt(j) :
          t \in TokenRows /\ \E u \in tokens["forgot"] : t.salt = u.salt /\ t.kb = u.kb
    <3> SUFFICES ASSUME NEW t \in FailAttempt(j)
                 PROVE  /\ t \in TokenRows
                        /\ \E u \in tokens["forgot"] : t.salt = u.salt /\ t.kb = u.kb
      OBVIOUS
    <3>1. tokens["forgot"] \subseteq TokenRows
      BY <1>0 DEF Stored, TokenKinds
    <3>2. CASE t \in tokens["forgot"]
      BY <3>1, <3>2
    <3>3. CASE t \notin tokens["forgot"]
      <4>1. b.tries - 1 \in 0..Tries
            /\ \E u \in tokens["forgot"] : t = [u EXCEPT !.tries = b.tries - 1]
        BY <1>0, <3>3 DEF FailAttempt, Without, JobRecords, Tries
      <4> QED
        BY <3>1, <4>1 DEF TokenRows
    <3> QED
      BY <3>2, <3>3
  <2>4. tokens' \in [TokenKinds -> SUBSET TokenRows]
    BY <1>0, <2>1, <2>3 DEF Stored
  <2>5. Stored'
    BY <1>0, <2>1, <2>2, <2>4 DEF Stored
  <2>6. \A kind \in TokenKinds : \A t \in tokens'[kind] :
          \E u \in tokens[kind] : t.salt = u.salt /\ t.kb = u.kb
    BY <1>0, <2>1, <2>3 DEF Stored
  <2> QED
    BY <2>1, <2>5, <2>6, TokensDwindle, QuietTables
<1>7. CASE DeleteChangeToken(j)
  <2>1. /\ tokens' = [tokens EXCEPT !["change"] = Without("change", b.token)]
        /\ UNCHANGED <<account, sessions, keyFetches, recovery, clock,
                       issued, spent, lineage, wrong, announced, faults>>
    BY <1>7 DEF DeleteChangeToken
  <2>2. tokens' \in [TokenKinds -> SUBSET TokenRows]
        /\ \A kind \in TokenKinds : tokens'[kind] \subseteq tokens[kind]
    BY <1>0, <2>1 DEF Stored, Without, TokenKinds
  <2>3. Stored'
    BY <1>0, <2>1, <2>2 DEF Stored
  <2> QED
    BY <2>1, <2>2, <2>3, TokensDwindle, QuietTables
<1>8. CASE PurgeTokens(j)
  <2>1. /\ tokens' = [kind \in TokenKinds |-> {}]
        /\ UNCHANGED <<account, sessions, keyFetches, recovery, clock,
                       issued, spent, lineage, wrong, announced, faults>>
    BY <1>8 DEF PurgeTokens
  <2>2. Stored'
    BY <1>0, <2>1 DEF Stored
  <2> QED
    BY <2>1, <2>2, TokensDwindle, QuietTables
<1>9. CASE Announce(j)
  <2>1. /\ announced' = announced \cup {b.seen}
        /\ UNCHANGED <<account, sessions, keyFetches, tokens, recovery,
                       clock, issued, spent, lineage, wrong, faults>>
    BY <1>9 DEF Announce
  <2>2. Stored'
    BY <1>0, <2>1 DEF Stored, JobRecords
  <2> QED
    BY <2>1, <2>2, TokensDwindle, QuietTables
<1>10. CASE DropRecoveryKey(j)
  <2>1. /\ recovery' = {}
        /\ UNCHANGED <<account, sessions, keyFetches, tokens, clock, issued,
                       spent, lineage, wrong, announced, faults>>
    BY <1>10 DEF DropRecoveryKey
  <2>2. Stored'
    BY <1>0, <2>1 DEF Stored
  <2> QED
    BY <2>1, <2>2, TokensDwindle, QuietTables
<1>11. CASE ServeKeys(j)
  <2>1. /\ keyFetches' = keyFetches \/ keyFetches' = [keyFetches EXCEPT ![b.slot] = None]
        /\ UNCHANGED <<account, sessions, tokens, recovery, clock, issued,
                       spent, lineage, wrong, announced, faults>>
    BY <1>11 DEF ServeKeys
  <2>2. \A s \in Slots : keyFetches'[s] = keyFetches[s] \/ keyFetches'[s] = None
    BY <1>0, <2>1 DEF Stored
  <2>3. Stored'
    BY <1>0, <2>1 DEF Stored
  <2>4. Tables'
    BY <2>1, <2>2 DEF IInv, Tables, OldSessionsWereOvertaken,
                      OldKeysWereOvertaken, SecondFactorHolds
  <2> QED
    BY <2>1, <2>3, <2>4, TokensDwindle
<1>12. CASE Fail(j)
  <2>1. /\ faults < MaxFaults /\ faults' = faults + 1
        /\ UNCHANGED <<account, sessions, keyFetches, tokens, recovery,
                       clock, issued, spent, lineage, wrong, announced>>
    BY <1>12 DEF Fail
  <2>2. Stored'
    BY <1>0, <2>1, ConstantsAssumption DEF Stored
  <2> QED
    BY <2>1, <2>2, TokensDwindle, QuietTables
<1> QED
  BY <1>1, <1>2, <1>3, <1>4, <1>5, <1>6, <1>7, <1>8, <1>9, <1>10, <1>11, <1>12
     DEF Step

\* Steps that no request takes.
LEMMA ManageInv ==
  ASSUME IInv, (\E s \in Slots : Manage(s)) \/ (\E kind \in TokenKinds : Expire(kind))
  PROVE  IInv'
<1>0. Stored /\ job \in [Jobs -> JobRecords]
  BY DEF IInv, TypeOK, Stored
<1>1. UNCHANGED <<account, job, clock, lineage>>
  BY DEF Manage, VerifySession, DestroySession, CreateRecoveryKey,
         DeleteRecoveryKey, Expire
<1>2. /\ \A k \in Jobs : JobOK(job[k])'
      /\ Stamps'
      /\ InUse(account.salt)' /\ LineageOK'
      /\ \A salt : InUse(salt) => InUse(salt)'
  BY <1>1 DEF IInv, JobOK, Placed, InUse, Stamps, Claim, FactorKnown, KnowsKb, KnowsPw,
              LineageOK
<1>3. ASSUME NEW s \in Slots, VerifySession(s)
      PROVE  Stored' /\ Tables' /\ UNCHANGED tokens
  <2>1. PICK waiting \in SUBSET {k \in Slots \ Free(keyFetches) : ~keyFetches[k].verified} :
          keyFetches' = [k \in Slots |-> IF k \in waiting
                           THEN [keyFetches[k] EXCEPT !.verified = TRUE]
                           ELSE keyFetches[k]]
    BY <1>3 DEF VerifySession
  <2> DEFINE factor == IF account.totp THEN "totp" ELSE sessions[s].factor
             row == [sessions[s] EXCEPT !.verified = TRUE, !.factor = factor]
  <2>2. /\ sessions[s] \in SessionRows
        /\ sessions' = [sessions EXCEPT ![s].verified = TRUE,
                                        ![s].factor = IF account.totp THEN "totp" ELSE @]
        /\ UNCHANGED <<account, tokens, recovery, job, clock, issued, spent,
                       lineage, wrong, announced, faults>>
    BY <1>0, <1>3 DEF VerifySession, Stored
  <2>3. sessions' = [sessions EXCEPT ![s] = row]
    BY <1>0, <2>2 DEF Stored, SessionRows
  <2>4. factor \in Factors /\ (account.totp => factor # "none")
    BY <2>2 DEF SessionRows, Factors
  <2> HIDE DEF factor
  <2>5. /\ row \in SessionRows
        /\ row.pw = sessions[s].pw /\ row.kb = sessions[s].kb
        /\ row.late = sessions[s].late /\ row.factor = factor
    BY <2>2, <2>4 DEF SessionRows
  <2> HIDE DEF row
  <2>6. \A k \in Slots : sessions'[k] = IF k = s THEN row ELSE sessions[k]
    BY <1>0, <2>3 DEF Stored
  <2>7. \A k \in Slots :
          /\ keyFetches'[k] \in KeyFetchRows \cup {None}
          /\ keyFetches'[k] # None =>
               /\ keyFetches[k] # None
               /\ keyFetches'[k].kb = keyFetches[k].kb
               /\ keyFetches'[k].late = keyFetches[k].late
    BY <1>0, <2>1 DEF Stored, KeyFetchRows, Free
  <2>8. Stored'
    <3>1. keyFetches' \in [Slots -> KeyFetchRows \cup {None}]
      BY <2>1, <2>7
    <3>2. sessions' \in [Slots -> SessionRows \cup {None}]
      BY <1>0, <2>3, <2>5 DEF Stored
    <3> QED
      BY <1>0, <2>2, <3>1, <3>2 DEF Stored
  <2>9. OldSessionsWereOvertaken' /\ SecondFactorHolds'
    BY <1>3, <2>2, <2>4, <2>5, <2>6 DEF IInv, Tables, OldSessionsWereOvertaken,
                                 SecondFactorHolds, VerifySession
  <2>10. OldKeysWereOvertaken'
    BY <2>2, <2>7 DEF IInv, Tables, OldKeysWereOvertaken
  <2> QED
    BY <2>2, <2>8, <2>9, <2>10 DEF Tables
<1>4. ASSUME NEW s \in Slots, DestroySession(s)
      PROVE  Stored' /\ Tables' /\ UNCHANGED tokens
  <2>1. /\ sessions' = [sessions EXCEPT ![s] = None]
        /\ UNCHANGED <<account, keyFetches, tokens, recovery, job, clock,
                       issued, spent, lineage, wrong, announced, faults>>
    BY <1>4 DEF DestroySession
  <2>2. \A k \in Slots : sessions'[k] = sessions[k] \/ sessions'[k] = None
    BY <1>0, <2>1 DEF Stored
  <2>3. Stored'
    BY <1>0, <2>1 DEF Stored
  <2>4. Tables'
    BY <2>1, <2>2 DEF IInv, Tables, OldSessionsWereOvertaken,
                      OldKeysWereOvertaken, SecondFactorHolds
  <2> QED
    BY <2>1, <2>3, <2>4
<1>5. ASSUME NEW s \in Slots, CreateRecoveryKey(s) \/ DeleteRecoveryKey(s)
      PROVE  Stored' /\ Tables' /\ UNCHANGED tokens
  <2>1. UNCHANGED <<account, sessions, keyFetches, tokens, job, clock,
                    issued, spent, lineage, wrong, announced, faults>>
    BY <1>5 DEF CreateRecoveryKey, DeleteRecoveryKey
  <2>2. recovery' \subseteq [kb : Times]
    BY <1>0, <1>5 DEF CreateRecoveryKey, DeleteRecoveryKey, Stored, SessionRows
  <2>3. Stored'
    BY <1>0, <2>1, <2>2 DEF Stored
  <2> QED
    BY <2>1, <2>3, QuietTables
<1>6. ASSUME NEW kind \in TokenKinds, Expire(kind)
      PROVE  Stored' /\ Tables' /\ TokensOK'
  <2>1. /\ tokens' = [tokens EXCEPT ![kind] = {}]
        /\ UNCHANGED <<account, sessions, keyFetches, recovery, job, clock,
                       issued, spent, lineage, wrong, announced, faults>>
    BY <1>6 DEF Expire
  <2>2. tokens' \in [TokenKinds -> SUBSET TokenRows]
        /\ \A k \in TokenKinds : tokens'[k] \subseteq tokens[k]
    BY <1>0, <2>1 DEF Stored
  <2>3. Stored'
    BY <1>0, <2>1, <2>2 DEF Stored
  <2> QED
    BY <1>2, <2>1, <2>2, <2>3, TokensDwindle, QuietTables
<1>7. Stored' /\ Tables' /\ TokensOK'
  BY <1>1, <1>2, <1>3, <1>4, <1>5, <1>6, TokensDwindle DEF Manage
<1> QED
  BY <1>0, <1>1, <1>2, <1>7 DEF IInv, TypeOK, Stored, TokensOK

\* A new salt is sent to the database.
LEMMA StampInv ==
  ASSUME IInv, NEW j \in Jobs, Stamp(j)
  PROVE  IInv'
<1> DEFINE b == job[j]
           r == [b EXCEPT !.pc = "apply", !.stamp = clock + 1]
<1>0. b \in JobRecords /\ JobOK(b) /\ Stored /\ TokensOK
  BY DEF IInv, TypeOK, Stored, TokensOK
<1>1. /\ clock' = clock + 1 /\ clock < MaxClock
      /\ job' = [job EXCEPT ![j] = r]
      /\ b.pc = "stamp"
      /\ UNCHANGED <<account, sessions, keyFetches, tokens, recovery, issued,
                     spent, lineage, wrong, announced, faults>>
  BY DEF Stamp, At, Continue
<1>2. clock + 1 \in Times /\ clock \in Nat
  BY <1>0, <1>1, ConstantsAssumption DEF Stored, Times
<1>3. r \in JobRecords
  BY <1>0, <1>2 DEF JobRecords, Steps
<1>4. Alike(r, b) /\ r.pc = "apply" /\ r.stamp = clock + 1
  BY <1>0, <1>2 DEF JobRecords, Alike
<1> HIDE DEF r
<1>5. \A k \in Jobs : job'[k] = IF k = j THEN r ELSE job[k]
  BY <1>1 DEF IInv, TypeOK
<1>6. \A salt \in Times : InUse(salt) => InUse(salt)'
  BY <1>1, <1>2, <1>4, <1>5 DEF InUse, Times
<1>7. Stored'
  BY <1>0, <1>1, <1>2 DEF Stored
<1>8. \A k \in Jobs : JobOK(job[k])'
  <2> SUFFICES ASSUME NEW k \in Jobs PROVE JobOK(job[k])'
    OBVIOUS
  <2>1. Alike(job'[k], job[k]) /\ (k # j => job'[k] = job[k])
    BY <1>4, <1>5 DEF Alike
  <2>2. JobOK(job[k]) /\ job[k] \in JobRecords
    BY DEF IInv, TypeOK
  <2>3. PICK salt \in Times : salt = job[k].salt
    BY <2>2 DEF JobRecords
  <2>4. InUse(salt)' /\ job'[k].salt = salt
    BY <1>6, <2>1, <2>2, <2>3 DEF JobOK, Alike
  <2>5. CASE k # j
    BY <1>1, <2>1, <2>2, <2>4, <2>5 DEF JobOK, Placed, Claim, FactorKnown, KnowsKb,
                                  KnowsPw, InUse
  <2>6. CASE k = j
    BY <1>1, <1>4, <1>5, <2>1, <2>2, <2>4, <2>6
       DEF JobOK, Placed, Claim, FactorKnown, KnowsKb, KnowsPw, Applied, Replacers,
           Alike, InUse
  <2> QED
    BY <2>5, <2>6
<1>9. Stamps'
  BY <1>1, <1>2, <1>4, <1>5 DEF IInv, Stamps
<1>10. InUse(account.salt)'
  <2>1. PICK salt \in Times : salt = account.salt
    BY <1>0 DEF Stored, Accounts
  <2> QED
    BY <1>1, <1>6, <2>1 DEF IInv
<1>11. TokensOK'
  <2> SUFFICES ASSUME NEW kind \in TokenKinds, NEW t \in tokens[kind]
               PROVE  TokenOK(kind, t)'
    BY <1>1 DEF TokensOK
  <2>1. t.salt \in Times /\ TokenOK(kind, t)
    BY <1>0 DEF Stored, TokensOK, TokenRows
  <2> QED
    BY <1>1, <1>6, <2>1 DEF TokenOK
<1>12. Tables'
  BY <1>1, QuietTables
<1>13. job' \in [Jobs -> JobRecords]
  BY <1>1, <1>3 DEF IInv, TypeOK
<1>14. LineageOK'
  <2>1. lineage \subseteq Times /\ LineageOK
    BY DEF IInv, TypeOK
  <2> QED
    BY <1>1, <1>6, <2>1 DEF LineageOK
<1> QED
  BY <1>7, <1>8, <1>9, <1>10, <1>11, <1>12, <1>13, <1>14 DEF IInv, TypeOK, Stored, TokensOK

\* A new password takes effect: whoever proved the old one is overtaken.
LEMMA ResetInv ==
  ASSUME IInv, NEW j \in Jobs, ResetAccount(j)
  PROVE  IInv'
<1> DEFINE b == job[j]
           kb == NewKb(b)
           step == IF Op(j, {"reset"}) THEN "purge" ELSE "reread"
           r == [b EXCEPT !.pc = step, !.salt = b.stamp, !.kb = kb]
<1>0. b \in JobRecords /\ JobOK(b) /\ Stored
  BY DEF IInv, TypeOK, Stored
<1>1. /\ account' = [account EXCEPT !.pw = b.pw, !.salt = b.stamp, !.kb = kb]
      /\ sessions' = [s \in Slots |-> None]
      /\ keyFetches' = [s \in Slots |-> None]
      /\ tokens' = [kind \in TokenKinds |-> {}]
      /\ recovery' = recovery \/ recovery' = {}
      /\ spent' = spent \cup {b.token}
      /\ lineage' = {b.stamp} \cup IF kb = account.kb THEN lineage ELSE {}
      /\ job' = [job EXCEPT ![j] = r]
      /\ b.pc = "apply"
      /\ UNCHANGED <<clock, issued, wrong, announced, faults>>
  BY DEF ResetAccount, At, Continue, SessionsLeft, KeyFetchesLeft, TokensLeft
<1>2. /\ b.op \in Replacers /\ b.pw \in Passwords
      /\ step = IF b.op = "reset" THEN "purge" ELSE "reread"
      /\ step \in Steps
  BY <1>0, <1>1 DEF JobOK, Placed, Op, Steps, Replacers
<1>3. kb \in Times /\ b.stamp \in Times /\ b.token \in Ids /\ b.stamp \in 1..clock
  BY <1>0, <1>1 DEF IInv, Stamps, JobRecords, NewKb
<1> HIDE DEF kb, step
<1>4. r \in JobRecords
  BY <1>0, <1>2, <1>3 DEF JobRecords
<1>5. /\ r.pc = step /\ r.salt = b.stamp /\ r.kb = kb
      /\ r.op = b.op /\ r.pw = b.pw /\ r.recovery = b.recovery /\ r.totp = b.totp
      /\ r.verified = b.verified /\ r.factor = b.factor
  BY <1>0, <1>2, <1>3 DEF JobRecords
<1>6. account' \in Accounts
  BY <1>0, <1>1, <1>2, <1>3 DEF Stored, Accounts
<1>7. account'.pw = b.pw /\ account'.salt = b.stamp /\ account'.kb = kb
      /\ account'.totp = account.totp
  BY <1>0, <1>1, <1>2, <1>3 DEF Stored, Accounts
<1> HIDE DEF r
<1>8. \A k \in Jobs : job'[k] = IF k = j THEN r ELSE job[k]
  BY <1>1 DEF IInv, TypeOK
<1>9. Stored'
  BY <1>0, <1>1, <1>3, <1>6 DEF Stored
<1>10. job' \in [Jobs -> JobRecords]
  BY <1>1, <1>4 DEF IInv, TypeOK
<1>11. Stamps'
  BY <1>1, <1>2, <1>5, <1>8 DEF IInv, Stamps
<1>12. PICK stamp : stamp = b.stamp
  OBVIOUS
<1>13. InUse(stamp)'
  BY <1>0, <1>1, <1>2, <1>3, <1>5, <1>8, <1>12 DEF IInv, Stamps, InUse, Stored, Times
<1>14. InUse(account.salt)'
  BY <1>7, <1>12, <1>13
<1>15. \A salt : InUse(salt) => InUse(salt)'
  BY <1>1, <1>2, <1>5, <1>8 DEF InUse
<1>16. \A k \in Jobs : JobOK(job[k])'
  <2> SUFFICES ASSUME NEW k \in Jobs PROVE JobOK(job[k])'
    OBVIOUS
  <2>1. CASE k = j
    <3>1. job'[k] = r /\ InUse(stamp)' /\ r.salt = stamp
      BY <1>5, <1>8, <1>12, <1>13, <2>1
    <3> QED
      BY <1>0, <1>1, <1>2, <1>5, <1>7, <3>1
         DEF JobOK, Placed, Claim, FactorKnown, KnowsKb, KnowsPw, Replacers, Applied
  <2>2. CASE k # j
    <3>1. job'[k] = job[k] /\ JobOK(job[k])
      BY <1>8, <2>2 DEF IInv
    <3>2. PICK salt : salt = job[k].salt
      OBVIOUS
    <3>3. InUse(salt)' /\ job'[k].salt = salt /\ salt # b.stamp
      BY <1>1, <1>15, <3>1, <3>2 DEF JobOK, InUse
    <3>4. salt \in lineage' => salt \in lineage /\ account'.kb = account.kb
      BY <1>1, <1>7, <3>3
    <3> QED
      BY <1>7, <3>1, <3>2, <3>3, <3>4 DEF JobOK, Placed, Claim, FactorKnown
  <2> QED
    BY <2>1, <2>2
<1>18. LineageOK'
  BY <1>1, <1>7, <1>12, <1>13, <1>15 DEF IInv, LineageOK
<1>17. TokensOK' /\ Tables'
  BY <1>1 DEF TokensOK, Tables, OldSessionsWereOvertaken, OldKeysWereOvertaken,
              SecondFactorHolds
<1> QED
  BY <1>9, <1>10, <1>11, <1>14, <1>16, <1>17, <1>18 DEF IInv, TypeOK, Stored, TokensOK

LEMMA NextInv == IInv /\ [Next]_vars => IInv'
<1> SUFFICES ASSUME IInv, [Next]_vars PROVE IInv'
  OBVIOUS
<1>1. ASSUME NEW j \in Jobs,
             Start(j) \/ (Step(j) /\ ~Stamp(j) /\ ~ResetAccount(j)) \/ Fail(j)
      PROVE  IInv'
  <2>1. PICK r : GoesOn(j, r)
    BY <1>1, StartGoesOn, StepGoesOn, EndGoesOn DEF Fail
  <2>2. UNCHANGED <<account, clock, lineage>>
    BY <1>1 DEF Start, StartLogin, StartChange, StartForgot, StartVerify,
                StartFinish, StartReset, StartKeys, Begin, Step, Load,
                CheckPassword, CheckTotp, CreateSessionToken, CreateKeyFetchToken,
                IssueToken, RightCode, WrongCode, CheckRecoveryKey, CheckSession,
                DeleteChangeToken, PurgeTokens, Reread, Announce, DropRecoveryKey,
                ServeKeys, Fail, SameTables
  <2>3. /\ job' \in [Jobs -> JobRecords]
        /\ \A k \in Jobs : JobOK(job[k])'
        /\ Stamps'
        /\ \A salt : InUse(salt) => InUse(salt)'
        /\ InUse(account.salt)' /\ LineageOK'
    BY <2>1, <2>2, Frame
  <2>4. Stored' /\ TokensOK' /\ Tables'
    BY <1>1, <2>3, StepTables
  <2> QED
    BY <2>3, <2>4 DEF IInv, TypeOK, Stored, TokensOK
<1>2. CASE UNCHANGED vars
  BY <1>2 DEF vars, IInv, TypeOK, JobOK, Placed, InUse, Stamps, Claim, FactorKnown, LineageOK,
              KnowsKb, KnowsPw, TokenOK, Tables, OldSessionsWereOvertaken,
              OldKeysWereOvertaken, SecondFactorHolds
<1> QED
  BY <1>1, <1>2, ManageInv, StampInv, ResetInv DEF Next

-----------------------------------------------------------------------------
(* Theorems.                                                               *)

THEOREM Invariance == Spec => []IInv
BY InitInv, NextInv, PTL DEF Spec

\* Every variable keeps its type (PasswordFlows).
THEOREM TypeCorrect == Spec => []TypeOK
<1>1. IInv => TypeOK
  BY DEF IInv
<1> QED
  BY <1>1, Invariance, PTL

\* Whatever the requests and however they overlap, a session or a key-fetch
\* token of a former password is there only because the change overtook the
\* request that made it (account.js createSessionToken, signin.js
\* createKeyFetchToken).
THEOREM OnlyTheOvertakenKeepOldCredentials ==
  Spec => []OldCredentialsWereOvertaken
<1>1. IInv => OldCredentialsWereOvertaken
  BY DEF IInv, Tables, OldCredentialsWereOvertaken
<1> QED
  BY <1>1, Invariance, PTL

\* No path of login, change and reset gets a verified session on an account
\* with a second factor without it (account.js createSessionToken, password.js
\* getSessionVerificationStatus).
THEOREM SecondFactorIsNeeded == Spec => []SecondFactorHolds
<1>1. IInv => SecondFactorHolds
  BY DEF IInv, Tables
<1> QED
  BY <1>1, Invariance, PTL

\* A change of password keeps kB, however many others it overlaps with, unless
\* kB was replaced since its user proved the former password (password.js
\* changePassword).
THEOREM ChangesKeepKeys == Spec => ChangeKeepsKeys
<1>1. IInv /\ [Next]_vars =>
        [\A j \in Jobs :
           job[j].op = "changeFinish" /\ job[j].salt \in lineage /\ ResetAccount(j)
             => account'.kb = account.kb]_vars
  <2> SUFFICES ASSUME IInv, NEW j \in Jobs, job[j].op = "changeFinish",
                      job[j].salt \in lineage, ResetAccount(j)
               PROVE  account'.kb = account.kb
    OBVIOUS
  <2>1. account' = [account EXCEPT !.pw = job[j].pw, !.salt = job[j].stamp,
                                   !.kb = NewKb(job[j])]
    BY DEF ResetAccount
  <2>2. NewKb(job[j]) = account.kb
    BY DEF IInv, JobOK, Claim, KnowsKb, NewKb
  <2>3. account \in Accounts
    BY DEF IInv, TypeOK
  <2> QED
    BY <2>1, <2>2, <2>3 DEF Accounts
<1> QED
  BY <1>1, Invariance, PTL DEF Spec, ChangeKeepsKeys

-----------------------------------------------------------------------------
(* What the attached services are told.                                    *)

\* A request that is still to announce the password in force.
WillAnnounce(r, salt) ==
  r.pc \in {"purge", "reread"} \/ (r.pc = "announce" /\ r.seen = salt)

\* Why QuietMeansAnnounced holds: the change that was applied last reads the
\* generation back after it, so it reads its own.
ToldInv ==
  faults = 0 => \/ account.salt \in announced \cup {0}
                \/ \E j \in Jobs : WillAnnounce(job[j], account.salt)

\* Steps that are not on the way from the new password to its announcement.
Elsewhere(j) ==
  \/ Load(j) \/ CheckPassword(j) \/ CheckTotp(j) \/ CreateSessionToken(j)
  \/ CreateKeyFetchToken(j) \/ IssueToken(j) \/ RightCode(j) \/ WrongCode(j)
  \/ CheckRecoveryKey(j) \/ CheckSession(j) \/ DeleteChangeToken(j)
  \/ Stamp(j) \/ DropRecoveryKey(j) \/ ServeKeys(j)

LEMMA ElsewhereStep ==
  ASSUME TypeOK, NEW j \in Jobs, Elsewhere(j)
  PROVE  /\ job[j].pc \notin {"purge", "reread", "announce"}
         /\ \A k \in Jobs \ {j} : job'[k] = job[k]
         /\ UNCHANGED <<account, announced, faults>>
<1>1. CASE Load(j) \/ CheckPassword(j) \/ CheckTotp(j) \/ CheckRecoveryKey(j) \/ CheckSession(j)
  <2>1. \E r : job' = [job EXCEPT ![j] = r]
    BY <1>1 DEF Load, CheckPassword, CheckTotp, CheckRecoveryKey, CheckSession, Goto, End, Continue
  <2> QED
    BY <1>1, <2>1 DEF Load, CheckPassword, CheckTotp, CheckRecoveryKey, CheckSession, At,
                      SameTables, TypeOK
<1>2. CASE CreateSessionToken(j) \/ CreateKeyFetchToken(j) \/ IssueToken(j) \/ RightCode(j)
  <2>1. \E r : job' = [job EXCEPT ![j] = r]
    BY <1>2 DEF CreateSessionToken, CreateKeyFetchToken, IssueToken, RightCode, Goto, End, Continue
  <2> QED
    BY <1>2, <2>1 DEF CreateSessionToken, CreateKeyFetchToken, IssueToken, RightCode, At, TypeOK
<1>3. CASE WrongCode(j) \/ DeleteChangeToken(j) \/ Stamp(j) \/ DropRecoveryKey(j) \/ ServeKeys(j)
  <2>1. \E r : job' = [job EXCEPT ![j] = r]
    BY <1>3 DEF WrongCode, DeleteChangeToken, Stamp, DropRecoveryKey, ServeKeys, Goto, End, Continue
  <2> QED
    BY <1>3, <2>1 DEF WrongCode, DeleteChangeToken, Stamp, DropRecoveryKey, ServeKeys, At, TypeOK
<1> QED
  BY <1>1, <1>2, <1>3 DEF Elsewhere

LEMMA ToldStep ==
  ASSUME TypeOK, ToldInv, [Next]_vars
  PROVE  ToldInv'
<1> SUFFICES ASSUME faults' = 0
             PROVE  \/ account'.salt \in announced' \cup {0}
                    \/ \E j \in Jobs : WillAnnounce(job'[j], account'.salt)
  BY DEF ToldInv, WillAnnounce
<1>1. ASSUME NEW j \in Jobs, Start(j)
      PROVE  /\ job[j] = Idle
             /\ \A k \in Jobs \ {j} : job'[k] = job[k]
             /\ UNCHANGED <<account, announced, faults>>
  <2>1. \E request : Begin(j, request)
    BY <1>1, Zenon DEF Start, StartLogin, StartChange, StartForgot, StartVerify, StartFinish,
                       StartReset, StartKeys
  <2> QED
    BY <2>1 DEF Begin, TypeOK
<1>2. ASSUME NEW j \in Jobs, Start(j) \/ Elsewhere(j)
      PROVE  \/ account'.salt \in announced' \cup {0}
             \/ \E k \in Jobs : WillAnnounce(job'[k], account'.salt)
  <2>1. /\ job[j].pc \notin {"purge", "reread", "announce"}
        /\ \A k \in Jobs \ {j} : job'[k] = job[k]
        /\ UNCHANGED <<account, announced, faults>>
    BY <1>1, <1>2, ElsewhereStep DEF Idle
  <2> QED
    BY <2>1 DEF ToldInv, WillAnnounce
<1>3. ASSUME NEW j \in Jobs, ResetAccount(j)
      PROVE  WillAnnounce(job'[j], account'.salt)
  <2>1. job'[j].pc \in {"purge", "reread"}
    BY <1>3 DEF ResetAccount, Continue, TypeOK, JobRecords
  <2> QED
    BY <2>1 DEF WillAnnounce
<1>4. ASSUME NEW j \in Jobs, PurgeTokens(j)
      PROVE  WillAnnounce(job'[j], account'.salt)
  <2>1. job'[j].pc = "reread"
    BY <1>4 DEF PurgeTokens, Goto, Continue, TypeOK, JobRecords
  <2> QED
    BY <2>1 DEF WillAnnounce
<1>5. ASSUME NEW j \in Jobs, Reread(j)
      PROVE  WillAnnounce(job'[j], account'.salt)
  <2>1. job'[j].pc = "announce" /\ job'[j].seen = account.salt /\ UNCHANGED account
    BY <1>5 DEF Reread, Continue, TypeOK, JobRecords, SameTables
  <2> QED
    BY <2>1 DEF WillAnnounce
<1>6. ASSUME NEW j \in Jobs, Announce(j)
      PROVE  \/ account'.salt \in announced' \cup {0}
             \/ \E k \in Jobs : WillAnnounce(job'[k], account'.salt)
  <2>1. /\ job[j].pc = "announce" /\ announced' = announced \cup {job[j].seen}
        /\ UNCHANGED <<account, faults>>
        /\ \E r : job' = [job EXCEPT ![j] = r]
    BY <1>6 DEF Announce, At, Goto, Continue
  <2>2. \A k \in Jobs \ {j} : job'[k] = job[k]
    BY <2>1 DEF TypeOK
  <2> QED
    BY <2>1, <2>2 DEF ToldInv, WillAnnounce
<1>7. ASSUME NEW j \in Jobs, Fail(j)
      PROVE  FALSE
  BY <1>7 DEF Fail, TypeOK
<1>8. CASE UNCHANGED vars \/ (\E s \in Slots : Manage(s)) \/ (\E k \in TokenKinds : Expire(k))
  <2>1. UNCHANGED <<account, announced, faults, job>>
    BY <1>8 DEF vars, Manage, VerifySession, DestroySession, CreateRecoveryKey, DeleteRecoveryKey,
                Expire
  <2> QED
    BY <2>1 DEF ToldInv
<1> QED
  BY <1>2, <1>3, <1>4, <1>5, <1>6, <1>7, <1>8 DEF Next, Step, Elsewhere

\* Unless a call has failed, whenever no request is in flight the attached
\* services have been sent the generation of the password in force (account.js
\* resetAccountData, password.js notifyAccount).
THEOREM QuietMeansTold == Spec => []QuietMeansAnnounced
<1>1. Init => ToldInv
  BY DEF Init, ToldInv
<1>2. IInv => TypeOK
  BY DEF IInv
<1>3. TypeOK /\ ToldInv /\ [Next]_vars => ToldInv'
  BY ToldStep
<1>4. ToldInv => QuietMeansAnnounced
  BY DEF ToldInv, WillAnnounce, QuietMeansAnnounced, Idle
<1> QED
  BY <1>1, <1>2, <1>3, <1>4, Invariance, PTL DEF Spec

-----------------------------------------------------------------------------
(* What the documentation promises, and overlapping requests may break: of *)
(* each promise, the one pair of requests that must not overlap.           *)

\* The requests on their way to the statement that replaces the password.
BeforeApplied == {"recovery", "totp", "session", "delete", "stamp", "apply"}
Replacing(r) == r.op \in Replacers /\ r.pc \in BeforeApplied

\* The requests that proved or set a password and may yet make a session by it.
Proven(r) ==
  \/ r.op = "login" /\ r.pc \in {"totp", "newSession"}
  \/ r.op \in Replacers
     /\ r.pc \in {"purge", "reread", "announce", "dropKey", "newSession"}

\* No two requests submit a code with the same forgot token at once.
VerifiesApart ==
  \A j, k \in Jobs :
    At(j, "submit") /\ At(k, "submit") /\ job[j].token = job[k].token => j = k

\* No two requests replace the password by the same token at once.
ReplacesApart ==
  \A j, k \in Jobs :
    Replacing(job[j]) /\ Replacing(job[k]) /\ job[j].token = job[k].token => j = k

\* The password is not replaced while another request is to make a session by
\* the one it proved.
ProvesApart ==
  \A j, k \in Jobs : At(j, "apply") => ~Proven(job[k])

\* Why they suffice.  The wrong codes taken with a forgot token and the tries
\* it has left, in its row and in the copy of a request, are not too many;
LimitInv ==
  /\ \A i \in Ids : wrong[i] <= Tries /\ (i > issued => wrong[i] = 0)
  /\ \A t \in tokens["forgot"] :
       t.id <= issued /\ t.tries >= 1 /\ wrong[t.id] + t.tries <= Tries
  /\ \A j \in Jobs : At(j, "submit") =>
       /\ job[j].token <= issued /\ job[j].tries >= 1
       /\ wrong[job[j].token] + job[j].tries <= Tries

\* a token by which the password was replaced is in no table, and held by
\* nobody who may yet use it;
SpendInv ==
  /\ \A i \in spent : i <= issued
  /\ \A kind \in TokenKinds : \A t \in tokens[kind] :
       t.id <= issued /\ t.id \notin spent
  /\ \A j \in Jobs : Replacing(job[j]) =>
       job[j].token <= issued /\ job[j].token \notin spent

\* and the salt of who proved the password is the account's.
SignInv ==
  /\ \A j \in Jobs : Proven(job[j]) => job[j].salt = account.salt
  /\ SessionsDieWithThePassword

\* A request that arrives is about to submit a code or to replace the password
\* only with a token that is in its table.
LEMMA StartStep ==
  ASSUME TypeOK, NEW j \in Jobs, Start(j)
  PROVE  /\ job' \in [Jobs -> JobRecords]
         /\ \A k \in Jobs \ {j} : job'[k] = job[k]
         /\ UNCHANGED <<account, sessions, tokens, issued, spent, wrong>>
         /\ ~Proven(job'[j])
         /\ job'[j].pc = "submit" =>
              \E t \in tokens["forgot"] : job'[j].token = t.id /\ job'[j].tries = t.tries
         /\ Replacing(job'[j]) =>
              \E kind \in TokenKinds : \E t \in tokens[kind] : job'[j].token = t.id
<1>0. Idle \in JobRecords
  BY ConstantsAssumption DEF Idle, JobRecords, Kinds, Steps, Times, Ids, Tries, Factors
<1>b. ASSUME NEW r \in JobRecords, Begin(j, r)
      PROVE  /\ job' \in [Jobs -> JobRecords] /\ job'[j] = r
             /\ \A k \in Jobs \ {j} : job'[k] = job[k]
             /\ UNCHANGED <<account, sessions, tokens, issued, spent, wrong>>
  BY <1>b DEF Begin, TypeOK
<1>1. CASE StartLogin(j)
  <2>0. PICK pw \in Passwords, wants \in {"session", "keys"} :
        Begin(j, [Idle EXCEPT !.op = "login", !.pc = "load", !.pw = pw,
                              !.wants = wants])
    BY <1>1 DEF StartLogin
  <2> DEFINE r == [Idle EXCEPT !.op = "login", !.pc = "load", !.pw = pw,
                               !.wants = wants]
  <2>1. r \in JobRecords /\ r.op = "login" /\ r.pc = "load"
    BY <1>0, <2>0 DEF JobRecords, Kinds, Steps
  <2> QED
    BY <2>0, <2>1, <1>b DEF Proven, Replacing, Replacers
<1>2. CASE StartChange(j)
  <2>0. PICK pw \in Passwords :
        Begin(j, [Idle EXCEPT !.op = "changeStart", !.pc = "load", !.pw = pw,
                              !.wants = "keys"])
    BY <1>2 DEF StartChange
  <2> DEFINE r == [Idle EXCEPT !.op = "changeStart", !.pc = "load", !.pw = pw,
                               !.wants = "keys"]
  <2>1. r \in JobRecords /\ r.op = "changeStart" /\ r.pc = "load"
    BY <1>0, <2>0 DEF JobRecords, Kinds, Steps
  <2> QED
    BY <2>0, <2>1, <1>b DEF Proven, Replacing, Replacers
<1>3. CASE StartForgot(j)
  <2> DEFINE r == [Idle EXCEPT !.op = "forgotSend", !.pc = "load"]
  <2>1. r \in JobRecords /\ r.op = "forgotSend" /\ r.pc = "load"
    BY <1>0 DEF JobRecords, Kinds, Steps
  <2>2. Begin(j, r)
    BY <1>3 DEF StartForgot
  <2> QED
    BY <2>1, <2>2, <1>b DEF Proven, Replacing, Replacers
<1>4. CASE StartVerify(j)
  <2>0. PICK t \in tokens["forgot"] :
        Begin(j, [Presenting(t) EXCEPT !.op = "forgotVerify", !.pc = "submit",
                                       !.kb = t.kb])
    BY <1>4 DEF StartVerify
  <2> DEFINE r == [Presenting(t) EXCEPT !.op = "forgotVerify", !.pc = "submit",
                                        !.kb = t.kb]
  <2>1. t \in TokenRows
    BY <2>0 DEF TypeOK, TokenKinds
  <2>2. r \in JobRecords /\ r.op = "forgotVerify" /\ r.pc = "submit"
        /\ r.token = t.id /\ r.tries = t.tries
    BY <1>0, <2>1 DEF JobRecords, Kinds, Steps, TokenRows, Presenting
  <2> HIDE DEF r
  <2>3. job'[j] = r
    BY <2>0, <2>2, <1>b DEF r
  <2>4. ~Proven(r) /\ ~Replacing(r)
    BY <2>2 DEF Proven, Replacing, Replacers
  <2> QED
    BY <2>0, <2>2, <2>3, <2>4, <1>b DEF r
<1>5. CASE StartFinish(j)
  <2>0. PICK t \in tokens["change"], pw \in Passwords, slot \in Slots \cup {None},
           wants \in {"session", "keys"} :
        Begin(j, [Presenting(t) EXCEPT !.op = "changeFinish", !.pc = "totp",
                    !.pw = pw, !.kb = t.kb, !.slot = slot, !.wants = wants])
    BY <1>5 DEF StartFinish
  <2> DEFINE r == [Presenting(t) EXCEPT !.op = "changeFinish", !.pc = "totp",
                     !.pw = pw, !.kb = t.kb, !.slot = slot, !.wants = wants]
  <2>1. t \in TokenRows
    BY <2>0 DEF TypeOK, TokenKinds
  <2>2. r \in JobRecords /\ r.op = "changeFinish" /\ r.pc = "totp" /\ r.token = t.id
    BY <1>0, <2>0, <2>1 DEF JobRecords, Kinds, Steps, TokenRows, Presenting
  <2> HIDE DEF r
  <2>3. job'[j] = r
    BY <2>0, <2>2, <1>b DEF r
  <2>4. ~Proven(r)
    BY <2>2 DEF Proven, Replacers
  <2> QED
    BY <2>0, <2>2, <2>3, <2>4, <1>b DEF r, TokenKinds
<1>6. CASE StartReset(j)
  <2>0. PICK t \in tokens["reset"], pw \in Passwords, withKey \in BOOLEAN,
           wants \in {"nothing", "session", "keys"} :
        Begin(j, [Presenting(t) EXCEPT !.op = "reset", !.pw = pw, !.wants = wants,
                    !.pc = IF withKey THEN "recovery" ELSE "totp",
                    !.recovery = withKey])
    BY <1>6 DEF StartReset
  <2> DEFINE step == IF withKey THEN "recovery" ELSE "totp"
             r == [Presenting(t) EXCEPT !.op = "reset", !.pw = pw, !.wants = wants,
                     !.pc = step, !.recovery = withKey]
  <2>1. t \in TokenRows
    BY <2>0 DEF TypeOK, TokenKinds
  <2>s. step \in {"recovery", "totp"}
    OBVIOUS
  <2> HIDE DEF step
  <2>t. r \in JobRecords
    BY <1>0, <2>0, <2>1, <2>s DEF JobRecords, Kinds, Steps, TokenRows, Presenting
  <2>2. r \in JobRecords /\ r.op = "reset" /\ r.pc \in {"recovery", "totp"}
        /\ r.token = t.id
    BY <2>t, <2>0, <2>1, <2>s DEF Idle, Presenting
  <2> HIDE DEF r
  <2>3. Begin(j, r)
    BY <2>0 DEF r, step
  <2>4. job'[j] = r
    BY <2>3, <2>2, <1>b
  <2>5. ~Proven(r)
    BY <2>2 DEF Proven, Replacers
  <2> QED
    BY <2>0, <2>2, <2>3, <2>4, <2>5, <1>b DEF TokenKinds
<1>7. CASE StartKeys(j)
  <2>0. PICK s \in Slots \ Free(keyFetches) :
        Begin(j, [Fetching(s) EXCEPT !.op = "keys", !.pc = "serve"])
    BY <1>7 DEF StartKeys
  <2> DEFINE r == [Fetching(s) EXCEPT !.op = "keys", !.pc = "serve"]
  <2>1. keyFetches[s] \in KeyFetchRows
    BY <2>0 DEF TypeOK, Free
  <2>2. r \in JobRecords /\ r.op = "keys" /\ r.pc = "serve"
    BY <1>0, <2>0, <2>1 DEF JobRecords, Kinds, Steps, KeyFetchRows, Fetching
  <2> QED
    BY <2>0, <2>2, <1>b DEF Proven, Replacing, Replacers
<1> QED
  BY <1>1, <1>2, <1>3, <1>4, <1>5, <1>6, <1>7 DEF Start

\* The steps that issue no token, take no code and replace no password.
Aside(j) ==
  \/ Load(j) \/ CheckPassword(j) \/ CheckTotp(j) \/ CreateSessionToken(j)
  \/ CreateKeyFetchToken(j) \/ CheckRecoveryKey(j) \/ CheckSession(j)
  \/ DeleteChangeToken(j) \/ Stamp(j) \/ PurgeTokens(j) \/ Reread(j)
  \/ Announce(j) \/ DropRecoveryKey(j) \/ ServeKeys(j) \/ Fail(j)

\* What a request keeps in such a step: its token while it is on its way to the
\* new password, and its salt once it has proved the password.
Keeps(r, q) ==
  /\ q \in JobRecords
  /\ q.pc # "submit"
  /\ Replacing(q) => Replacing(r) /\ q.token = r.token
  /\ Proven(q) => (Proven(r) /\ q.salt = r.salt) \/ q.salt = account.salt

LEMMA AsideStep ==
  ASSUME IInv, NEW j \in Jobs, Aside(j)
  PROVE  /\ \E q : Keeps(job[j], q) /\ job' = [job EXCEPT ![j] = q]
         /\ \A kind \in TokenKinds : tokens'[kind] \subseteq tokens[kind]
         /\ UNCHANGED <<account, issued, spent, wrong>>
<1>0. Idle \in JobRecords /\ Idle.pc = "idle" /\ Idle.op = "none"
  BY ConstantsAssumption DEF Idle, JobRecords, Kinds, Steps, Times, Ids, Tries, Factors
<1>i. Keeps(job[j], Idle)
  BY <1>0 DEF Keeps, Replacing, BeforeApplied, Proven
<1>t. /\ job[j] \in JobRecords /\ account \in Accounts /\ clock \in Times /\ MaxClock \in Nat
      /\ tokens \in [TokenKinds -> SUBSET TokenRows] /\ sessions \in [Slots -> SessionRows \cup {None}]
      /\ recovery \subseteq [kb : Times]
  BY ConstantsAssumption DEF IInv, TypeOK
<1>p. Placed(job[j])
  BY DEF IInv, JobOK
<1>1. CASE Load(j)
  <2> DEFINE step == IF Op(j, {"forgotSend"}) THEN "issue" ELSE "check"
             q == [WithRecord(job[j]) EXCEPT !.pc = step]
  <2>1. step \in {"issue", "check"}
    OBVIOUS
  <2>2. job' = [job EXCEPT ![j] = q] /\ SameTables
    BY <1>1 DEF Load, Continue
  <2> HIDE DEF step
  <2>3. q \in JobRecords /\ q.pc = step
    BY <1>t, <2>1 DEF WithRecord, JobRecords, Steps, Accounts
  <2> HIDE DEF q
  <2>4. Keeps(job[j], q)
    BY <2>1, <2>3 DEF Keeps, Replacing, BeforeApplied, Proven
  <2> QED
    BY <2>2, <2>4 DEF SameTables
<1>2. CASE CheckPassword(j)
  <2>1. CASE End(j)
    BY <1>i, <1>2, <2>1 DEF CheckPassword, End, Continue, SameTables
  <2>2. CASE ~End(j)
    <3> DEFINE step == IF Op(j, {"login"}) THEN "totp" ELSE "newKeys"
               q == [job[j] EXCEPT !.pc = step]
    <3>1. /\ job' = [job EXCEPT ![j] = q] /\ SameTables
          /\ job[j].pc = "check" /\ job[j].salt = account.salt
      BY <1>2, <2>2 DEF CheckPassword, Goto, Continue, At
    <3>2. (step = "totp" /\ job[j].op = "login") \/ step = "newKeys"
      BY DEF Op
    <3> HIDE DEF step
    <3>3. q \in JobRecords /\ q.pc = step /\ q.op = job[j].op /\ q.salt = job[j].salt
      BY <1>t, <3>2 DEF JobRecords, Steps
    <3> HIDE DEF q
    <3>4. Keeps(job[j], q)
      BY <3>1, <3>2, <3>3 DEF Keeps, Replacing, BeforeApplied, Replacers, Proven
    <3> QED
      BY <3>1, <3>4 DEF SameTables
  <2> QED
    BY <2>1, <2>2
<1>3. CASE CheckTotp(j)
  <2>1. CASE End(j)
    BY <1>i, <1>3, <2>1 DEF CheckTotp, End, Continue, SameTables
  <2>2. CASE ~End(j)
    <3>1. /\ \E step \in {"newSession", "delete", "session", "stamp"} :
                /\ job' = [job EXCEPT ![j] = [job[j] EXCEPT !.pc = step, !.totp = account.totp]]
                /\ step = "newSession" => job[j].op = "login"
          /\ SameTables /\ job[j].pc = "totp"
      BY <1>3, <2>2 DEF CheckTotp, Continue, At, Op
    <3>2. PICK step \in {"newSession", "delete", "session", "stamp"} :
            /\ job' = [job EXCEPT ![j] = [job[j] EXCEPT !.pc = step, !.totp = account.totp]]
            /\ step = "newSession" => job[j].op = "login"
      BY <3>1
    <3> DEFINE q == [job[j] EXCEPT !.pc = step, !.totp = account.totp]
    <3>3. /\ q \in JobRecords /\ q.pc = step /\ q.op = job[j].op
          /\ q.salt = job[j].salt /\ q.token = job[j].token
      BY <1>t, <3>2 DEF JobRecords, Steps, Accounts
    <3> HIDE DEF q
    <3>4. Keeps(job[j], q)
      BY <3>1, <3>2, <3>3 DEF Keeps, Replacing, BeforeApplied, Replacers, Proven
    <3> QED
      BY <3>1, <3>2, <3>4 DEF q, SameTables
  <2> QED
    BY <2>1, <2>2
<1>4. CASE CreateSessionToken(j)
  <2>1. PICK v \in Verifications(job[j]) :
          /\ Continue(j, AfterSession([job[j] EXCEPT !.verified = v]))
          /\ job[j].pc = "newSession"
          /\ UNCHANGED <<account, tokens, issued, spent, wrong>>
    BY <1>4 DEF CreateSessionToken, At
  <2> DEFINE q == [job[j] EXCEPT !.verified = v, !.pc = "newKeys"]
  <2>2. v \in BOOLEAN
    BY <1>t DEF Verifications, JobRecords
  <2>3. q \in JobRecords /\ q.pc = "newKeys"
    BY <1>t, <2>2 DEF JobRecords, Steps
  <2>4. AfterSession([job[j] EXCEPT !.verified = v]) \in {q, Idle}
    BY <1>t DEF AfterSession, JobRecords
  <2> HIDE DEF q
  <2>5. Keeps(job[j], q)
    BY <2>3 DEF Keeps, Replacing, BeforeApplied, Proven
  <2> QED
    BY <2>1, <2>4, <2>5, <1>i DEF Continue
<1>5. CASE CreateKeyFetchToken(j) \/ ServeKeys(j) \/ Fail(j)
  <2> DEFINE q == [job[j] EXCEPT !.pc = "issue"]
  <2>1. job' = [job EXCEPT ![j] = q] \/ job' = [job EXCEPT ![j] = Idle]
    BY <1>5 DEF CreateKeyFetchToken, ServeKeys, Fail, Goto, End, Continue
  <2>2. q \in JobRecords /\ q.pc = "issue"
    BY <1>t DEF JobRecords, Steps
  <2> HIDE DEF q
  <2>3. Keeps(job[j], q)
    BY <2>2 DEF Keeps, Replacing, BeforeApplied, Proven
  <2>4. UNCHANGED <<account, tokens, issued, spent, wrong>>
    BY <1>5 DEF CreateKeyFetchToken, ServeKeys, Fail
  <2> QED
    BY <2>1, <2>3, <2>4, <1>i
<1>6. CASE CheckRecoveryKey(j)
  <2>1. CASE End(j)
    BY <1>i, <1>6, <2>1 DEF CheckRecoveryKey, End, Continue, SameTables
  <2>2. CASE ~End(j)
    <3>1. PICK k \in recovery :
            job' = [job EXCEPT ![j] = [job[j] EXCEPT !.pc = "totp", !.kb = k.kb]]
      BY <1>6, <2>2 DEF CheckRecoveryKey, Continue
    <3> DEFINE q == [job[j] EXCEPT !.pc = "totp", !.kb = k.kb]
    <3>2. k.kb \in Times
      BY <1>t
    <3>3. /\ q \in JobRecords /\ q.pc = "totp" /\ q.op = job[j].op
          /\ q.salt = job[j].salt /\ q.token = job[j].token
      BY <1>t, <3>2 DEF JobRecords, Steps
    <3>4. job[j].pc = "recovery" /\ SameTables
      BY <1>6 DEF CheckRecoveryKey, At
    <3> HIDE DEF q
    <3>5. job[j].op = "reset"
      BY <3>4, <1>p DEF Placed
    <3>6. Keeps(job[j], q)
      BY <3>3, <3>4, <3>5 DEF Keeps, Replacing, BeforeApplied, Replacers, Proven
    <3> QED
      BY <3>1, <3>4, <3>6 DEF q, SameTables
  <2> QED
    BY <2>1, <2>2
<1>7. CASE CheckSession(j)
  <2>1. CASE End(j)
    BY <1>i, <1>7, <2>1 DEF CheckSession, End, Continue, SameTables
  <2>2. CASE ~End(j)
    <3> DEFINE s == sessions[job[j].slot]
               factor == IF s.factor = "none" THEN "none" ELSE "inherited"
               q == [job[j] EXCEPT !.pc = "delete", !.verified = s.verified, !.factor = factor]
    <3>1. /\ job' = [job EXCEPT ![j] = q] /\ s # None
          /\ job[j].pc = "session" /\ SameTables
      BY <1>7, <2>2 DEF CheckSession, Continue, At
    <3>2. job[j].slot \in Slots /\ job[j].op = "changeFinish"
      BY <3>1, <1>p DEF Placed
    <3>3. s \in SessionRows /\ factor \in Factors
      BY <3>1, <3>2, <1>t DEF Factors
    <3> HIDE DEF s, factor
    <3>4. /\ q \in JobRecords /\ q.pc = "delete" /\ q.op = job[j].op /\ q.token = job[j].token
      BY <1>t, <3>3 DEF JobRecords, Steps, SessionRows
    <3> HIDE DEF q
    <3>5. Keeps(job[j], q)
      BY <3>1, <3>2, <3>4 DEF Keeps, Replacing, BeforeApplied, Replacers, Proven
    <3> QED
      BY <3>1, <3>5 DEF SameTables
  <2> QED
    BY <2>1, <2>2
<1>8. CASE DeleteChangeToken(j)
  <2> DEFINE q == [job[j] EXCEPT !.pc = "stamp"]
  <2>1. /\ job' = [job EXCEPT ![j] = q] /\ job[j].pc = "delete"
        /\ tokens' = [tokens EXCEPT !["change"] = Without("change", job[j].token)]
        /\ UNCHANGED <<account, issued, spent, wrong>>
    BY <1>8 DEF DeleteChangeToken, Goto, Continue, At
  <2>2. q \in JobRecords /\ q.pc = "stamp" /\ q.op = job[j].op /\ q.token = job[j].token
    BY <1>t DEF JobRecords, Steps
  <2>3. job[j].op = "changeFinish"
    BY <2>1, <1>p DEF Placed
  <2> HIDE DEF q
  <2>4. Keeps(job[j], q)
    BY <2>1, <2>2, <2>3 DEF Keeps, Replacing, BeforeApplied, Replacers, Proven
  <2>5. \A kind \in TokenKinds : tokens'[kind] \subseteq tokens[kind]
    BY <2>1, <1>t DEF Without
  <2> QED
    BY <2>1, <2>4, <2>5
<1>9. CASE Stamp(j)
  <2> DEFINE q == [job[j] EXCEPT !.pc = "apply", !.stamp = clock + 1]
  <2>1. /\ job' = [job EXCEPT ![j] = q] /\ job[j].pc = "stamp" /\ clock < MaxClock
        /\ UNCHANGED <<account, tokens, issued, spent, wrong>>
    BY <1>9 DEF Stamp, Continue, At
  <2>2. clock + 1 \in Times
    BY <1>t, <2>1 DEF Times
  <2>3. q \in JobRecords /\ q.pc = "apply" /\ q.op = job[j].op /\ q.token = job[j].token
    BY <1>t, <2>2 DEF JobRecords, Steps
  <2> HIDE DEF q
  <2>4. Keeps(job[j], q)
    BY <2>1, <2>3 DEF Keeps, Replacing, BeforeApplied, Proven
  <2> QED
    BY <2>1, <2>4
<1>10. CASE PurgeTokens(j)
  <2> DEFINE q == [job[j] EXCEPT !.pc = "reread"]
  <2>1. /\ job' = [job EXCEPT ![j] = q] /\ job[j].pc = "purge"
        /\ tokens' = [k \in TokenKinds |-> {}]
        /\ UNCHANGED <<account, issued, spent, wrong>>
    BY <1>10 DEF PurgeTokens, Goto, Continue, At
  <2>2. /\ q \in JobRecords /\ q.pc = "reread" /\ q.op = job[j].op /\ q.salt = job[j].salt
    BY <1>t DEF JobRecords, Steps
  <2> HIDE DEF q
  <2>3. Keeps(job[j], q)
    BY <2>1, <2>2 DEF Keeps, Replacing, BeforeApplied, Proven
  <2> QED
    BY <2>1, <2>3
<1>11. CASE Reread(j)
  <2> DEFINE q == [job[j] EXCEPT !.pc = "announce", !.seen = account.salt]
  <2>1. /\ job' = [job EXCEPT ![j] = q] /\ job[j].pc = "reread" /\ SameTables
    BY <1>11 DEF Reread, Continue, At
  <2>2. /\ q \in JobRecords /\ q.pc = "announce" /\ q.op = job[j].op /\ q.salt = job[j].salt
    BY <1>t DEF JobRecords, Steps, Accounts
  <2> HIDE DEF q
  <2>3. Keeps(job[j], q)
    BY <2>1, <2>2 DEF Keeps, Replacing, BeforeApplied, Proven
  <2> QED
    BY <2>1, <2>3 DEF SameTables
<1>12. CASE Announce(j) \/ DropRecoveryKey(j)
  <2>1. PICK step \in {"dropKey", "newSession"} :
          job' = [job EXCEPT ![j] = [job[j] EXCEPT !.pc = step]]
          \/ job' = [job EXCEPT ![j] = Idle]
    BY <1>12 DEF Announce, DropRecoveryKey, Goto, Continue, Rewards
  <2> DEFINE q == [job[j] EXCEPT !.pc = step]
  <2>2. /\ q \in JobRecords /\ q.pc = step /\ q.op = job[j].op /\ q.salt = job[j].salt
    BY <1>t DEF JobRecords, Steps
  <2>3. /\ job[j].pc \in {"announce", "dropKey"}
        /\ UNCHANGED <<account, tokens, issued, spent, wrong>>
    BY <1>12 DEF Announce, DropRecoveryKey, At
  <2>4. job[j].op \in Replacers
    BY <2>3, <1>p DEF Placed, Replacers
  <2> HIDE DEF q
  <2>5. Keeps(job[j], q)
    BY <2>2, <2>3, <2>4 DEF Keeps, Replacing, BeforeApplied, Replacers, Proven
  <2> QED
    BY <2>1, <2>3, <2>5, <1>i DEF q
<1> QED
  BY <1>1, <1>2, <1>3, <1>4, <1>5, <1>6, <1>7, <1>8, <1>9, <1>10, <1>11, <1>12 DEF Aside

\* The other steps, but for those that issue a token, take a code or replace the
\* password, leave requests alone.
LEMMA ManageStep ==
  ASSUME TypeOK, UNCHANGED vars \/ (\E s \in Slots : Manage(s))
                 \/ (\E kind \in TokenKinds : Expire(kind))
  PROVE  /\ UNCHANGED <<job, account, issued, spent, wrong>>
         /\ \A kind \in TokenKinds : tokens'[kind] \subseteq tokens[kind]
<1>1. CASE UNCHANGED vars
  BY <1>1 DEF vars
<1>2. ASSUME NEW s \in Slots, Manage(s)
      PROVE  UNCHANGED <<job, account, issued, spent, wrong, tokens>>
  BY <1>2 DEF Manage, VerifySession, DestroySession, CreateRecoveryKey, DeleteRecoveryKey
<1>3. ASSUME NEW kind \in TokenKinds, Expire(kind)
      PROVE  /\ UNCHANGED <<job, account, issued, spent, wrong>>
             /\ tokens' = [tokens EXCEPT ![kind] = {}]
  BY <1>3 DEF Expire
<1> QED
  BY <1>1, <1>2, <1>3 DEF TypeOK

\* A step keeps to the limit if the requests at "submit" after it were there
\* before it or have a token of the table, and a token is new or was there.
LEMMA LimitKept ==
  ASSUME TypeOK, LimitInv, UNCHANGED wrong, issued' \in Ids,
         issued' = issued \/ issued' = issued + 1,
         \A t \in tokens'["forgot"] :
           \/ t \in tokens["forgot"]
           \/ issued' = issued + 1 /\ t.id = issued' /\ t.tries = Tries,
         \A k \in Jobs : job'[k].pc = "submit" =>
           \/ job'[k] = job[k]
           \/ \E t \in tokens["forgot"] : job'[k].token = t.id /\ job'[k].tries = t.tries
  PROVE  LimitInv'
<1>1. /\ issued \in Nat /\ issued' \in Nat /\ wrong \in [Ids -> Nat]
      /\ \A i \in Ids : i \in Nat
      /\ \A t \in tokens["forgot"] : t.id \in Ids /\ t.tries \in Nat
      /\ \A k \in Jobs : job[k].token \in Ids /\ job[k].tries \in Nat
  <2>1. Ids \subseteq Nat /\ 0..Tries \subseteq Nat
    BY ConstantsAssumption DEF Ids, Tries
  <2>2. issued \in Ids /\ wrong \in [Ids -> Nat]
    BY DEF TypeOK
  <2>3. tokens["forgot"] \subseteq TokenRows
    BY DEF TypeOK, TokenKinds
  <2>4. \A t \in tokens["forgot"] : t.id \in Ids /\ t.tries \in 0..Tries
    BY <2>3 DEF TokenRows
  <2>5. \A k \in Jobs : job[k].token \in Ids /\ job[k].tries \in 0..Tries
    BY DEF TypeOK, JobRecords
  <2> QED
    BY <2>1, <2>2, <2>4, <2>5
<1>2. \A i \in Ids : wrong'[i] <= Tries /\ (i > issued' => wrong'[i] = 0)
  <2> SUFFICES ASSUME NEW i \in Ids
               PROVE  wrong'[i] <= Tries /\ (i > issued' => wrong'[i] = 0)
    OBVIOUS
  <2>1. wrong'[i] = wrong[i] /\ wrong[i] <= Tries /\ (i > issued => wrong[i] = 0)
    BY DEF LimitInv
  <2>2. issued \in Nat /\ issued' \in Nat /\ i \in Nat
    BY <1>1
  <2>3. issued' >= issued
    BY <2>2
  <2>4. i > issued' => i > issued
    BY <2>2, <2>3
  <2> QED
    BY <2>1, <2>4
<1>3. \A t \in tokens'["forgot"] :
        t.id <= issued' /\ t.tries >= 1 /\ wrong'[t.id] + t.tries <= Tries
  <2> SUFFICES ASSUME NEW t \in tokens'["forgot"]
               PROVE  t.id <= issued' /\ t.tries >= 1 /\ wrong'[t.id] + t.tries <= Tries
    OBVIOUS
  <2>1. CASE t \in tokens["forgot"]
    <3>1. t.id <= issued /\ t.tries >= 1 /\ wrong[t.id] + t.tries <= Tries /\ t.id \in Nat
      BY <1>1, <2>1 DEF LimitInv
    <3> QED
      BY <3>1, <1>1
  <2>2. CASE issued' = issued + 1 /\ t.id = issued' /\ t.tries = Tries
    <3>1. wrong[t.id] = 0
      BY <1>1, <2>2 DEF LimitInv
    <3> QED
      BY <3>1, <2>2, <1>1 DEF Tries
  <2> QED
    BY <2>1, <2>2
<1>4. ASSUME NEW k \in Jobs, job'[k].pc = "submit"
      PROVE  /\ job'[k].token <= issued' /\ job'[k].tries >= 1
             /\ wrong'[job'[k].token] + job'[k].tries <= Tries
  <2>1. CASE job'[k] = job[k]
    <3>1. /\ job[k].token <= issued /\ job[k].tries >= 1
          /\ wrong[job[k].token] + job[k].tries <= Tries
      BY <1>4, <2>1 DEF LimitInv, At
    <3>2. /\ job[k].token \in Nat /\ job[k].tries \in Nat
          /\ wrong[job[k].token] \in Nat
      BY <1>1
    <3> QED
      BY <3>1, <3>2, <2>1, <1>1
  <2>2. ASSUME NEW t \in tokens["forgot"], job'[k].token = t.id, job'[k].tries = t.tries
        PROVE  /\ job'[k].token <= issued' /\ job'[k].tries >= 1
               /\ wrong'[job'[k].token] + job'[k].tries <= Tries
    <3>1. t.id <= issued /\ t.tries >= 1 /\ wrong[t.id] + t.tries <= Tries /\ t.id \in Nat
      BY <1>1 DEF LimitInv
    <3> QED
      BY <3>1, <2>2, <1>1
  <2> QED
    BY <1>4, <2>1, <2>2
<1> QED
  BY <1>2, <1>3, <1>4 DEF LimitInv, At

LEMMA LimitStep ==
  ASSUME IInv, LimitInv, VerifiesApart, [Next]_vars
  PROVE  LimitInv'
<1>0. /\ TypeOK /\ issued \in Ids /\ job \in [Jobs -> JobRecords]
      /\ tokens \in [TokenKinds -> SUBSET TokenRows] /\ "forgot" \in TokenKinds
      /\ Idle.pc = "idle"
  BY DEF IInv, TypeOK, TokenKinds, Idle
<1>1. ASSUME NEW j \in Jobs, Start(j)
      PROVE  LimitInv'
  <2>1. \A k \in Jobs : job'[k].pc = "submit" =>
          \/ job'[k] = job[k]
          \/ \E t \in tokens["forgot"] : job'[k].token = t.id /\ job'[k].tries = t.tries
    BY <1>0, <1>1, StartStep
  <2>2. UNCHANGED <<tokens, issued, wrong>>
    BY <1>0, <1>1, StartStep
  <2> QED
    BY <1>0, <2>1, <2>2, LimitKept
<1>2. ASSUME NEW j \in Jobs, Aside(j)
      PROVE  LimitInv'
  <2>1. /\ \A k \in Jobs : job'[k].pc = "submit" => job'[k] = job[k]
        /\ tokens'["forgot"] \subseteq tokens["forgot"]
        /\ UNCHANGED <<issued, wrong>>
    BY <1>0, <1>2, AsideStep DEF Keeps
  <2> QED
    BY <1>0, <2>1, LimitKept
<1>3. ASSUME NEW j \in Jobs, IssueToken(j)
      PROVE  LimitInv'
  <2>1. /\ issued < MaxTokens /\ issued' = issued + 1 /\ UNCHANGED wrong
        /\ job' = [job EXCEPT ![j] = Idle]
    BY <1>3 DEF IssueToken, End, Continue
  <2>2. tokens' = [tokens EXCEPT
          ![IF Op(j, {"forgotSend"}) THEN "forgot" ELSE "change"] =
            {[id |-> issued + 1, salt |-> job[j].salt, kb |-> job[j].kb,
              tries |-> IF Op(j, {"forgotSend"}) THEN Tries ELSE 0]}]
    BY <1>3 DEF IssueToken
  <2>3. issued' \in Ids
    BY <1>0, <2>1, ConstantsAssumption DEF Ids
  <2>4. \A t \in tokens'["forgot"] :
          t \in tokens["forgot"] \/ (t.id = issued' /\ t.tries = Tries)
    BY <1>0, <2>1, <2>2 DEF TokenKinds
  <2>5. \A k \in Jobs : job'[k].pc = "submit" => job'[k] = job[k]
    BY <1>0, <2>1
  <2> QED
    BY <1>0, <2>1, <2>3, <2>4, <2>5, LimitKept
<1>4. ASSUME NEW j \in Jobs, RightCode(j)
      PROVE  LimitInv'
  <2>1. /\ issued < MaxTokens /\ issued' = issued + 1 /\ UNCHANGED wrong
        /\ job' = [job EXCEPT ![j] = Idle]
        /\ tokens' = [tokens EXCEPT
             !["forgot"] = Without("forgot", job[j].token),
             !["reset"] = {[id |-> issued + 1, salt |-> job[j].salt,
                            kb |-> job[j].kb, tries |-> 0]}]
    BY <1>4 DEF RightCode, End, Continue
  <2>2. issued' \in Ids
    BY <1>0, <2>1, ConstantsAssumption DEF Ids
  <2>3. tokens'["forgot"] \subseteq tokens["forgot"]
    BY <1>0, <2>1 DEF Without, TokenKinds
  <2>4. \A k \in Jobs : job'[k].pc = "submit" => job'[k] = job[k]
    BY <1>0, <2>1
  <2> QED
    BY <1>0, <2>1, <2>2, <2>3, <2>4, LimitKept
<1>5. ASSUME NEW j \in Jobs, WrongCode(j)
      PROVE  LimitInv'
  <2> DEFINE i == job[j].token
             n == job[j].tries
  <2>1. /\ job[j].pc = "submit" /\ UNCHANGED issued
        /\ job' = [job EXCEPT ![j] = Idle]
        /\ wrong' = [wrong EXCEPT ![i] = @ + 1]
        /\ tokens' = [tokens EXCEPT !["forgot"] = FailAttempt(j)]
    BY <1>5 DEF WrongCode, End, Continue, At
  <2>2. /\ i \in Ids /\ n \in Nat /\ issued \in Nat /\ \A x \in Ids : wrong[x] \in Nat
        /\ \A t \in tokens["forgot"] : t \in TokenRows /\ t.id \in Ids /\ t.tries \in Nat
    BY <1>0, ConstantsAssumption DEF TypeOK, JobRecords, Ids, Tries, TokenRows
  <2>3. i <= issued /\ n >= 1 /\ wrong[i] + n <= Tries
    BY <2>1 DEF LimitInv, At
  <2>4. \A x \in Ids : wrong'[x] = IF x = i THEN wrong[i] + 1 ELSE wrong[x]
    BY <1>0, <2>1, <2>2 DEF TypeOK
  <2> HIDE DEF i, n
  <2>5. \A x \in Ids : wrong'[x] <= Tries /\ (x > issued => wrong'[x] = 0)
    BY <2>2, <2>3, <2>4 DEF LimitInv, Ids, Tries
  <2>6. ASSUME NEW t \in tokens'["forgot"]
        PROVE  t.id <= issued /\ t.tries >= 1 /\ wrong'[t.id] + t.tries <= Tries
    <3>1. t \in FailAttempt(j)
      BY <1>0, <2>1
    <3>2. CASE t \in tokens["forgot"] /\ t.id # i
      BY <2>2, <2>4, <3>2 DEF LimitInv
    <3>3. ASSUME NEW u \in tokens["forgot"], u.id = i, n - 1 >= 1, t = [u EXCEPT !.tries = n - 1]
          PROVE  t.id <= issued /\ t.tries >= 1 /\ wrong'[t.id] + t.tries <= Tries
      <4>1. t.id = i /\ t.tries = n - 1
        BY <2>2, <3>3 DEF TokenRows
      <4> QED
        BY <4>1, <3>3, <2>2, <2>3, <2>4
    <3>4. \/ t \in tokens["forgot"] /\ t.id # i
          \/ \E u \in tokens["forgot"] :
               u.id = i /\ n - 1 >= 1 /\ t = [u EXCEPT !.tries = n - 1]
      BY <3>1, <2>2 DEF FailAttempt, Without, i, n
    <3> QED
      BY <3>2, <3>3, <3>4
  <2>7. ASSUME NEW k \in Jobs, job'[k].pc = "submit"
        PROVE  /\ job'[k].token <= issued /\ job'[k].tries >= 1
               /\ wrong'[job'[k].token] + job'[k].tries <= Tries
    <3>1. k # j /\ job'[k] = job[k]
      BY <1>0, <2>1, <2>7
    <3>2. job[k].token # i
      BY <2>1, <2>7, <3>1 DEF VerifiesApart, At, i
    <3>3. job[k].token \in Ids
      BY <1>0 DEF JobRecords
    <3> QED
      BY <2>4, <2>7, <3>1, <3>2, <3>3 DEF LimitInv, At
  <2> QED
    BY <2>1, <2>5, <2>6, <2>7 DEF LimitInv, At
<1>6. ASSUME NEW j \in Jobs, ResetAccount(j)
      PROVE  LimitInv'
  <2>1. /\ tokens' = [k \in TokenKinds |-> {}] /\ UNCHANGED <<issued, wrong>>
        /\ job' = [job EXCEPT ![j] = [job[j] EXCEPT
             !.pc = IF Op(j, {"reset"}) THEN "purge" ELSE "reread",
             !.salt = job[j].stamp, !.kb = NewKb(job[j])]]
    BY <1>6 DEF ResetAccount, Continue, TokensLeft
  <2>2. \A k \in Jobs : job'[k].pc = "submit" => job'[k] = job[k]
    BY <1>0, <2>1 DEF JobRecords
  <2> QED
    BY <1>0, <2>1, <2>2, LimitKept
<1>7. CASE UNCHANGED vars \/ (\E s \in Slots : Manage(s)) \/ (\E k \in TokenKinds : Expire(k))
  <2>1. /\ UNCHANGED <<job, issued, wrong>>
        /\ tokens'["forgot"] \subseteq tokens["forgot"]
    BY <1>0, <1>7, ManageStep
  <2> QED
    BY <1>0, <2>1, LimitKept
<1> QED
  BY <1>1, <1>2, <1>3, <1>4, <1>5, <1>6, <1>7 DEF Next, Step, Aside

\* A forgot token takes no more wrong codes than it admits, however requests
\* overlap and fail, as long as no two submit a code with that token at once
\* (password.js failVerifyAttempt, docs/api.md).
THEOREM SubmissionsAreLimitedApart ==
  Spec /\ []VerifiesApart => []SubmissionsAreLimited
<1>1. Init => LimitInv
  <2> SUFFICES ASSUME Init PROVE LimitInv
    OBVIOUS
  <2>1. tokens["forgot"] = {}
    BY DEF Init, TokenKinds
  <2>2. \A j \in Jobs : job[j].pc = "idle"
    BY DEF Init, Idle
  <2>3. \A i \in Ids : wrong[i] = 0
    BY DEF Init
  <2> QED
    BY <2>1, <2>2, <2>3 DEF LimitInv, At, Tries
<1>2. IInv /\ LimitInv /\ VerifiesApart /\ [Next]_vars => LimitInv'
  BY LimitStep
<1>3. LimitInv => SubmissionsAreLimited
  BY DEF LimitInv, SubmissionsAreLimited
<1> QED
  BY <1>1, <1>2, <1>3, Invariance, PTL DEF Spec

\* A step keeps spent tokens apart if it spends none, a token after it is new or
\* was there, and so was the token of a request that may replace the password.
LEMMA SpendKept ==
  ASSUME TypeOK, SpendInv, UNCHANGED spent, issued' = issued \/ issued' = issued + 1,
         \A kind \in TokenKinds : \A t \in tokens'[kind] :
           \/ \E u \in tokens[kind] : t.id = u.id
           \/ issued' = issued + 1 /\ t.id = issued',
         \A k \in Jobs : Replacing(job'[k]) =>
           \/ Replacing(job[k]) /\ job'[k].token = job[k].token
           \/ \E kind \in TokenKinds : \E t \in tokens[kind] : job'[k].token = t.id
  PROVE  SpendInv'
<1>1. issued \in Nat /\ issued' \in Nat /\ issued <= issued'
  BY ConstantsAssumption DEF TypeOK, Ids
<1>2. /\ \A i \in spent : i \in Nat
      /\ \A kind \in TokenKinds : \A t \in tokens[kind] : t.id \in Nat
      /\ \A k \in Jobs : job[k].token \in Nat
  <2>1. Ids \subseteq Nat
    BY ConstantsAssumption DEF Ids
  <2>2. \A kind \in TokenKinds : tokens[kind] \subseteq TokenRows
    BY DEF TypeOK
  <2> QED
    BY <2>1, <2>2 DEF TypeOK, JobRecords, TokenRows
<1>3. \A i \in spent' : i <= issued'
  <2> SUFFICES ASSUME NEW i \in spent PROVE i <= issued'
    OBVIOUS
  <2>1. i <= issued /\ i \in Nat
    BY <1>2 DEF SpendInv
  <2> QED
    BY <2>1, <1>1
<1>4. ASSUME NEW n, n \in Nat, n <= issued, n \notin spent
      PROVE  n <= issued' /\ n \notin spent'
  BY <1>1, <1>4
<1>5. ASSUME NEW kind \in TokenKinds, NEW t \in tokens[kind]
      PROVE  t.id <= issued' /\ t.id \notin spent'
  <2>1. t.id <= issued /\ t.id \notin spent /\ t.id \in Nat
    BY <1>2, <1>5 DEF SpendInv
  <2> QED
    BY <2>1, <1>4
<1>6. ASSUME NEW kind \in TokenKinds, NEW t \in tokens'[kind]
      PROVE  t.id <= issued' /\ t.id \notin spent'
  <2>1. CASE \E u \in tokens[kind] : t.id = u.id
    BY <2>1, <1>5
  <2>2. CASE issued' = issued + 1 /\ t.id = issued'
    <3>1. t.id \notin spent
      <4> SUFFICES ASSUME t.id \in spent PROVE FALSE
        OBVIOUS
      <4>1. t.id <= issued
        BY DEF SpendInv
      <4> QED
        BY <4>1, <2>2, <1>1
    <3> QED
      BY <3>1, <2>2, <1>1
  <2> QED
    BY <1>6, <2>1, <2>2
<1>7. ASSUME NEW k \in Jobs, Replacing(job'[k])
      PROVE  job'[k].token <= issued' /\ job'[k].token \notin spent'
  <2>1. CASE Replacing(job[k]) /\ job'[k].token = job[k].token
    <3>1. job[k].token <= issued /\ job[k].token \notin spent /\ job[k].token \in Nat
      BY <2>1, <1>2 DEF SpendInv
    <3> QED
      BY <3>1, <2>1, <1>4
  <2>2. CASE \E kind \in TokenKinds : \E t \in tokens[kind] : job'[k].token = t.id
    BY <2>2, <1>5
  <2> QED
    BY <1>7, <2>1, <2>2
<1> QED
  BY <1>3, <1>6, <1>7 DEF SpendInv, Replacing

LEMMA SpendStep ==
  ASSUME IInv, SpendInv, ReplacesApart, [Next]_vars
  PROVE  SpendInv'
<1>0. /\ TypeOK /\ issued \in Ids /\ job \in [Jobs -> JobRecords]
      /\ tokens \in [TokenKinds -> SUBSET TokenRows]
      /\ Idle.pc = "idle"
  BY DEF IInv, TypeOK, Idle
<1>i. ~Replacing(Idle)
  BY <1>0 DEF Replacing, BeforeApplied
<1>1. ASSUME NEW j \in Jobs, Start(j)
      PROVE  SpendInv'
  <2>1. /\ \A k \in Jobs : Replacing(job'[k]) =>
             \/ Replacing(job[k]) /\ job'[k].token = job[k].token
             \/ \E kind \in TokenKinds : \E t \in tokens[kind] : job'[k].token = t.id
        /\ UNCHANGED <<tokens, issued, spent>>
    BY <1>0, <1>1, StartStep
  <2> QED
    BY <1>0, <2>1, SpendKept
<1>2. ASSUME NEW j \in Jobs, Aside(j)
      PROVE  SpendInv'
  <2>1. /\ \A k \in Jobs : Replacing(job'[k]) => Replacing(job[k]) /\ job'[k].token = job[k].token
        /\ \A kind \in TokenKinds : tokens'[kind] \subseteq tokens[kind]
        /\ UNCHANGED <<issued, spent>>
    BY <1>0, <1>2, AsideStep DEF Keeps
  <2> QED
    BY <1>0, <2>1, SpendKept
<1>3. ASSUME NEW j \in Jobs, IssueToken(j) \/ RightCode(j) \/ WrongCode(j)
      PROVE  SpendInv'
  <2>1. UNCHANGED spent /\ job' = [job EXCEPT ![j] = Idle]
    BY <1>3 DEF IssueToken, RightCode, WrongCode, End, Continue
  <2>2. \A k \in Jobs : Replacing(job'[k]) => Replacing(job[k]) /\ job'[k].token = job[k].token
    BY <1>0, <1>i, <2>1
  <2>3. CASE IssueToken(j)
    <3> DEFINE row == [id |-> issued + 1, salt |-> job[j].salt, kb |-> job[j].kb,
                       tries |-> IF Op(j, {"forgotSend"}) THEN Tries ELSE 0]
    <3>1. /\ row.id = issued + 1
          /\ tokens' = [tokens EXCEPT
               ![IF Op(j, {"forgotSend"}) THEN "forgot" ELSE "change"] = {row}]
      BY <2>3 DEF IssueToken
    <3> HIDE DEF row
    <3>2. issued' = issued + 1
      BY <2>3 DEF IssueToken
    <3> QED
      BY <1>0, <2>1, <2>2, <3>1, <3>2, SpendKept
  <2>4. CASE RightCode(j)
    <3>1. \E row : row.id = issued + 1
            /\ tokens' = [tokens EXCEPT !["forgot"] = Without("forgot", job[j].token),
                                        !["reset"] = {row}]
      BY <2>4 DEF RightCode
    <3>2. issued' = issued + 1
      BY <2>4 DEF RightCode
    <3>3. Without("forgot", job[j].token) \subseteq tokens["forgot"]
      BY DEF Without
    <3> QED
      BY <1>0, <2>1, <2>2, <3>1, <3>2, <3>3, SpendKept
  <2>5. CASE WrongCode(j)
    <3>1. tokens' = [tokens EXCEPT !["forgot"] = FailAttempt(j)] /\ UNCHANGED issued
      BY <2>5 DEF WrongCode
    <3>2. ASSUME NEW t \in FailAttempt(j)
          PROVE  \E u \in tokens["forgot"] : t.id = u.id
      <4>1. PICK u \in tokens["forgot"] :
              t = u \/ \E left : t = [u EXCEPT !.tries = left]
        BY <3>2 DEF FailAttempt, Without
      <4>2. u \in TokenRows
        BY <1>0 DEF TokenKinds
      <4> QED
        BY <4>1, <4>2 DEF TokenRows
    <3>3. \A kind \in TokenKinds : \A t \in tokens'[kind] : \E u \in tokens[kind] : t.id = u.id
      BY <1>0, <3>1, <3>2
    <3> QED
      BY <1>0, <2>1, <2>2, <3>1, <3>3, SpendKept
  <2> QED
    BY <1>3, <2>3, <2>4, <2>5
<1>4. ASSUME NEW j \in Jobs, ResetAccount(j)
      PROVE  SpendInv'
  <2>1. /\ job[j].pc = "apply" /\ UNCHANGED issued
        /\ tokens' = [k \in TokenKinds |-> {}]
        /\ spent' = spent \cup {job[j].token}
        /\ job' = [job EXCEPT ![j] = [job[j] EXCEPT
             !.pc = IF Op(j, {"reset"}) THEN "purge" ELSE "reread",
             !.salt = job[j].stamp, !.kb = NewKb(job[j])]]
    BY <1>4 DEF ResetAccount, Continue, TokensLeft, At
  <2>2. Replacing(job[j])
    BY <2>1 DEF IInv, JobOK, Placed, Replacing, BeforeApplied
  <2>3. job'[j].pc \in {"purge", "reread"}
    BY <1>0, <2>1 DEF JobRecords
  <2>4. ~Replacing(job'[j])
    BY <2>3 DEF Replacing, BeforeApplied
  <2>5. ASSUME NEW k \in Jobs, Replacing(job'[k])
        PROVE  job'[k].token <= issued' /\ job'[k].token \notin spent'
    <3>1. k # j /\ job'[k] = job[k]
      BY <1>0, <2>1, <2>4, <2>5
    <3>2. job[k].token # job[j].token
      BY <2>2, <2>5, <3>1 DEF ReplacesApart
    <3> QED
      BY <2>1, <2>5, <3>1, <3>2 DEF SpendInv
  <2>6. \A i \in spent' : i <= issued'
    BY <2>1, <2>2 DEF SpendInv
  <2> QED
    BY <2>1, <2>5, <2>6 DEF SpendInv, Replacing
<1>5. CASE UNCHANGED vars \/ (\E s \in Slots : Manage(s)) \/ (\E k \in TokenKinds : Expire(k))
  <2>1. /\ UNCHANGED <<job, issued, spent>>
        /\ \A kind \in TokenKinds : tokens'[kind] \subseteq tokens[kind]
    BY <1>0, <1>5, ManageStep
  <2> QED
    BY <1>0, <2>1, SpendKept
<1> QED
  BY <1>1, <1>2, <1>3, <1>4, <1>5 DEF Next, Step, Aside

\* A reset or change token replaces the password once, however requests overlap
\* and fail, as long as no two use that token at once: resetAccount, which also
\* deletes all tokens, comes several calls after the token was read (account.js
\* /account/reset, password.js /password/change/finish).
THEOREM TokensReplaceOnceApart ==
  Spec /\ []ReplacesApart => [][SpendsNewToken]_vars
<1>1. Init => SpendInv
  <2> SUFFICES ASSUME Init PROVE SpendInv
    OBVIOUS
  <2>1. \A kind \in TokenKinds : tokens[kind] = {}
    BY DEF Init
  <2>2. \A j \in Jobs : job[j].pc = "idle"
    BY DEF Init, Idle
  <2> QED
    BY <2>1, <2>2 DEF Init, SpendInv, Replacing, BeforeApplied
<1>2. IInv /\ SpendInv /\ ReplacesApart /\ [Next]_vars => SpendInv'
  BY SpendStep
<1>3. IInv /\ SpendInv => [SpendsNewToken]_vars
  <2> SUFFICES ASSUME IInv, SpendInv, NEW j \in Jobs, ResetAccount(j)
               PROVE  job[j].token \notin spent
    BY DEF SpendsNewToken
  <2>1. job[j].pc = "apply"
    BY DEF ResetAccount, At
  <2>2. Replacing(job[j])
    BY <2>1 DEF IInv, JobOK, Placed, Replacing, BeforeApplied
  <2> QED
    BY <2>2 DEF SpendInv
<1> QED
  BY <1>1, <1>2, <1>3, Invariance, PTL DEF Spec

LEMMA SessionsDie ==
  ASSUME IInv, SignInv, [Next]_vars
  PROVE  SessionsDieWithThePassword'
<1>0. /\ TypeOK /\ sessions \in [Slots -> SessionRows \cup {None}]
  BY DEF IInv, TypeOK
<1>1. ASSUME NEW j \in Jobs, ResetAccount(j)
      PROVE  SessionsDieWithThePassword'
  BY <1>1 DEF ResetAccount, SessionsLeft, SessionsDieWithThePassword
<1>2. ASSUME NEW j \in Jobs, CreateSessionToken(j)
      PROVE  SessionsDieWithThePassword'
  <2>1. /\ job[j].pc = "newSession" /\ UNCHANGED account
        /\ \E s \in Slots : \E row :
             row.pw = job[j].pw /\ sessions' = [sessions EXCEPT ![s] = row]
    BY <1>2 DEF CreateSessionToken, At, Free
  <2>2. JobOK(job[j]) /\ Proven(job[j])
    BY <2>1 DEF IInv, JobOK, Placed, Proven, Replacers
  <2>3. job[j].pw = account.pw
    BY <2>1, <2>2 DEF SignInv, JobOK, Claim, KnowsPw, Proven, Applied
  <2> QED
    BY <1>0, <2>1, <2>3 DEF SignInv, SessionsDieWithThePassword
<1>3. ASSUME NEW s \in Slots, VerifySession(s)
      PROVE  SessionsDieWithThePassword'
  <2> DEFINE factor == IF account.totp THEN "totp" ELSE sessions[s].factor
             row == [sessions[s] EXCEPT !.verified = TRUE, !.factor = factor]
  <2>1. /\ sessions[s] # None /\ UNCHANGED account
        /\ sessions' = [sessions EXCEPT ![s] = row]
    BY <1>3, <1>0 DEF VerifySession
  <2>2. row.pw = sessions[s].pw
    BY <1>0, <2>1 DEF SessionRows
  <2> HIDE DEF row
  <2> QED
    BY <1>0, <2>1, <2>2 DEF SignInv, SessionsDieWithThePassword
<1>4. ASSUME NEW s \in Slots, DestroySession(s)
      PROVE  SessionsDieWithThePassword'
  BY <1>0, <1>4 DEF DestroySession, SignInv, SessionsDieWithThePassword
<1>5. CASE UNCHANGED <<sessions, account>>
  BY <1>5 DEF SignInv, SessionsDieWithThePassword
<1>6. ASSUME NEW j \in Jobs, Start(j) \/ Fail(j)
      PROVE  UNCHANGED <<sessions, account>>
  BY <1>0, <1>6, StartStep DEF Fail
<1>7. ASSUME NEW j \in Jobs, Step(j)
      PROVE  ResetAccount(j) \/ CreateSessionToken(j) \/ UNCHANGED <<sessions, account>>
  BY <1>7 DEF Step, Load, CheckPassword, CheckTotp, CreateKeyFetchToken, IssueToken, RightCode,
              WrongCode, CheckRecoveryKey, CheckSession, DeleteChangeToken, Stamp, PurgeTokens,
              Reread, Announce, DropRecoveryKey, ServeKeys, SameTables
<1>8. CASE UNCHANGED vars \/ (\E s \in Slots : CreateRecoveryKey(s) \/ DeleteRecoveryKey(s))
           \/ (\E k \in TokenKinds : Expire(k))
  BY <1>5, <1>8 DEF vars, CreateRecoveryKey, DeleteRecoveryKey, Expire
<1> QED
  BY <1>1, <1>2, <1>3, <1>4, <1>5, <1>6, <1>7, <1>8 DEF Next, Manage

LEMMA SignStep ==
  ASSUME IInv, SignInv, ProvesApart, [Next]_vars
  PROVE  SignInv'
<1>0. TypeOK /\ job \in [Jobs -> JobRecords] /\ account \in Accounts
  BY DEF IInv, TypeOK
<1>i. ~Proven(Idle)
  BY DEF Idle, Proven
<1> SUFFICES ASSUME NEW k \in Jobs, Proven(job'[k])
             PROVE  job'[k].salt = account'.salt
  BY SessionsDie DEF SignInv, Proven
<1>k. Proven(job[k]) => job[k].salt = account.salt
  BY DEF SignInv
<1>1. ASSUME NEW j \in Jobs, Start(j)
      PROVE  job'[k].salt = account'.salt
  <2>1. ~Proven(job'[j]) /\ (k # j => job'[k] = job[k]) /\ UNCHANGED account
    BY <1>0, <1>1, StartStep
  <2> QED
    BY <2>1, <1>k
<1>2. ASSUME NEW j \in Jobs, Aside(j)
      PROVE  job'[k].salt = account'.salt
  <2>1. PICK q : Keeps(job[j], q) /\ job' = [job EXCEPT ![j] = q]
    BY <1>2, AsideStep
  <2>2. UNCHANGED account
    BY <1>2, AsideStep
  <2>3. CASE k = j
    BY <1>0, <1>k, <2>1, <2>2, <2>3 DEF Keeps
  <2>4. CASE k # j
    BY <1>0, <1>k, <2>1, <2>2, <2>4
  <2> QED
    BY <2>3, <2>4
<1>3. ASSUME NEW j \in Jobs, IssueToken(j) \/ RightCode(j) \/ WrongCode(j)
      PROVE  job'[k].salt = account'.salt
  <2>1. UNCHANGED account /\ job' = [job EXCEPT ![j] = Idle]
    BY <1>3 DEF IssueToken, RightCode, WrongCode, End, Continue
  <2> QED
    BY <1>0, <1>i, <1>k, <2>1
<1>4. ASSUME NEW j \in Jobs, ResetAccount(j)
      PROVE  job'[k].salt = account'.salt
  <2>1. /\ job[j].pc = "apply"
        /\ account' = [account EXCEPT !.pw = job[j].pw, !.salt = job[j].stamp,
                                      !.kb = NewKb(job[j])]
        /\ job' = [job EXCEPT ![j] = [job[j] EXCEPT
             !.pc = IF Op(j, {"reset"}) THEN "purge" ELSE "reread",
             !.salt = job[j].stamp, !.kb = NewKb(job[j])]]
    BY <1>4 DEF ResetAccount, Continue, At
  <2>2. account'.salt = job[j].stamp
    BY <1>0, <2>1 DEF Accounts
  <2>3. job'[j].salt = job[j].stamp
    BY <1>0, <2>1 DEF JobRecords
  <2>4. k # j => job'[k] = job[k]
    BY <1>0, <2>1
  <2>5. ~Proven(job[k])
    BY <2>1 DEF ProvesApart, At
  <2> QED
    BY <2>2, <2>3, <2>4, <2>5
<1>5. CASE UNCHANGED vars \/ (\E s \in Slots : Manage(s)) \/ (\E kind \in TokenKinds : Expire(kind))
  <2>1. UNCHANGED <<job, account>>
    BY <1>0, <1>5, ManageStep
  <2> QED
    BY <2>1, <1>k
<1> QED
  BY <1>1, <1>2, <1>3, <1>4, <1>5 DEF Next, Step, Aside

\* Every session is one of the password in force, however requests overlap and
\* fail, as long as the password is not replaced between another request's proof
\* of it and the session it makes (db.resetAccount, account.js
\* createSessionToken).
THEOREM SessionsDieApart ==
  Spec /\ []ProvesApart => []SessionsDieWithThePassword
<1>1. Init => SignInv
  BY DEF Init, Idle, SignInv, Proven, SessionsDieWithThePassword
<1>2. IInv /\ SignInv /\ ProvesApart /\ [Next]_vars => SignInv'
  BY SignStep
<1>3. SignInv => SessionsDieWithThePassword
  BY DEF SignInv
<1> QED
  BY <1>1, <1>2, <1>3, Invariance, PTL DEF Spec
=============================================================================
