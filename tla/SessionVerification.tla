------------------------ MODULE SessionVerification ------------------------
(***************************************************************************)
(* How the sessions of one account become verified, and what assurance     *)
(* they have: links and codes that are mailed, TOTP and recovery codes,    *)
(* reauthentication and duplication.  A request acts on the copy of the    *)
(* session that its authentication loaded, and calls the database, which   *)
(* is another service, one call after the other.                           *)
(***************************************************************************)
EXTENDS SigninGates

CONSTANTS
  Sessions,  \* ids of session tokens
  Secrets,   \* secrets of TOTP tokens
  Vers,      \* values of tokenVerificationId
  CodeCount, \* recoveryCodes.count
  MaxBatch   \* bound: how often the recovery codes are replaced

ASSUME VerificationAssumption ==
  /\ CodeCount \in Nat /\ MaxBatch \in Nat
  /\ None \notin Sessions \cup Secrets \cup Vers

VARIABLES
  rows,      \* MySQL: the session tokens
  totp,      \* MySQL: the TOTP token, or None
  batch,     \* MySQL: which recovery codes the user has; 0 is none
  left,      \* MySQL: how many of them are unused
  job,       \* what each request is doing
  shown,     \* history: batches that were sent to the user
  entered,   \* history: secrets that the user entered a code of
  earned,    \* history: sessions with a code of the second factor, or a copy
  overtaken, \* history: requests whose reading was overtaken
  swapped,   \* history: a secret was enabled by the code of another
  broken     \* history: a failure or an overlap cut a change short

hvars == <<shown, entered, earned, overtaken, swapped, broken>>
vvars == <<rows, totp, batch, left, job, hvars>>
vars == <<gvars, vvars>>

Methods == {"none", "totp-2fa", "recovery-code"}
Rows ==
  [ver : Vers \cup {None},  \* what verifies it; None if it is verified
   coded : BOOLEAN,         \* has a code that has not expired
   method : Methods,
   must : BOOLEAN]          \* mustVerify
Totps == [secret : Secrets, enabled : BOOLEAN]
Ops == {"create", "destroy", "exists", "totp", "replace", "recovery", "reauth", "duplicate"}
JobRecords ==
  [op : Ops,
   pc : {"gate", "read", "create", "delete", "enable", "notify", "replace",
         "raise", "answer", "consume", "update", "copy"},
   sess : Sessions,
   tok : Rows,              \* the session as it was loaded
   had : BOOLEAN,           \* the TOTP token it read was enabled
   new : Secrets \cup {None},  \* the secret it read, and is to enable
   got : 0..MaxBatch]       \* the recovery codes it is to answer

ASSUME RecordAssumption == None \notin Totps \cup JobRecords

TypeOK ==
  /\ GTypeOK
  /\ DOMAIN rows \subseteq Sessions
  /\ \A i \in DOMAIN rows : rows[i] \in Rows
  /\ totp \in Totps \cup {None}
  /\ batch \in 0..MaxBatch /\ left \in 0..CodeCount
  /\ job \in [Requests -> JobRecords \cup {None}]
  /\ shown \subseteq 1..MaxBatch
  /\ entered \subseteq Secrets /\ earned \subseteq Sessions
  /\ overtaken \subseteq Requests
  /\ swapped \in BOOLEAN /\ broken \in BOOLEAN

Verified(s) == s.ver = None
\* authenticatorAssuranceLevel is 2.
Assured(s) == s.method \in {"totp-2fa", "recovery-code"}
Enabled == totp # None /\ totp.enabled

\* An account that has sessions, and may have a second factor already.
Init ==
  /\ GInit
  /\ rows \in Functions(Sessions, Rows)
  /\ \A i, k \in DOMAIN rows : rows[i].ver = rows[k].ver => i = k \/ Verified(rows[i])
  /\ \A i \in DOMAIN rows : Verified(rows[i]) => ~rows[i].coded
  /\ earned = {i \in DOMAIN rows : Assured(rows[i])}
  /\ totp \in {None} \cup [secret : Secrets, enabled : {TRUE}]
  /\ entered = IF totp = None THEN {} ELSE {totp.secret}
  /\ batch \in 0..MaxBatch /\ left \in 0..CodeCount /\ shown = {batch} \ {0}
  /\ totp # None => batch # 0
  /\ job = [r \in Requests |-> None]
  /\ overtaken = {} /\ swapped = FALSE /\ broken = FALSE

-----------------------------------------------------------------------------
(* Requests.                                                               *)

At(r, pc) == job[r] # None /\ job[r].pc = pc
Is(r, op, pc) == At(r, pc) /\ job[r].op = op
Go(r, pc) == job' = [job EXCEPT ![r].pc = pc]
\* Also with an error.
End(r) == job' = [job EXCEPT ![r] = None] /\ overtaken' = overtaken \ {r}
Spawn(r, i, op, pc) ==
  /\ job[r] = None
  /\ i \in DOMAIN rows
  /\ job' = [job EXCEPT ![r] =
       [op |-> op, pc |-> pc, sess |-> i, tok |-> rows[i], had |-> FALSE,
        new |-> None, got |-> 0]]
  /\ UNCHANGED <<rows, totp, batch, left, hvars>>

\* Requests that refuse a session that is not verified, or not by a second
\* factor, and requests that take any.
StartVerified(r, i, op) ==
  /\ i \in DOMAIN rows /\ Verified(rows[i])
  /\ \/ op = "create" /\ Spawn(r, i, op, "create")
     \/ op = "exists" /\ Spawn(r, i, op, "read")
  /\ UNCHANGED gvars
StartReplace(r, i) ==
  /\ i \in DOMAIN rows /\ Assured(rows[i])
  /\ Spawn(r, i, "replace", "replace")
  /\ UNCHANGED gvars
StartAny(r, i, op) ==
  /\ \/ op \in {"destroy", "totp"} /\ Spawn(r, i, op, "read")
     \/ op = "recovery" /\ Spawn(r, i, op, "consume")
     \/ op = "duplicate" /\ Spawn(r, i, op, "copy")
  /\ UNCHANGED gvars
StartReauth(r, i, c) ==
  /\ Spawn(r, i, "reauth", "gate")
  /\ Enter(r, c)
  /\ UNCHANGED <<clock, faults>>

\* A call of the database, or a notification, fails.
Fails(r) ==
  /\ job[r] # None /\ job[r].pc # "gate"
  /\ faults < MaxFaults
  /\ faults' = faults + 1
  /\ End(r)
  /\ broken' = (broken \/ job[r].pc \in {"notify", "replace", "raise", "answer"})
  /\ UNCHANGED <<gatevars, clock, rows, totp, batch, left, shown, entered, earned, swapped>>

-----------------------------------------------------------------------------
(* TOTP.                                                                   *)

\* The verification of another secret may be under way.
CreateTotp(r, s) ==
  /\ Is(r, "create", "create")
  /\ totp' = IF totp = None THEN [secret |-> s, enabled |-> FALSE] ELSE totp
  /\ End(r)
  /\ UNCHANGED <<gvars, rows, batch, left, shown, entered, earned, swapped, broken>>

\* hasTotpToken; for /totp/exists, whether there is an unverified token.
ReadForDelete(r) ==
  /\ Is(r, "destroy", "read") \/ Is(r, "exists", "read")
  /\ IF job[r].op = "exists" /\ (totp = None \/ totp.enabled)
     THEN End(r)
     ELSE /\ job' = [job EXCEPT ![r].had = Enabled, ![r].pc = "delete"]
          /\ overtaken' = overtaken
  /\ UNCHANGED <<gvars, rows, totp, batch, left, shown, entered, earned, swapped, broken>>

\* Mutant: any verified session will do.
MutantMayDelete(r) == job[r].had => Verified(job[r].tok)
\* What /totp/destroy asks of a session for a token that it saw enabled.
MayDelete(r) == job[r].had => Verified(job[r].tok) /\ Assured(job[r].tok)

\* Only /totp/destroy tells the attached services.
DeleteTotp(r) ==
  /\ At(r, "delete")
  /\ IF totp = None \/ ~MayDelete(r)
     THEN End(r) /\ UNCHANGED <<totp, broken>>
     ELSE /\ totp' = None
          /\ IF job[r].op = "destroy"
             THEN Go(r, "notify") /\ UNCHANGED <<overtaken, broken>>
             ELSE End(r) /\ broken' = (broken \/ Enabled)
  /\ UNCHANGED <<gvars, rows, batch, left, shown, entered, earned, swapped>>

\* The user enters a code, which is right or wrong.
ReadTotp(r, valid) ==
  /\ Is(r, "totp", "read")
  /\ IF totp = None \/ ~valid
     THEN End(r) /\ UNCHANGED <<entered, earned>>
     ELSE /\ job' = [job EXCEPT ![r].had = totp.enabled, ![r].new = totp.secret,
                                ![r].pc = IF totp.enabled THEN "raise" ELSE "enable"]
          /\ entered' = entered \cup {totp.secret}
          /\ earned' = earned \cup {job[r].sess}
          /\ overtaken' = overtaken
  /\ UNCHANGED <<gvars, rows, totp, batch, left, shown, swapped, broken>>

\* updateTotpToken names no secret: it enables the token that is there now.
Enable(r) ==
  /\ At(r, "enable")
  /\ IF totp = None
     THEN End(r) /\ UNCHANGED <<totp, swapped>>
     ELSE /\ totp' = [totp EXCEPT !.enabled = TRUE]
          /\ swapped' = (swapped \/ totp.secret # job[r].new)
          /\ Go(r, "notify")
          /\ overtaken' = overtaken \cup {q \in Requests : At(q, "delete")}
  /\ UNCHANGED <<gvars, rows, batch, left, shown, entered, earned, broken>>

\* Mutant: no recovery codes are made.
MutantNotify(r) ==
  /\ At(r, "notify")
  /\ IF job[r].op = "totp" THEN Go(r, "raise") /\ overtaken' = overtaken ELSE End(r)
  /\ UNCHANGED <<gvars, rows, totp, batch, left, shown, entered, earned, swapped, broken>>

\* profileDataChanged.
Notify(r) ==
  /\ At(r, "notify")
  /\ IF job[r].op = "totp" THEN Go(r, "replace") /\ overtaken' = overtaken ELSE End(r)
  /\ UNCHANGED <<gvars, rows, totp, batch, left, shown, entered, earned, swapped, broken>>

\* Recovery codes replace those the user had.
ReplaceRecoveryCodes ==
  /\ batch < MaxBatch
  /\ batch' = batch + 1
  /\ left' = CodeCount

Replace(r) ==
  /\ At(r, "replace")
  /\ ReplaceRecoveryCodes
  /\ job' = [job EXCEPT ![r].got = batch + 1,
                        ![r].pc = IF job[r].op = "totp" THEN "raise" ELSE "answer"]
  /\ UNCHANGED <<gvars, rows, totp, hvars>>

\* Whoever waits for one of these is verified.
Verify(V) ==
  [i \in DOMAIN rows |->
    IF rows[i].ver \in V THEN [rows[i] EXCEPT !.ver = None, !.coded = FALSE] ELSE rows[i]]

\* verifyTokensWithMethod; the call fails if the session is gone.  /session/
\* verify/totp makes it if the session was not assured, /session/verify/
\* recoveryCode if it was not verified.
Raise(r) ==
  LET i == job[r].sess
      needed == IF job[r].op = "totp" THEN ~Assured(job[r].tok) ELSE ~Verified(job[r].tok)
  IN  /\ At(r, "raise")
      /\ IF needed /\ i \notin DOMAIN rows
         THEN End(r) /\ rows' = rows /\ broken' = TRUE
         ELSE /\ rows' = IF ~needed THEN rows
                         ELSE [Verify({rows[i].ver} \ {None}) EXCEPT ![i].method =
                                IF job[r].op = "totp" THEN "totp-2fa" ELSE "recovery-code"]
              /\ Go(r, "answer")
              /\ UNCHANGED <<overtaken, broken>>
      /\ UNCHANGED <<gvars, totp, batch, left, shown, entered, earned, swapped>>

\* Once the mail is sent; codes that were made meanwhile are shown as well, by
\* the request that made them.
Answer(r) ==
  /\ At(r, "answer")
  /\ shown' = shown \cup ({job[r].got} \ {0})
  /\ End(r)
  /\ UNCHANGED <<gvars, rows, totp, batch, left, entered, earned, swapped, broken>>

\* Mutant: the session is verified although no such code was left.
MutantConsumeRecovery(r) ==
  /\ At(r, "consume")
  /\ left' = IF left > 0 THEN left - 1 ELSE left
  /\ earned' = IF left > 0 THEN earned \cup {job[r].sess} ELSE earned
  /\ Go(r, "raise")
  /\ UNCHANGED <<gvars, rows, totp, batch, shown, entered, overtaken, swapped, broken>>

\* In the database, one statement.
ConsumeRecoveryCode == left > 0 /\ left' = left - 1

\* The user enters a recovery code that is right, if there are any.
ConsumeRecovery(r) ==
  /\ At(r, "consume")
  /\ \/ /\ ConsumeRecoveryCode
        /\ earned' = earned \cup {job[r].sess}
        /\ Go(r, "raise")
        /\ UNCHANGED overtaken
     \/ /\ left = 0
        /\ End(r)
        /\ UNCHANGED <<left, earned>>
  /\ UNCHANGED <<gvars, rows, totp, batch, shown, entered, swapped, broken>>

-----------------------------------------------------------------------------
(* Links and codes, reauthentication, duplication, signing out.            *)

\* The link in a mail, and the code in one, by which the database finds the
\* session, not the one that asks.
VerifyLink(i) ==
  /\ i \in DOMAIN rows /\ ~Verified(rows[i])
  /\ rows' = Verify({rows[i].ver})
  /\ UNCHANGED <<gvars, totp, batch, left, job, hvars>>
VerifyTokenCode(i) ==
  /\ i \in DOMAIN rows /\ rows[i].coded
  /\ rows' = Verify({rows[i].ver})
  /\ UNCHANGED <<gvars, totp, batch, left, job, hvars>>
CodeExpires(i) ==
  /\ i \in DOMAIN rows /\ rows[i].coded
  /\ rows' = [rows EXCEPT ![i].coded = FALSE]
  /\ UNCHANGED <<gvars, totp, batch, left, job, hvars>>

\* Customs, unblock code and account came first; then the password is compared,
\* and whether the account has TOTP is read, which forces the method.
ReauthPassed(r, match) ==
  /\ At(r, "gate") /\ gate[r].pc \in {"passed", "refused"}
  /\ Leave(r)
  /\ IF gate[r].pc = "passed" /\ match
     THEN /\ job' = [job EXCEPT ![r].had = Enabled, ![r].pc = "update"]
          /\ overtaken' = overtaken
     ELSE End(r)
  /\ UNCHANGED <<clock, faults, rows, totp, batch, left, shown, entered, earned, swapped, broken>>

\* The client wants keys, or a method is given or forced.
Must(r, wants) == job[r].tok.must \/ wants \/ job[r].had

\* updateSessionToken writes back what was loaded, with the new mustVerify; for
\* a session that is gone this does nothing.
UpdateSession(r, wants) ==
  LET i == job[r].sess
      must == Must(r, wants)
  IN  /\ At(r, "update")
      /\ rows' = [k \in DOMAIN rows |-> IF k = i THEN [rows[k] EXCEPT !.must = must] ELSE rows[k]]
      /\ job' = [job EXCEPT ![r] = None]
      /\ overtaken' = (overtaken \ {r}) \cup {q \in Requests \ {r} :
            must /\ job[q] # None /\ job[q].op = "reauth" /\ job[q].sess = i}
      /\ UNCHANGED <<gvars, totp, batch, left, shown, entered, earned, swapped, broken>>

\* Mutant: the copy waits for the link of the original.
MutantCopied(s, v) == [s EXCEPT !.coded = FALSE]
\* "Copy verification state of the token, but generate independent verification
\* codes", of which the short one has expired already.
Copied(s, v) == [s EXCEPT !.ver = IF Verified(s) THEN None ELSE v, !.coded = FALSE]

\* The original may be gone.  Whether the database keeps the method it is sent
\* is not known here.
Duplicate(r, k, v, method) ==
  LET s == job[r].tok
  IN  /\ At(r, "copy")
      /\ k \notin DOMAIN rows
      /\ \A q \in Requests : job[q] # None => job[q].sess # k
      /\ \A i \in DOMAIN rows : rows[i].ver # v
      /\ \A q \in Requests : job[q] # None => job[q].tok.ver # v
      /\ method \in {s.method, "none"}
      /\ rows' = [i \in DOMAIN rows \cup {k} |->
                   IF i = k THEN [Copied(s, v) EXCEPT !.method = method] ELSE rows[i]]
      /\ earned' = IF job[r].sess \in earned THEN earned \cup {k} ELSE earned \ {k}
      /\ End(r)
      /\ UNCHANGED <<gvars, totp, batch, left, shown, entered, swapped, broken>>

\* By the session itself, or by another of the account.
DestroySession(i) ==
  /\ i \in DOMAIN rows
  /\ rows' = [k \in DOMAIN rows \ {i} |-> rows[k]]
  /\ UNCHANGED <<gvars, totp, batch, left, job, hvars>>

Next ==
  \/ GNext /\ UNCHANGED vvars
  \/ \E r \in Requests, i \in Sessions :
       \/ \E op \in Ops : StartVerified(r, i, op) \/ StartAny(r, i, op)
       \/ StartReplace(r, i)
       \/ \E c \in Codes \cup {None} : StartReauth(r, i, c)
  \/ \E r \in Requests :
       \/ Fails(r)
       \/ \E s \in Secrets : CreateTotp(r, s)
       \/ ReadForDelete(r) \/ DeleteTotp(r) \/ Enable(r) \/ Notify(r) \/ Replace(r)
       \/ Raise(r) \/ Answer(r) \/ ConsumeRecovery(r)
       \/ \E b \in BOOLEAN : ReadTotp(r, b) \/ ReauthPassed(r, b) \/ UpdateSession(r, b)
       \/ \E k \in Sessions, v \in Vers, m \in Methods : Duplicate(r, k, v, m)
  \/ \E i \in Sessions :
       VerifyLink(i) \/ VerifyTokenCode(i) \/ CodeExpires(i) \/ DestroySession(i)

Spec == Init /\ [][Next]_vars

-----------------------------------------------------------------------------
(* Properties.                                                             *)

\* An enabled TOTP token goes only by a request of a session that had the second
\* factor itself, or one that looked before the token was enabled (totp.js
\* /totp/destroy and /totp/exists, which delete what they read earlier).
OnlySecondFactorDisables ==
  [][Enabled /\ totp' = None =>
       \E r \in Requests : At(r, "delete") /\ job'[r] # job[r]
                           /\ (r \in overtaken \/ Assured(job[r].tok))]_vars

\* The secret that is enabled is one the user proved to hold, unless it took the
\* place of another whose code was being verified (totp.js updateTotpToken).
EnabledWasConfirmed == Enabled /\ ~swapped => totp.secret \in entered

\* Who has a second factor was shown recovery codes that are in force, or will
\* be, unless a call failed or /totp/exists raced (totp.js replaceRecoveryCodes).
EnabledHasCodes ==
  Enabled /\ ~broken =>
    \/ batch \in shown
    \/ \E r \in Requests : \/ Is(r, "totp", "notify") \/ At(r, "replace")
                           \/ job[r] # None /\ job[r].got = batch /\ batch # 0

\* So nobody is locked out by the second factor that was set up.
EnabledIsUsable == EnabledWasConfirmed /\ EnabledHasCodes

\* A session is assured because a code of the second factor was entered in it,
\* or in the session that it was copied from (totp.js, recovery-codes.js).
AssuranceIsEarned == \A i \in DOMAIN rows : Assured(rows[i]) => i \in earned

\* Nothing makes mustVerify of a session forget, except a request that loaded
\* the session before it was set (session.js updateSessionToken).
MustVerifyStays ==
  \A i \in DOMAIN rows \cap DOMAIN rows' : rows[i].must /\ ~rows'[i].must =>
    \E r \in overtaken : job[r].sess = i /\ job'[r] # job[r]

\* What verifies a session verifies no other, copies of it included (session.js
\* duplicateVerificationState, db.js verifyTokens).
SessionsAreVerifiedAlone ==
  \A i, k \in DOMAIN rows \cap DOMAIN rows' :
    ~Verified(rows[i]) /\ Verified(rows'[i]) /\ ~Verified(rows[k]) /\ Verified(rows'[k])
      => i = k

\* So what a session was asked to verify, and what verifies it, are its own.
VerificationIsItsOwn == [][MustVerifyStays /\ SessionsAreVerifiedAlone]_vars
=============================================================================
