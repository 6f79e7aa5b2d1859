--------------------------- MODULE PasswordFlows ---------------------------
(***************************************************************************)
(* The credentials of one account of fxa-auth-server and the requests that *)
(* prove them, replace them, or hand out what they protect: login,         *)
(* /password/change, /password/forgot, /account/reset and /account/keys.   *)
(*                                                                         *)
(* A handler is a chain of promises, and other requests run between any    *)
(* two links of it.  So a request is a process with a position `pc`, and   *)
(* an action is one call to the database together with the synchronous     *)
(* code around it.  Any call may fail, which ends the request where it     *)
(* stands: nothing is rolled back.                                         *)
(*                                                                         *)
(* Every change of password draws a new authSalt and sets verifierSetAt.   *)
(* Both are fresh, so the model has one number for the two.                *)
(***************************************************************************)
EXTENDS Integers, FiniteSets

CONSTANTS
  Jobs,        \* requests that may be in flight at once
  Passwords,
  Slots,       \* bound: session and key-fetch tokens that may exist at once
  Ops,         \* the kinds of request the clients make
  None,
  MaxClock,    \* bound: how often a new password is sent to the database
  MaxTokens,   \* bound: how many forgot, reset and change tokens are issued
  MaxFaults    \* bound: how many calls to the database fail

Kinds == {"login", "changeStart", "changeFinish", "forgotSend",
          "forgotVerify", "reset", "keys"}

ASSUME ConstantsAssumption ==
  /\ Ops \subseteq Kinds
  /\ None \notin Slots
  /\ MaxClock \in Nat
  /\ MaxTokens \in Nat
  /\ MaxFaults \in Nat

Tries == 3     \* PasswordForgotToken.create

VARIABLES
  account,     \* the row of the account
  sessions,    \* slot -> session token stored there, if any
  keyFetches,  \* slot -> key-fetch token stored there, if any
  tokens,      \* kind -> at most one forgot, reset or change token
  recovery,    \* at most one recovery key
  job,         \* request -> its position, parameters and local variables
  clock,       \* Date.now(), which moves when a password is about to change
  issued,      \* the last id given to a forgot, reset or change token
  spent,       \* history: the tokens by which the password was replaced
  wrong,       \* history: the wrong codes taken with each forgot token
  lineage,     \* history: the generations since kB last changed
  announced,   \* history: the generations sent to the attached services
  faults       \* how many calls have failed

vars == <<account, sessions, keyFetches, tokens, recovery, job, clock,
          issued, spent, lineage, wrong, announced, faults>>

-----------------------------------------------------------------------------
(* Rows and requests.                                                      *)

Times == 0..MaxClock
Ids   == 0..MaxTokens

\* kB is named by the time at which it was drawn, and so is the salt.
Accounts == [pw : Passwords, kb : Times, salt : Times, totp : BOOLEAN]

\* How a session came by its second factor: it never did, it was verified
\* with it (assurance level 2), or it was made by a session that had been.
Factors == {"none", "totp", "inherited"}

\* `pw` and `kb` are not stored by the code: they are the password by which
\* the token was obtained and the kB its client holds.  `late` records that
\* the password had changed between the request's proof of it and this row.
SessionRows == [pw : Passwords, kb : Times, verified : BOOLEAN,
                factor : Factors, late : BOOLEAN]
KeyFetchRows == [kb : Times, verified : BOOLEAN, late : BOOLEAN]

\* `salt` is that of the credentials the token was obtained by; `kb` the kB
\* its client holds.  `tries` is of use to forgot tokens only.
TokenKinds == {"change", "forgot", "reset"}
TokenRows  == [id : Ids, salt : Times, kb : Times, tries : 0..Tries]

Steps == {"idle", "load", "check", "totp", "session", "delete", "stamp",
          "apply", "purge", "reread", "announce", "dropKey", "newSession",
          "newKeys", "issue", "submit", "recovery", "serve"}

\* `pw` is the password a request proves or sets, `salt` and `kb` what it has
\* of the account, `token` and `tries` the token that authenticates it,
\* `slot` the session or key-fetch token it presents, `wants` what it asks
\* for, `stamp` the new verifierSetAt and `seen` the one it read back.
JobRecords == [op : Kinds \cup {"none"}, pc : Steps, pw : Passwords \cup {None},
               salt : Times, kb : Times, token : Ids, tries : 0..Tries,
               slot : Slots \cup {None}, wants : {"nothing", "session", "keys"},
               totp : BOOLEAN, verified : BOOLEAN, factor : Factors,
               recovery : BOOLEAN, stamp : Times, seen : Times]
Idle == [op |-> "none", pc |-> "idle", pw |-> None, salt |-> 0, kb |-> 0,
         token |-> 0, tries |-> 0, slot |-> None, wants |-> "nothing",
         totp |-> FALSE, verified |-> FALSE, factor |-> "none",
         recovery |-> FALSE, stamp |-> 0, seen |-> 0]

TypeOK ==
  /\ account \in Accounts
  /\ sessions \in [Slots -> SessionRows \cup {None}]
  /\ keyFetches \in [Slots -> KeyFetchRows \cup {None}]
  /\ tokens \in [TokenKinds -> SUBSET TokenRows]
  /\ recovery \subseteq [kb : Times]
  /\ job \in [Jobs -> JobRecords]
  /\ clock \in Times
  /\ issued \in Ids
  /\ spent \subseteq Ids
  /\ lineage \subseteq Times
  /\ wrong \in [Ids -> Nat]
  /\ announced \subseteq Times
  /\ faults \in 0..MaxFaults

Init ==
  /\ account \in [pw : Passwords, kb : {0}, salt : {0}, totp : BOOLEAN]
  /\ sessions = [s \in Slots |-> None]
  /\ keyFetches = [s \in Slots |-> None]
  /\ tokens = [k \in TokenKinds |-> {}]
  /\ recovery = {}
  /\ job = [j \in Jobs |-> Idle]
  /\ clock = 0
  /\ issued = 0
  /\ spent = {}
  /\ lineage = {0}
  /\ wrong = [i \in Ids |-> 0]
  /\ announced = {}
  /\ faults = 0

-----------------------------------------------------------------------------
(* What the actions share.                                                 *)

Free(table) == {s \in Slots : table[s] = None}
Busy(kinds) == {j \in Jobs : job[j].op \in kinds}

\* The bounds: a request starts only when it can be carried to its end.
Room(request) ==
  /\ request.op \in {"login", "changeFinish", "reset"} =>
       Cardinality(Busy({"login", "changeFinish", "reset"}))
         < Cardinality(Free(sessions))
  /\ request.wants = "keys" =>
       Cardinality({j \in Busy(Kinds) : job[j].wants = "keys"})
         < Cardinality(Free(keyFetches))
Issuers   == {"changeStart", "forgotSend", "forgotVerify"}
MayIssue  == issued + Cardinality(Busy(Issuers)) < MaxTokens
Replacers == {"changeFinish", "reset"}
MayReplace ==
  clock + Cardinality({j \in Busy(Replacers) : job[j].stamp = 0}) < MaxClock

Begin(j, request) ==
  /\ job[j] = Idle
  /\ request.op \in Ops
  /\ Room(request)
  /\ job' = [job EXCEPT ![j] = request]
  /\ UNCHANGED <<account, sessions, keyFetches, tokens, recovery, clock,
                 issued, spent, lineage, wrong, announced, faults>>

At(j, step) == job[j].pc = step
Op(j, kinds) == job[j].op \in kinds
Continue(j, request) == job' = [job EXCEPT ![j] = request]
End(j) == Continue(j, Idle)
Goto(j, step) == Continue(j, [job[j] EXCEPT !.pc = step])

\* The account got a new password since the request proved or set the one it
\* acts upon.
Overtaken(j) == job[j].salt # account.salt

\* What follows once the password is replaced and announced.
Rewards(r) == IF r.op = "changeFinish" \/ r.wants # "nothing"
              THEN [r EXCEPT !.pc = "newSession"] ELSE Idle
AfterSession(r) == IF r.wants = "keys" THEN [r EXCEPT !.pc = "newKeys"] ELSE Idle

SameTables == UNCHANGED <<account, sessions, keyFetches, tokens, recovery,
                          clock, issued, spent, lineage, wrong, announced,
                          faults>>

-----------------------------------------------------------------------------
(* Requests that prove the password.                                       *)

StartLogin(j) ==
  \E pw \in Passwords, wants \in {"session", "keys"} :
    Begin(j, [Idle EXCEPT !.op = "login", !.pc = "load", !.pw = pw,
                          !.wants = wants])

StartChange(j) ==
  /\ MayIssue
  /\ \E pw \in Passwords :
       Begin(j, [Idle EXCEPT !.op = "changeStart", !.pc = "load", !.pw = pw,
                             !.wants = "keys"])

StartForgot(j) ==
  /\ MayIssue
  /\ Begin(j, [Idle EXCEPT !.op = "forgotSend", !.pc = "load"])

\* What a request keeps of the record that db.accountRecord finds.
WithRecord(r) == [r EXCEPT !.salt = account.salt, !.kb = account.kb]

\* The account is loaded after customs has let the request pass.
Load(j) ==
  /\ At(j, "load")
  /\ Continue(j, [WithRecord(job[j]) EXCEPT
       !.pc = IF Op(j, {"forgotSend"}) THEN "issue" ELSE "check"])
  /\ SameTables

\* checkPassword compares a hash made with the salt of the record it was
\* given, so the right password with a replaced salt does not match.
CheckPassword(j) ==
  /\ At(j, "check")
  /\ IF job[j].pw = account.pw /\ job[j].salt = account.salt
     THEN Goto(j, IF Op(j, {"login"}) THEN "totp" ELSE "newKeys")
     ELSE End(j)
  /\ SameTables

\* hasTotpToken.  A login may also insist on a second factor that the account
\* does not have, which is an error.
CheckTotp(j) ==
  /\ At(j, "totp")
  /\ \/ /\ Op(j, {"login"})
        /\ \/ Continue(j, [job[j] EXCEPT !.pc = "newSession", !.totp = account.totp])
           \/ ~account.totp /\ End(j)
     \/ /\ Op(j, {"changeFinish"})
        /\ IF account.totp /\ job[j].slot = None
           THEN End(j)
           ELSE Continue(j, [job[j] EXCEPT
                  !.pc = IF job[j].slot = None THEN "delete" ELSE "session",
                  !.totp = account.totp])
     \/ /\ Op(j, {"reset"})
        /\ Continue(j, [job[j] EXCEPT !.pc = "stamp", !.totp = account.totp])
  /\ SameTables

\* Mutant: a trusted address overrules the second factor.
MutantLoginVerifications(r) ==
  IF r.op = "login" THEN BOOLEAN
  ELSE IF r.op = "changeFinish" THEN {r.verified} ELSE {~r.totp}

\* A login is pre-verified when its address or account is trusted or it went
\* through signin-unblock, and never if the account has a second factor.  The
\* other requests decided before.
Verifications(r) ==
  IF r.op = "login" THEN {v \in BOOLEAN : r.totp => ~v}
  ELSE IF r.op = "changeFinish" THEN {r.verified} ELSE {~r.totp}

CreateSessionToken(j) ==
  /\ At(j, "newSession")
  /\ \E s \in Free(sessions), verified \in Verifications(job[j]) :
       /\ sessions' = [sessions EXCEPT ![s] =
            [pw |-> job[j].pw, kb |-> job[j].kb, verified |-> verified,
             factor |-> job[j].factor, late |-> Overtaken(j)]]
       /\ Continue(j, AfterSession([job[j] EXCEPT !.verified = verified]))
  /\ UNCHANGED <<account, keyFetches, tokens, recovery, clock, issued, spent,
                 lineage, wrong, announced, faults>>

\* The row of a key-fetch token.  It waits for its session to be verified; a
\* password change makes one that is verified from the start.
KeyFetchRow(j) ==
  [kb |-> job[j].kb,
   verified |-> Op(j, {"changeStart", "changeFinish"}) \/ job[j].verified,
   late |-> Overtaken(j)]

CreateKeyFetchToken(j) ==
  /\ At(j, "newKeys")
  /\ \E s \in Free(keyFetches) :
       keyFetches' = [keyFetches EXCEPT ![s] = KeyFetchRow(j)]
  /\ IF Op(j, {"changeStart"}) THEN Goto(j, "issue") ELSE End(j)
  /\ UNCHANGED <<account, sessions, tokens, recovery, clock, issued, spent,
                 lineage, wrong, announced, faults>>

\* createPasswordChangeToken and createPasswordForgotToken: an account has at
\* most one token of each kind, so a new one replaces the old.
IssueToken(j) ==
  /\ At(j, "issue")
  /\ issued < MaxTokens
  /\ issued' = issued + 1
  /\ tokens' = [tokens EXCEPT
       ![IF Op(j, {"forgotSend"}) THEN "forgot" ELSE "change"] =
         {[id |-> issued + 1, salt |-> job[j].salt, kb |-> job[j].kb,
           tries |-> IF Op(j, {"forgotSend"}) THEN Tries ELSE 0]}]
  /\ End(j)
  /\ UNCHANGED <<account, sessions, keyFetches, recovery, clock, spent,
                 lineage, wrong, announced, faults>>

-----------------------------------------------------------------------------
(* Requests authenticated by a forgot, change or reset token.              *)

\* db.passwordForgotToken, db.passwordChangeToken and db.accountResetToken: the
\* request goes on with a copy of the row.
Presenting(t) == [Idle EXCEPT !.token = t.id, !.tries = t.tries, !.salt = t.salt]

StartVerify(j) ==
  /\ MayIssue
  /\ \E t \in tokens["forgot"] :
       Begin(j, [Presenting(t) EXCEPT !.op = "forgotVerify", !.pc = "submit",
                                      !.kb = t.kb])

Without(kind, id) == {t \in tokens[kind] : t.id # id}

\* forgotPasswordVerified trades the forgot token for a reset token.
RightCode(j) ==
  /\ At(j, "submit")
  /\ issued < MaxTokens
  /\ issued' = issued + 1
  /\ tokens' = [tokens EXCEPT
       !["forgot"] = Without("forgot", job[j].token),
       !["reset"] = {[id |-> issued + 1, salt |-> job[j].salt,
                      kb |-> job[j].kb, tries |-> 0]}]
  /\ End(j)
  /\ UNCHANGED <<account, sessions, keyFetches, recovery, clock, spent,
                 lineage, wrong, announced, faults>>

\* Mutant: the last try is not the last.
MutantFailAttempt(j) ==
  LET left == job[j].tries - 1 IN
  IF left < 0
  THEN Without("forgot", job[j].token)
  ELSE {IF t.id = job[j].token THEN [t EXCEPT !.tries = left] ELSE t :
          t \in tokens["forgot"]}

\* failVerifyAttempt counts down in the request's own copy of the token, then
\* deletes the row or overwrites its tries.
FailAttempt(j) ==
  LET left == job[j].tries - 1 IN
  IF left < 1
  THEN Without("forgot", job[j].token)
  ELSE {IF t.id = job[j].token THEN [t EXCEPT !.tries = left] ELSE t :
          t \in tokens["forgot"]}

\* The code is wrong, or the token has expired since it was loaded.
WrongCode(j) ==
  /\ At(j, "submit")
  /\ tokens' = [tokens EXCEPT !["forgot"] = FailAttempt(j)]
  /\ wrong' = [wrong EXCEPT ![job[j].token] = @ + 1]
  /\ End(j)
  /\ UNCHANGED <<account, sessions, keyFetches, recovery, clock, issued,
                 spent, lineage, announced, faults>>

\* /password/change/finish.  The client has derived kB from the keys it was
\* given at the start of the change, and sends it wrapped by the new password.
StartFinish(j) ==
  /\ MayReplace
  /\ \E t \in tokens["change"], pw \in Passwords, slot \in Slots \cup {None},
        wants \in {"session", "keys"} :
       Begin(j, [Presenting(t) EXCEPT !.op = "changeFinish", !.pc = "totp",
                   !.pw = pw, !.kb = t.kb, !.slot = slot, !.wants = wants])

\* /account/reset, with or without a recovery key.
StartReset(j) ==
  /\ MayReplace
  /\ \E t \in tokens["reset"], pw \in Passwords, withKey \in BOOLEAN,
        wants \in {"nothing", "session", "keys"} :
       Begin(j, [Presenting(t) EXCEPT !.op = "reset", !.pw = pw, !.wants = wants,
                   !.pc = IF withKey THEN "recovery" ELSE "totp",
                   !.recovery = withKey])

\* db.getRecoveryKey: the client re-wraps the kB that it found in that key.
CheckRecoveryKey(j) ==
  /\ At(j, "recovery")
  /\ \/ \E k \in recovery : Continue(j, [job[j] EXCEPT !.pc = "totp", !.kb = k.kb])
     \/ End(j)
  /\ SameTables

\* The new session is to be verified only if the one presented is.
CheckSession(j) ==
  /\ At(j, "session")
  /\ LET s == sessions[job[j].slot] IN
     IF s = None THEN End(j)
     ELSE IF job[j].totp /\ s.factor # "totp" THEN End(j)
     ELSE Continue(j, [job[j] EXCEPT !.pc = "delete", !.verified = s.verified,
            !.factor = IF s.factor = "none" THEN "none" ELSE "inherited"])
  /\ SameTables

DeleteChangeToken(j) ==
  /\ At(j, "delete")
  /\ tokens' = [tokens EXCEPT !["change"] = Without("change", job[j].token)]
  /\ Goto(j, "stamp")
  /\ UNCHANGED <<account, sessions, keyFetches, recovery, clock, issued,
                 spent, lineage, wrong, announced, faults>>

\* db.resetAccount reads the clock and sends the new verifierSetAt; the
\* statement takes effect later, and another one may overtake it.
Stamp(j) ==
  /\ At(j, "stamp")
  /\ clock < MaxClock
  /\ clock' = clock + 1
  /\ Continue(j, [job[j] EXCEPT !.pc = "apply", !.stamp = clock + 1])
  /\ UNCHANGED <<account, sessions, keyFetches, tokens, recovery, issued,
                 spent, lineage, wrong, announced, faults>>

\* Mutant: a change wraps kB with the salt that it read, which another change has
\* replaced: what the client unwraps is something else.
MutantNewKb(r) ==
  IF \/ r.op = "reset" /\ ~r.recovery
     \/ r.op = "changeFinish" /\ r.salt # account.salt
  THEN r.stamp ELSE r.kb

\* kB survives a change and a reset with a recovery key; a plain reset draws
\* a new one.
NewKb(r) == IF r.op = "reset" /\ ~r.recovery THEN r.stamp ELSE r.kb

\* Mutants: a table is left alone.
MutantSessionsLeft   == sessions

\* What resetAccount leaves of each table: nothing.
SessionsLeft   == [s \in Slots |-> None]
KeyFetchesLeft == [s \in Slots |-> None]
TokensLeft     == [k \in TokenKinds |-> {}]

\* The statement behind resetAccount: new credentials, and all sessions and
\* tokens gone.  Whether a plain reset drops the recovery key is the database
\* server's affair.
ResetAccount(j) ==
  /\ At(j, "apply")
  /\ account' = [account EXCEPT !.pw = job[j].pw, !.salt = job[j].stamp,
                                !.kb = NewKb(job[j])]
  /\ sessions' = SessionsLeft
  /\ keyFetches' = KeyFetchesLeft
  /\ tokens' = TokensLeft
  /\ \/ recovery' = recovery
     \/ Op(j, {"reset"}) /\ ~job[j].recovery /\ recovery' = {}
  /\ spent' = spent \cup {job[j].token}
  /\ lineage' = {job[j].stamp}
                  \cup IF NewKb(job[j]) = account.kb THEN lineage ELSE {}
  /\ Continue(j, [job[j] EXCEPT
       !.pc = IF Op(j, {"reset"}) THEN "purge" ELSE "reread",
       !.salt = job[j].stamp, !.kb = NewKb(job[j])])
  /\ UNCHANGED <<clock, issued, wrong, announced, faults>>

\* resetAccountTokens.
PurgeTokens(j) ==
  /\ At(j, "purge")
  /\ tokens' = [k \in TokenKinds |-> {}]
  /\ Goto(j, "reread")
  /\ UNCHANGED <<account, sessions, keyFetches, recovery, clock, issued,
                 spent, lineage, wrong, announced, faults>>

\* db.account, to learn the generation to announce.
Reread(j) ==
  /\ At(j, "reread")
  /\ Continue(j, [job[j] EXCEPT !.pc = "announce", !.seen = account.salt])
  /\ SameTables

\* Mutant: a request that drops the recovery key announces nothing.
MutantAnnounce(j) ==
  /\ At(j, "announce")
  /\ announced' = IF job[j].recovery THEN announced
                  ELSE announced \cup {job[j].seen}
  /\ IF job[j].recovery THEN Goto(j, "dropKey") ELSE Continue(j, Rewards(job[j]))
  /\ UNCHANGED <<account, sessions, keyFetches, tokens, recovery, clock,
                 issued, spent, lineage, wrong, faults>>

\* log.notifyAttachedServices.
Announce(j) ==
  /\ At(j, "announce")
  /\ announced' = announced \cup {job[j].seen}
  /\ IF job[j].recovery THEN Goto(j, "dropKey") ELSE Continue(j, Rewards(job[j]))
  /\ UNCHANGED <<account, sessions, keyFetches, tokens, recovery, clock,
                 issued, spent, lineage, wrong, faults>>

DropRecoveryKey(j) ==
  /\ At(j, "dropKey")
  /\ recovery' = {}
  /\ Continue(j, Rewards(job[j]))
  /\ UNCHANGED <<account, sessions, keyFetches, tokens, clock, issued, spent,
                 lineage, wrong, announced, faults>>

-----------------------------------------------------------------------------
(* Serving keys, and requests of a single statement.                       *)

\* /account/keys, authenticated by a key-fetch token, of which the request has
\* a copy (db.keyFetchTokenWithVerificationStatus).
Fetching(s) == [Idle EXCEPT !.slot = s, !.kb = keyFetches[s].kb,
                            !.verified = keyFetches[s].verified]
StartKeys(j) ==
  \E s \in Slots \ Free(keyFetches) :
    Begin(j, [Fetching(s) EXCEPT !.op = "keys", !.pc = "serve"])

\* The token is deleted and its bundle returned; a token that waits for
\* verification is kept.
ServeKeys(j) ==
  /\ At(j, "serve")
  /\ keyFetches' = IF job[j].verified
                   THEN [keyFetches EXCEPT ![job[j].slot] = None]
                   ELSE keyFetches
  /\ End(j)
  /\ UNCHANGED <<account, sessions, tokens, recovery, clock, issued, spent,
                 lineage, wrong, announced, faults>>

\* The user confirms a login, by email or by the second factor; the key-fetch
\* tokens that wait for it are verified with it.
VerifySession(s) ==
  /\ sessions[s] # None
  /\ ~sessions[s].verified
  /\ sessions' = [sessions EXCEPT
       ![s].verified = TRUE,
       ![s].factor = IF account.totp THEN "totp" ELSE @]
  /\ \E waiting \in SUBSET {k \in Slots \ Free(keyFetches) : ~keyFetches[k].verified} :
       keyFetches' = [k \in Slots |-> IF k \in waiting
                        THEN [keyFetches[k] EXCEPT !.verified = TRUE]
                        ELSE keyFetches[k]]
  /\ UNCHANGED <<account, tokens, recovery, job, clock, issued, spent,
                 lineage, wrong, announced, faults>>

DestroySession(s) ==
  /\ sessions[s] # None
  /\ sessions' = [sessions EXCEPT ![s] = None]
  /\ UNCHANGED <<account, keyFetches, tokens, recovery, job, clock, issued,
                 spent, lineage, wrong, announced, faults>>

\* A verified session creates the recovery key, unless there is one; or
\* deletes it.
CreateRecoveryKey(s) ==
  /\ "reset" \in Ops
  /\ sessions[s] # None
  /\ sessions[s].verified
  /\ recovery = {}
  /\ recovery' = {[kb |-> sessions[s].kb]}
  /\ UNCHANGED <<account, sessions, keyFetches, tokens, job, clock, issued,
                 spent, lineage, wrong, announced, faults>>

DeleteRecoveryKey(s) ==
  /\ sessions[s] # None
  /\ sessions[s].verified
  /\ recovery # {}
  /\ recovery' = {}
  /\ UNCHANGED <<account, sessions, keyFetches, tokens, job, clock, issued,
                 spent, lineage, wrong, announced, faults>>

\* A forgot, change or reset token outlives its lifetime: makeCredentialFn
\* refuses it from then on.
Expire(kind) ==
  /\ tokens[kind] # {}
  /\ tokens' = [tokens EXCEPT ![kind] = {}]
  /\ UNCHANGED <<account, sessions, keyFetches, recovery, job, clock, issued,
                 spent, lineage, wrong, announced, faults>>

\* A call to the database fails, and with it the request.
Fail(j) ==
  /\ faults < MaxFaults
  /\ job[j] # Idle
  /\ faults' = faults + 1
  /\ End(j)
  /\ UNCHANGED <<account, sessions, keyFetches, tokens, recovery, clock,
                 issued, spent, lineage, wrong, announced>>

-----------------------------------------------------------------------------
Start(j) ==
  \/ StartLogin(j) \/ StartChange(j) \/ StartForgot(j) \/ StartVerify(j)
  \/ StartFinish(j) \/ StartReset(j) \/ StartKeys(j)

Step(j) ==
  \/ Load(j) \/ CheckPassword(j) \/ CheckTotp(j) \/ CreateSessionToken(j)
  \/ CreateKeyFetchToken(j) \/ IssueToken(j) \/ RightCode(j) \/ WrongCode(j)
  \/ CheckRecoveryKey(j) \/ CheckSession(j) \/ DeleteChangeToken(j)
  \/ Stamp(j) \/ ResetAccount(j) \/ PurgeTokens(j) \/ Reread(j)
  \/ Announce(j) \/ DropRecoveryKey(j) \/ ServeKeys(j)

Manage(s) ==
  \/ VerifySession(s) \/ DestroySession(s)
  \/ CreateRecoveryKey(s) \/ DeleteRecoveryKey(s)

Next ==
  \/ \E j \in Jobs : Start(j) \/ Step(j) \/ Fail(j)
  \/ \E s \in Slots : Manage(s)
  \/ \E k \in TokenKinds : Expire(k)

Spec == Init /\ [][Next]_vars

-----------------------------------------------------------------------------
(* Properties.                                                             *)

\* A session is one of a former password only if the password was replaced
\* between the check that let its request pass and the insertion of its row
\* (account.js createSessionToken, password.js changePassword).
OldSessionsWereOvertaken ==
  \A s \in Slots : sessions[s] # None =>
    \/ sessions[s].late
    \/ sessions[s].pw = account.pw /\ sessions[s].kb = account.kb

\* A key-fetch token serves a former kB only in the same circumstances
\* (signin.js createKeyFetchToken).
OldKeysWereOvertaken ==
  \A s \in Slots : keyFetches[s] # None =>
    keyFetches[s].late \/ keyFetches[s].kb = account.kb

\* So a former password leaves nothing that a change did not overtake.
OldCredentialsWereOvertaken == OldSessionsWereOvertaken /\ OldKeysWereOvertaken

\* A change of password keeps kB, however many other changes it overlaps with,
\* unless kB was replaced since its user proved the former password: by a reset
\* without the recovery key, or by a request that such a reset overtook
\* (password.js changePassword).
ChangeKeepsKeys ==
  [][\A j \in Jobs :
       job[j].op = "changeFinish" /\ job[j].salt \in lineage /\ ResetAccount(j)
         => account'.kb = account.kb]_vars

\* On an account with a second factor, a session is verified only by it, or
\* by a password change that such a session took part in (account.js
\* createSessionToken, password.js getSessionVerificationStatus).
SecondFactorHolds ==
  account.totp => \A s \in Slots :
    sessions[s] # None /\ sessions[s].verified => sessions[s].factor # "none"

\* docs/api.md: a forgot token has an upper limit on the number of times it
\* may be submitted.
SubmissionsAreLimited == \A i \in Ids : wrong[i] <= Tries

\* docs/api.md: reset and change tokens are single-use.
SpendsNewToken == \A j \in Jobs : ResetAccount(j) => job[j].token \notin spent

\* password.js: a new password deletes all sessions; so none of a former
\* password is left.
SessionsDieWithThePassword ==
  \A s \in Slots : sessions[s] # None => sessions[s].pw = account.pw

\* Whenever no request is in flight, the attached services have been sent the
\* generation of the password in force, unless a call has failed: whatever the
\* order in which changes are applied, read back and announced (account.js
\* resetAccountData, password.js notifyAccount).
QuietMeansAnnounced ==
  (\A j \in Jobs : job[j] = Idle) /\ faults = 0 =>
    account.salt \in announced \cup {0}
=============================================================================
