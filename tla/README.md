# Specifications of fxa-auth-server and fxa-oauth-server

TLA+ models of the Firefox Accounts servers in this repository, checked with
TLC on small instances, and theorems about them proved with TLAPS.

Both servers are Node.js programs. A handler is a chain of promises or an async
function: the code between two `await`s runs to the end, and at each of them
every other request, and every other process behind the same database, may run.
Almost nothing is in a transaction. So the questions that the models ask are of
one kind: *a request read something, others ran, and the request now acts on
what it read*; or *it made the first of three calls, and the second failed*.

All modules follow the same convention. A request is a process with a position;
**an action is one call to a database, Redis or the mailer, together with the
synchronous code around it**. `Fail` ends a request at any of its calls and
rolls nothing back, because the code does not.

Paths below are relative to the repository; `oauth/` is `fxa-oauth-server/lib/`.

## Inventory

### The two servers and their stores

| Component | State it keeps | Operations | Talks to |
|---|---|---|---|
| Grants (`oauth/routes/token.js`, `authorization.js`, `destroy.js`, `client-tokens/`, `grant.js`) | tables codes, tokens, refreshTokens | authorize, exchange, refresh, destroy, deauthorize a client | MySQL; assertions made by the auth server |
| Account events (`oauth/events.js`) | none but the SQS message | delete, reset, passwordChange | grants' tables; SQS delivers at least once |
| Expiry (`bin/purge_expired_tokens.js`, `oauth/token.js`, `routes/introspect.js`) | tokens, `last-purge-time`, an advisory lock | purge by scan, purge by id, verify, introspect | MySQL, cron |
| OAuth clients (`routes/client/`, `developer/`, `db/index.js`) | clients, developers, who owns which | register, update, list, delete; predefined clients and scopes at startup | MySQL or objects in memory; grants refer to them |
| Passwords (`lib/routes/password.js`, `account.js`, `recovery-key.js`, `utils/signin.js`) | account row, sessions, key-fetch, forgot, change and reset tokens, recovery key | login, change, forgot, reset, fetch keys | the database service; events to attached services; push |
| Addresses (`account.js`, `emails.js`, `email/bounces.js`) | accounts, emails, codes | create, verify, add, remove, promote, resend, bounce, destroy | database service; mailer; reminders; SQS |
| Reminders (`lib/verification-reminders.js`, `scripts/verification-reminders.js`) | a sorted set per reminder in Redis | create, delete, process, reinstate | Redis, mailer, cron |
| Session cache (`lib/db.js`, `redis.js`) | sessions in MySQL, their last access in Redis | create, touch, update, prune, delete | both stores, one after the other |
| Session verification (`session.js`, `totp.js`, `recovery-codes.js`, `token-codes.js`) | verification state of a session; TOTP token; recovery codes | verify by link, code, TOTP, recovery code; reauth; duplicate | database service, customs |
| Unblock and sign-in codes (`unblock-codes.js`, `signin-codes.js`, `sms.js`, `utils/signin.js`) | codes, each used once | send, reject, present, consume | customs decides who needs one |
| Devices (`devices-and-sessions.js`, `devices.js`, `sign.js`, `push.js`, `pushbox.js`, `scheme-refresh-token.js`) | device records, command queues | register, make up, notify, invoke a command, disconnect | push services, pushbox, OAuth server |
| Bounces and mail (`bounces.js`, `sqs.js`, `email/`, `senders/`) | bounce records | tally, refuse to mail, split over services, receive, record | SQS, mail services, database service |
| The rest: metrics, templates, crypto, plumbing, scripts | mostly none | | external services |

`PROJECT.json` has the complete list, with the files of each component and
whether it is modelled.

### What is hard

* **Check, then act.** A login checks a password that is replaced before its
  session is stored; a bounce judges an account by a record read before it was
  verified; two requests read one authorization code.
* **Half of it happened.** An account event is three DELETEs; deleting a
  client's authorization is three at once; a password reset is a statement, an
  event and a mail.
* **Again.** SQS delivers a message again; cron starts a purge that died; the
  reminder script puts back what it could not mail.
* **Order.** Two password changes announce their generations to the attached
  services, which must end with the newest.
* **Two stores.** Sessions and devices are deleted from Redis first here, and
  from MySQL first there; a value in Redis that holds all sessions of an account
  is written by all of them. The OAuth server's tests run on another store than
  production.
* **The copy.** A handler acts on the session, the TOTP token or the device
  record that its authentication loaded, and may write that copy back.
* **Called back again.** The library behind SQS may call back more than once,
  and a receiver that does not set its timer receives nothing ever after.

### What makes each component correct

Grants: no chain of grants exceeds what the user approved, tokens reach only
their client, a code that was traded is of no use afterwards, revocation is
complete and final. Expiry: the purge takes only what expired, and misses
nothing. Passwords: after a change nothing of the former password lives, except
what the change overtook; the second factor has no way around it; kB survives a
change; the services learn the generation in force. Addresses: a verified
address is never taken by another, is verified only by a reader of itself or of
its account's primary address, and the verification of an account is announced.
Reminders: none lost, none twice but for a send that failed, none after
verification. Sessions: what MySQL and Redis say together is one table. Devices:
what is recorded of endpoints is true, a certificate names the session's own
device, and a refresh token that works can be disconnected. Verification: a
session's assurance was earned by the second factor, which only the second
factor removes, and whoever has one has something to fall back on. Codes are
accepted once. Mail: addresses that bounced too often get none, the others all;
no bounce is dropped unrecorded. Clients: only owners manage them, a server that
is up serves those it is configured with, and the two stores answer alike.

## Modules

| Module | Is about | Checked by | Proofs |
|---|---|---|---|
| `OAuthGrants` | grants, their handlers, account events | `MCOAuthGrants` | `OAuthGrantsProofs` |
| `TokenPurge` | expiry and the purge script | `MCTokenPurge` | `TokenPurgeProofs` |
| `PasswordFlows` | one account's credentials | `MCPasswordFlows` | `PasswordFlowsProofs` |
| `AccountEmails` | accounts and addresses | `MCAccountEmails` | `AccountEmailsProofs` |
| `VerificationReminders` (extends `AccountEmails`) | the reminder script beside those requests | `MCAccountEmails` | `AccountEmailsProofs` |
| `SessionTable` | what the session operations promise, as one table | as a property of `MCSessions` | `DevicesProofs` |
| `SessionCache` (implements `SessionTable`) | sessions in MySQL and Redis | `MCSessions` | `DevicesProofs` |
| `Devices` (extends `SessionCache`) | devices, commands and push beside sessions | `MCSessions` | `DevicesProofs` |
| `SigninGates` | customs, unblock codes, sign-in codes | `MCVerification` | `SessionVerificationProofs` |
| `SessionVerification` (extends `SigninGates`) | verification of sessions, TOTP, recovery codes | `MCVerification` | `SessionVerificationProofs` |
| `MailDelivery` | bounce rules, sending, the bounce queue | `MCMail` | `MailDeliveryProofs` |
| `MysqlStore`, `MemoryStore` | the two stores of the OAuth server, as operators | `MCOAuthClients` | `OAuthClientsProofs` |
| `OAuthClients` (instantiates both) | developers, clients, start of a server | `MCOAuthClients` | `OAuthClientsProofs` |

An MC module defines *workloads*: which requests are made, how many at once, and
how far the counters go. A behaviour picks one workload at its start, and
`Within` restricts every step to it. A run thus answers one question on several
small instances. Operators named `Mutant...` stand beside the definition they
damage; no specification uses them.

### OAuthGrants

State: the three tables as sets of rows; `clients`; per request its position
`at` and its locals `job`; `event`, the messages of the queue; `active`, the
users that the auth server has not deleted (it decides which events are sent;
no request asks for it); `lapsed`, the codes past their
lifetime; `nextId`, from which `unique.code()` and `unique.token()` draw.

| Code | Actions |
|---|---|
| `POST /authorization`, implicit grant, `grant_type=fxa-credentials` | `ArriveWithAssertion`, `GetClient`, `InsertCode` or `InsertAccess`, `InsertRefresh` |
| `POST /token` with a code or a refresh token | `ArriveWithCredential`, `GetClient`, `GetCode`, `RemoveCode` or `GetRefreshToken`, `UsedRefreshToken`, then the inserts |
| `POST /destroy` | `ArriveToDestroy`, `GetToken`, `RemoveToken` |
| `DELETE /client-tokens` | `ArriveToRevoke`, `RevokeTable`, `RevokeTableFails`, `RevokeEnds`: the three statements are issued together, run in any order, and each may fail |
| `events.js` | `Notify`, `Deliver`, `RevokeAccessTokens`, `RevokeRefreshTokens`, `RevokeCodes`, `Redeliver` |
| client deletion, time | `RemoveClient`, `Lapse` |

An assertion is accepted for what it says, as `lib/assertion.js` does: nobody
asks whether the account still exists, so one that was made before the account
was deleted makes grants after the event was handled, while it lasts.
`QuietDeletionIsFinal` therefore speaks of what was approved before the
deletion: nothing of it is left, and nothing that was made from it comes back.

Every row carries its `origin`, the approval it descends from, and `asked`, when
the approval was presented; and every access token a `receipt`: who got it, what
they proved themselves with, which code they traded, and when their request
arrived. Neither is stored by the code; the properties compare them with
what the row says. The `raced` flag of an event records that a request held or
obtained a grant of the user while the handler ran.

### TokenPurge

State: the clock, the rows of `tokens`, the stored `last-purge-time`, the lock,
and per running script its variables. `DeleteExpired` is the strategy by scan,
`SelectById`, `DeleteById` and `ReplaceLastPurgeTime` the one by id. `Crash`
kills a run at any statement; `LoseLock` closes the idle connection that holds
`GET_LOCK` while its script goes on, so that runs overlap. `Verify` is `verify`
of `token.js`; `introspect.js` does not ask it and is not modelled, for its own
test of the expiry is plainly wrong (below). `Limit` is the code's adjustment of
the batch size to the token count. Time 0 stands for
`OLDEST_POSSIBLE_TOKEN_EXPIRY`.

### PasswordFlows

State: the account row (password, kB, salt, whether it has TOTP), sessions,
key-fetch tokens, the forgot, change and reset token (at most one each, as the
database keeps them), the recovery key, and the requests.

| Code | Actions |
|---|---|
| `/account/login` | `StartLogin`, `Load`, `CheckPassword`, `CheckTotp`, `CreateSessionToken`, `CreateKeyFetchToken` |
| `/password/change/start` | `StartChange`, `Load`, `CheckPassword`, `CreateKeyFetchToken`, `IssueToken` |
| `/password/change/finish` | `StartFinish`, `CheckTotp`, `CheckSession`, `DeleteChangeToken`, `Stamp`, `ResetAccount`, `Reread`, `Announce`, `CreateSessionToken`, `CreateKeyFetchToken` |
| `/password/forgot/send_code`, `verify_code` | `StartForgot`, `Load`, `IssueToken`; `StartVerify`, `RightCode`, `WrongCode` |
| `/account/reset` | `StartReset`, `CheckRecoveryKey`, `CheckTotp`, `Stamp`, `ResetAccount`, `PurgeTokens`, `Reread`, `Announce`, `DropRecoveryKey`, then session and keys |
| `/account/keys` | `StartKeys`, `ServeKeys` |
| verification, sign-out, recovery key, expiry | `VerifySession`, `DestroySession`, `CreateRecoveryKey`, `DeleteRecoveryKey`, `Expire` |

`lineage` is history: the generations of the account since kB last changed. A
change that wraps the kB of one of them keeps kB, whatever overtook it; one that
read the account before a reset drew another kB does not, and the property says
so for nobody else.

`Stamp` and `ResetAccount` are two steps because `db.resetAccount` reads the
clock before the request goes out, and another may overtake it on the way.

Abstractions. One account, with a verified primary address. Customs and unblock
codes are a request that is never started; they are in SigninGates. A new salt
is drawn and `verifierSetAt` is set by the same statement, and both are fresh,
so one number stands for the two; kB is named by the time it was drawn. Whether
the account has TOTP is fixed for a behaviour. Whether a plain reset drops the
recovery key is decided inside the database service, which is not in this
repository, so both happen. Asking for keys without a session in a reset, an
error that comes after the reset, is a `Fail` there. Push and mail do not stop a
request and are left out. Sessions are rows of one table here; SessionCache
shows that MySQL and Redis together are that.

### AccountEmails and VerificationReminders

State: `emails`, the row stored for each address; `signins`, accounts with a
session that waits for a link; `mail`, the links sent so far, which anybody who
received one may follow at any time and as often as they like; `reminders`,
`announced`, and the requests. An account is named by the code drawn for its
first address; it is verified if its primary address is.

| Code | Actions |
|---|---|
| `/account/create` | `StartCreate`, `Lookup`, `Clear`, `Insert`, `Mail` or `MailFails`, `Remind` |
| `POST /recovery_email` | `StartAdd`, `Lookup`, `Clear`, `Insert`, `Mail` or `MailFails` and `Undo` |
| `/recovery_email/verify_code` | `StartVerify`, `LoadAccount`, `MatchSecondary` or `VerifyTokens`, `VerifyEmail`, `Announce` |
| `/recovery_email/resend_code`, login to an unverified account | `Resend`, `Signin` |
| `/recovery_email/destroy`, `set_primary` | `StartDestroyEmail`, `LoadAccount`, `RemoveEmail`; `StartSetPrimary`, `LookupOwn`, `Promote` |
| `/account/destroy`, a bounce | `StartDestroyAccount`, `Bounce`, `Erase` |
| `scripts/verification-reminders.js` | `Run`, `Pop`, `Skip`, `Read`, `Send`, `SendFails`, `Reinstate`, `Crash` |

A link is what a mail has: a code, the account, the address it was sent to, and
whether that was the primary one. `Resend` sends the code of a secondary address
to the primary address as well, as `resend_code` does with type
`upgradeSession`. What `StartVerify` posts is a link and a `type`, which the
client chooses: any code can be sent down either path.

Two history fields of a row are not stored by the code: `by`, the post that
verified it, and `early`, that it was promoted before it was verified. `doubted`
counts the sends that reached their account and were reported as failed, as
happens when one of several mail servers fails (`senders/email.js:338`).

Abstractions. Time goes in ticks: `BounceWindow` is the six hours of
`bounces.js`, `MinUnverified` the day of `minUnverifiedAccountTime`. The
`preVerified` parameter, which production does not accept, is left out, and the
rollout rate of reminders is 1. A session waits for one code. Of
`db.createEmail` and `db.setPrimaryEmail`, whose procedures are elsewhere, the
model takes only what the callers here can rely on: an address is stored once,
and a promoted address belongs to the account. What a new account's session and
key-fetch token do is in PasswordFlows.

### SessionTable and SessionCache

`SessionTable` is the promise: sessions are opened, used and closed, each with
the time of its last access, of which MySQL stores one and the cache may know a
newer one. A use of one session never shows in another, and a closed session is
gone.

`SessionCache` is the code of `lib/db.js` and `redis.js`. State: `rows` and
`devs` in MySQL, `cache`, the single value in Redis with every session of the
account, which may also be `Garbage` that no `JSON.parse` reads; `job`, what
each request is doing.

| Code | Actions |
|---|---|
| `createSessionToken`, `touchSessionToken`, `updateSessionToken`, `deleteSessionToken` | `StartCreate`, `StartUse`; `PutRow`, `PostRow`, `DeleteRow` |
| `redis.update`: WATCH and GET, the callback, MULTI and SET or DEL | `Watch`, `Write`, `Conflict`, `RedisFails` |
| `sessions`, with the pruning of what has expired; `pruneSessionTokens` | `StartList`, `ListRows`, `ListCache`; `StartPrune` |
| `deleteDevice`, MySQL first | `DropDevice` |
| `resetAccount`, `deleteAccount` | `StartWipe`, `Clear`, `DeleteRows` |
| MySQL fails; a value that no JSON parser reads | `RowFails`, `Corrupt` |

The refinement maps the table to the rows, `stored` to the access time in MySQL
and `seen` to the entry in the cache, or where there is none, to the row's own.
`excused` is history: the sessions whose entry is left in Redis by a touch
during or after their deletion, or by a cleanup that failed. `db.js` knows of
these zombies and deletes them when the id is drawn again; `CacheFollowsTable`
says that they have no other cause, and the refinement that nobody sees them.

### Devices

State beside that of `SessionCache`: `reg`, the rest of each device record;
`dead`, the endpoints the push service gave up; `live`, refresh tokens; `box`,
the commands that wait in pushbox; `task`, what each request is doing.

| Code | Actions |
|---|---|
| `/account/device`, with a session or with a refresh token | `StartRegister`; `StartRefresh`, `Load`; `Create` and `CreateConflict`, or `Update` |
| `/certificate/sign`, which makes up a device and touches the session in the background | `StartSign`, then `Create`, `CreateConflict` or `Name` |
| `/oauth/token`, which grants a refresh token and makes up a device for it | `StartGrant`, `Create`, `Answer` |
| `/account/devices/notify`, `invoke_command` | `StartOther`, `Read`, `StoreCommand`, `Push` |
| `/account/device/destroy` | `StartOther`, `Read`, `Delete`, `Deleted`, `Revoke`, `Push` |
| the push service gives up an endpoint | `Unsubscribe` |
| `push.js` `sendPush`: logged, flagged, or delivered | the disjuncts of `Push` |
| the actions of `SessionCache` | `SessionStep` |

A device is flagged when the push service gave up its endpoint (`dead`), or when
the key it registered is not one (`BadKeys`, the endpoints with such a key; that
a key is bad is a matter of the endpoint in the model, for the two are
registered together). What is written back is the record read before the push.

Histories: `held`, the refresh tokens that a client was given; `lost`, those
whose device went without them; `linked`, `certs`, `notices`. Abstractions:
names, types and payloads of devices, ttls, and the check of who may send which
command; the signer, pushbox, the push services and the OAuth server are
external.

### SigninGates and SessionVerification

| Code | Actions |
|---|---|
| `/account/login/send_unblock_code`, `reject_unblock_code` | `SendUnblockCode`, `RejectUnblockCode` |
| `/sms`, `/signinCodes/consume` | `SendSms`, `ConsumeSigninCode` |
| `checkCustomsAndLoadAccount`: customs, the account, the unblock code | `Allowed`, `Blocked` or `Unblockable`; `Account`, `Consume`; `GateFails` |
| `/totp/create`, `/totp/exists`, `/totp/destroy` | `StartVerified` or `StartAny`; `CreateTotp`; `ReadForDelete`, `DeleteTotp`, `Notify` |
| `/session/verify/totp` | `StartAny`, `ReadTotp`, `Enable`, `Notify`, `Replace`, `Raise`, `Answer` |
| `/recoveryCodes`, `/session/verify/recoveryCode` | `StartReplace`, `Replace`, `Answer`; `StartAny`, `ConsumeRecovery`, `Raise` |
| `/session/reauth` | `StartReauth`, the gate, `ReauthPassed`, `UpdateSession` |
| `/session/duplicate`, `/session/destroy` | `StartAny`, `Duplicate`; `DestroySession` |
| links and token codes that verify a session | `VerifyLink`, `VerifyTokenCode`, `CodeExpires` |
| a call fails | `Fails` |

A request holds `tok`, the session as its authentication loaded it, and acts on
that copy. Histories: `shown`, the recovery codes the user was sent; `entered`,
secrets of which the user entered a code; `earned`, sessions with a code of the
second factor; `overtaken`, requests whose reading was overtaken; `swapped` and
`broken`, that one secret was enabled by the code of another, or that a failure
or an overlap cut the setting up short.

Abstractions. A behaviour starts with any consistent set of sessions (`Init`):
they are made by a login, which is in PasswordFlows. A code is right or wrong,
and entered by somebody who has it; the time step of TOTP is left out. Recovery
codes are a batch and the number that is left. Whether the database keeps the
method that `/session/duplicate` sends is not known here, so a copy has it or
not.

### MailDelivery

| Code | Actions |
|---|---|
| `senders/index.js` `getSafeMailer`, `bounces.js` `check` and `applyRules` | `Start`, `Check`, `CheckFails` |
| `senders/email.js`: services by recipient, one mail for each | `Route`, `Deliver`, `DeliverFails` |
| a mail bounces | `Bounce` |
| `sqs.js` `fetch`, with its timer | `Receive`, `ReceiveError`, `FetchAgain` |
| `email/bounces.js` `handleBounce` | `Record`, `RecordFails`, `Delete` |
| the process stops | `Crash` |

`bounces` has the bounces of each address as a sequence, latest first, as the
database returns them; at most `MaxBounces` are recorded of each. `Gated` is the
loop of `applyRules` over it, which counts each kind and compares it with the
tier in force; `TooMany` is what the configuration says, without an order. Which
bounce erases an account is in AccountEmails; complaints are a kind of bounce.

### MysqlStore, MemoryStore and OAuthClients

The two stores are operators: a call takes a store and gives the store it leaves
and its answer. `MysqlStore` has sets of rows, `MemoryStore` the objects of
`db/memory.js`, and `Memory!Tables` the rows that these stand for.
`OAuthClients` makes **every call on both** and goes on with MySQL's answer.

| Code | Actions |
|---|---|
| `POST /developer/activate` | `activateRegistration`, `GetDeveloper`, `ActivateDeveloper` |
| `POST /client` | `registerEndpoint`, `GetDeveloper`, `RegisterClient`, `RegisterClientDeveloper` |
| `POST`, `DELETE /client/:id` | `updateClientEndpoint`, `clientDeleteEndpoint`; `DeveloperOwnsClient`, `UpdateClient`, `RemoveClient` |
| `GET /clients` | `listEndpoint`, `ListClients` |
| start of a server, `db/index.js` | `StartServer`, `LookUpClient`, `RegisterPredefined`, `UpdatePredefined`, `ClientsLoaded`, `LookUpScope`, `RegisterScope`, `Listen`, `Stop` |
| calls of grants and of account events | `GrantStep`: `Generate`, `Get`, `Remove`, `UsedRefreshToken`, `DeleteClientAuthorization`, `RemoveUser`, `RemovePublicAndCanGrantTokens`, `GetScope`, `ListServices`, `Expire` |
| a statement fails | `Fail` |

`Updaters` are the servers with `db.autoUpdateClients`, which production and
stage turn off: the others listen without looking for a predefined client.
`UrlScopes` are the scopes that are https URLs, the only ones that MySQL's
`getScope` looks up, and so finds.

`split` is set by the calls that `memory.js` treats in a way of its own, and
ends the comparison: the comment at `StoresAgree` lists them. The run, and the
theorem `StoresMirror` for all instances, show that these are all. The developer
routes exist only with `clientManagement.enabled`. `removeDeveloper` is called
by tests alone.

## Runs

Every bound is a constant of the module and named `Max...`; workloads tighten
them. They are enough to let each pair of handlers overlap at every pair of
calls, with one failure, and for a row to come to be, be replaced and be acted
upon by a stale request, which takes two tokens, two passwords or two codes.
Three requests at a time, or two failures in one behaviour, are beyond what most
of the runs examine; the theorems below cover them, for every safety property of
a run has one, but for `PromisedSerially`.

| Run | Instance | Shows |
|---|---|---|
| `oauth_grants` | one request at a time; a public, a confidential and a granting client; key-bearing and basic scopes, two PKCE verifiers, four ids: code, its two tokens, a refreshed one; grants from an assertion, direct or implicit; a message that fails | `GrantsStayWithinApproval`, `TokensReachTheirClient`, and `MessagesTakeEffect` (liveness) |
| `oauth_revocation` | two requests of a user, who may trade one code, beside an event that is redelivered; assertions that outlive the account; two users; public, confidential and granting clients; two deauthorizations beside other requests | `CodesAreSpentTogether`, `EventRevokes`, `QuietDeletionIsFinal`, `DeauthorizationIsComplete`, `OnlyOwnerRevokes` |
| `purge` | overlapping runs by id and by scan with a crash or lost lock; a backlog of five tokens for runs of three in batches of two; a cron job | `NothingSkipped`, `RefusedForGood`, and `CronPurges` (liveness) |
| `purge_stuck` | purge by id, over and over | **violated**: `ExpiredIsPurged` |
| `password_flows` | pairs of requests among login and change, login and reset, two changes, change and reset; and all kinds one at a time with a failing call | `OldCredentialsWereOvertaken` (sessions and key-fetch tokens), `SecondFactorHolds`, `QuietMeansAnnounced`, `ChangeKeepsKeys`; and of requests that do not overlap `PromisedSerially`: wrong codes are limited, sessions die with the password, reset and change tokens are used once |
| `account_emails` | two requests at a time over two addresses; links mailed again, to either address, and posted with either type; three codes; one failing call | `VerifiedByOwnOrPrimaryLink`, `VerifiedAreAnnounced`; and of requests that do not overlap `PromisedSerially`: verified addresses are kept, reminders stop, and only verified addresses are promoted |
| `reminders` | two reminders of two accounts; one account that is verified or deleted meanwhile, a mail that fails, delivered or not, a script that dies | `RemindedOnce`, and `EveryoneIsReminded` (liveness) |
| `sessions` | two requests at a time, two sessions, two devices, two refresh tokens, two endpoints of which one is given up, one with an invalid key; expiry; one failure; a corrupt value | `SessionsAreTable` (refinement of `SessionTable`), `CacheFollowsTable`, `PushTellsTheTruth`, `OverwrittenAreFlagged`, `CertificatesNameOwnDevice`, `LiveTokensAreListed` |
| `device_update` | one request at a time, one endpoint | **violated**: `FlagOutlivesOtherUpdates` |
| `verification` | two requests at a time: two secrets set up at once, a second factor removed, codes replaced, copies of sessions, reauthentication, unblock codes that expire, SMS; one failure | `CodesAreAcceptedOnce`, `EnabledIsUsable`, `AssuranceIsEarned`, `OnlySecondFactorDisables`, `VerificationIsItsOwn` |
| `mail` | two mails to two addresses over two services; rules with two tiers over three bounces and three ticks; two notifications, two handlers, two calls under way, two failures | `MailIsForTheOpen`, `NoBounceIsForgotten`, and `NotesAreHandled` (liveness) |
| `stores` | two developers, two requests at a time; codes and tokens of two users, scopes that are URLs or not; two servers that start at once, over nothing or over older rows, with failures, one that may not update clients, and developers beside them | `StoresAgree`, `PredefinedAreServed`, `ClientsAreOwned`, `OwnersManage` |

Deadlock is not checked: the bounds bring every instance to rest.

Requests are interchangeable, and so are passwords, slots and addresses where a
configuration says `SYMMETRY`; liveness runs use none.

### Fairness

* `OAuthGrants!FairSpec`: weak fairness of each event handler. SQS delivers a
  message until it is deleted, and Node.js runs pending callbacks. Nothing is
  assumed of the requests: a client may go away. Only a bounded number of
  deliveries fail.
* `TokenPurge!FairSpec`: the clock goes on, and the script is run again and
  again and left to finish, as cron does.
* `VerificationReminders!FairSpec`: the clock goes on, and the script is
  invoked at regular intervals, as its header expects. `EveryoneIsReminded`
  excuses accounts that were verified or deleted, and a script that died.
* `MailDelivery!Fairness`: the timer that fetches again fires, a handler whose
  call was answered goes on, and, strongly, a notification that SQS has again and
  again while somebody asks is received again and again: the messages of a queue
  compete for the calls, so weak fairness would let one be passed over forever.
  SQS redelivers what is not deleted; failures and stops of the process are
  bounded, and none of them is fair.

Nothing is fair in the other modules, whose properties are all of safety.

### Where code and documents differ

Shown by a run, and listed with it in `PROJECT.json`:

1. **The purge by id can get stuck** (`purge_stuck`). A batch that has only tokens
   of ignored clients ends the run without storing how far it got, and so does
   every later run.
2. **Renaming a device revives a dead endpoint** (`device_update`). `db.updateDevice`
   sends `callbackIsExpired: false` whenever the flag is not mentioned; a test and
   the documentation say that only an update of the endpoint resets it.

Met while modelling, without a run of their own. The properties name the case
and exclude it, or are stated for requests that do not overlap:

* *Codes may be used twice.* `oauth/routes/token.js:281` reads a code and deletes
  it in a later statement without asking how many rows that removed, while
  `fxa-oauth-server/docs/api.md:363` says codes are single use only.
  `CodesAreSpentTogether` says, and is proved to say, how far this goes: the two
  requests were under way at the same time.
* *Introspection.* `active` (`introspect.js:69`) is true exactly of an access token
  that has expired.
* *Wrong reset codes.* Each request decrements the tries in its own copy and
  overwrites the row with it (`password.js:35`), so concurrent ones count once.
* *Codes for a verified address.* The `return {}` of `resend_code`
  (`emails.js:221`) only ends a step of the promise chain: the code is mailed.
* *An unverified address may become the primary one*, removed and added again
  between the lookup and the promotion (`emails.js:735`).
* *A bounce may erase a verified account.* It decides on a record read before
  (`email/bounces.js:36`); `deleteAccountIfUnverified` of `account.js` and
  `emails.js` have the same shape.
* *A second factor disappears without a second factor.* `/totp/exists` and
  `/totp/destroy` delete a token that was enabled since they read it
  (`totp.js:209`): the exception in `OnlySecondFactorDisables`.
* *A second factor without recovery codes.* A failure between enabling the token
  and storing the codes (`totp.js:293`) leaves it so, and a later code is no longer
  a registration: `EnabledIsUsable` is of requests whose calls succeed.
* *The memory store removes no user* whom an account event names: `memory.js:121`
  compares a Buffer with a string by `===`. `StoresAgree` ends there.
* *The wrong address is checked.* A mail that verifies a secondary address is
  sent there once the primary one is open (`senders/index.js:148`); the bounces
  of the address itself are not asked for.
* *Reminders after verification.* One that the script had popped when its
  account was verified is put back if it cannot be mailed, and mailed later; the
  same happens to one that `/account/create` stores after its link was followed.
* *Codes on the other path.* A client that posts the code of its account with type
  `secondary` verifies the account without the `verified` event, and the code of
  a secondary address, mailed to the primary one, verifies the secondary one:
  `VerifiedAreAnnounced` and `VerifiedByOwnOrPrimaryLink` say so.
* *Bounces and reminders.* The reminder script makes its own `Mailer`, without the
  gate of `senders/index.js`, so its mails go to addresses that bounced.
* *A stale login* that checked the old password before a reset, and stores its
  session after it, keeps that session. `OldCredentialsWereOvertaken` says that
  this is the only way, for sessions and for key-fetch tokens.
* *No second announcement.* A server that stops after `resetAccount` and before
  `notifyAttachedServices` (`account.js:1022`) leaves the services uninformed:
  nothing repeats the event. `QuietMeansAnnounced` excludes it.
* *Key-fetch tokens* are deleted after they are read (`account.js:885`), so two
  requests at once are both served.
* *Reset links* are dropped by a later call than the address they were mailed to
  (`emails.js:681`).
* *Budget of SMS.* `GET /sms/status` consults `isBudgetOk`; `POST /sms` does not.
* *Several services for one mail.* `message.emailService` is overwritten for each
  (`senders/email.js:301`), so the last one is reported for all.
* *Device fields.* A session token has `deviceCallbackURL`, credentials made from
  a refresh token have other names (`session_token.js:107`,
  `scheme-refresh-token.js:59`), so an endpoint that is given counts as a change
  even if it is the same.
* *The memory store* is not the MySQL store. `removePublicAndCanGrantTokens`
  deletes the tokens of all users there; `removeClient` leaves rows that name the
  client; `registerClient` overwrites; `updateClient` sets `publicClient`, which
  the UPDATE of MySQL never does although `config.js:99` says "update clients
  from config file settings"; a refresh token that is gone cannot be marked as
  used; expired tokens are listed; and `getScope` of MySQL ignores scopes that
  are no URLs, so that a server with such a scope in its configuration cannot
  start again: it never finds the scope, and its INSERT is refused. `StoresAgree`
  ends at such a call.
* *Clients at start.* A configured client always counts as changed, for
  `createdAt` is compared, so every start writes them all.

## Proofs

TLAPS proves the following for all values of the constants, so for any number of
users, clients, requests, tokens, runs, bounces and redeliveries. The only
assumptions are the `ASSUME`s of the modules: inclusions between sets of clients
and scopes, bounds that are natural numbers, a `None` that is nobody and no
record, finitely many addresses, the types of what is configured. TLC evaluates
them. Each of the eight `*Proofs` modules begins with the inductive invariant,
then says what each step leaves alone, then has one lemma per action or group of
actions, and ends with the theorems. Every inductive invariant was an invariant
of a TLC run before it was proved.

| Theorem | Of | Argument |
|---|---|---|
| `TypeCorrect` | `OAuthGrants` | `TypeOK` says a request may have no grant (`NoGrant`), so inserting rows does not keep it. `JobsOK` adds which requests hold one: those at the statements in `Holding`. |
| `NoEscalation` | `GrantsStayWithinApproval` | Needs what a grant is while a request holds it: what was asked for until `validateRequestedGrant` has passed, and within the approval afterwards (`JobGrantsOK`). `Frame` says what each step leaves alone, so that the proof speaks only of the steps that make a grant. |
| `ClientsProve` | `TokensReachTheirClient` | `ReachInv`: what a request that trades a code or a refresh token shows of its client's secret, or of the challenge of its code, is carried from the statement that checked it to the row (`Shown`, `Challenged`, `Proved`). |
| `EventsRevoke` | `EventRevokes` | `RevokedSoFar` says what has been revoked at each statement of a handler. Every other step only removes rows, or adds one under an id not used before (`Grow`), which is not below the `horizon` fixed when the handler started. |
| `DeletionsAreFinal` | `QuietDeletionIsFinal` | `QuietInv`: if no request has crossed the handler (`QuietSoFar`), none holds a grant of the user that was approved before the handler started, so the tables the handler is through with stay without one; grants that are approved afterwards have a later `asked`. |
| `DeauthorizationCompletes` | `DeauthorizationIsComplete` | `ClearInv`: what is left in a table whose statement was issued and did not fail was inserted since the request began (`Later`, `Cleared`). |
| `OwnersRevoke` | `OnlyOwnerRevokes` | `KindInv`: a request that is under way still has its parameters, so that to answer is to change `job`, by which the property knows who removed a row. |
| `CodesSpentTogether` | `CodesAreSpentTogether` | A code that was deleted is never there again, since its id was drawn, so a request that gets tokens for it had read it before; and what a token's request knew when it arrived is below the ids that were drawn after. |
| `PurgeSkipsNothing` | `NothingSkipped` | No row to be purged lies behind `last` of a run, other than those it has chosen and not yet deleted (`RunInv`); and no `last` is ahead of the clock, so none is issued there. Overlap does no harm: each run's claim is about rows that go and never come back. |
| `PurgeTypes`, `RefusalIsFinal` | the types of `TokenPurge`, `RefusedForGood` | `TypeInv`: the ids of tokens are new and the clock only goes forward, so a token that was refused has gone or stays past its time. |
| `TypeCorrect` | `PasswordFlows` | With `Placed`, which requests come by which step. |
| `OnlyTheOvertakenKeepOldCredentials` | `OldCredentialsWereOvertaken` | The salt works as a version. What a request knows of password and kB is right while its salt is the account's (`Claim`), and once it is not, it never is again: the salts on their way to the database are new and differ from each other (`Stamps`, `InUse`). |
| `SecondFactorIsNeeded` | `SecondFactorHolds` | `FactorKnown`: a request that is to make a session knows whether there is a second factor, and a change has a session that came by it. |
| `ChangesKeepKeys` | `ChangeKeepsKeys` | `Claim` again, for every generation of the `lineage`: all of them have the kB of the account, and a change that proved the password of one wraps that kB. |
| `QuietMeansTold` | `QuietMeansAnnounced` | `ToldInv`: while the services know an older generation than the one in force, a request is under way that will announce (`WillAnnounce`), and it reads the account again after its change. |
| `SubmissionsAreLimitedApart`, `TokensReplaceOnceApart`, `SessionsDieApart` | the parts of `PromisedSerially` | What the documents promise, each under the one overlap it does not survive: two submissions with the same forgot token (`VerifiesApart`), two replacements by the same token (`ReplacesApart`), a replacement between the proof of a password and the session made by it (`ProvesApart`). Everything else may overlap and fail. |
| `TypesHold`, `CacheFollows`, `SessionsImplementTable` | `CacheFollowsTable`, `SessionsAreTable` | `SessionInv`. A request writes to Redis the whole value of its user, computed from what it read; the write takes place only if nothing was written since, and then what it read is what is there (`FreshIsCurrent`), so the values differ only in its own session. `CreatesAreNew` and `OneSession` say a request adds or touches one session, `ClosedIsClean` what is left of one that is gone. Each step of `SNext` maps to one of `SessionTable` or to a stutter. |
| `OverwritesFlag` | `OverwrittenAreFlagged` | Only a registration and a push write the record of a device: the first writes the endpoint it was given, the second sets the flag with whatever it writes back. |
| `PushIsTrue`, `CertificatesAreOwn`, `TokensAreListed` | `PushTellsTheTruth`, `CertificatesNameOwnDevice`, `LiveTokensAreListed` | `DeviceInv`: the device a request found for its session belongs to it or did, and the command it tells of was stored for that device before (`TasksOK`); a session and its device are in `linked` as long as they belong together (`DevicesAreLinked`). |
| `VerificationTypes`, `CodesOnce` | `CodesAreAcceptedOnce` | `GateInv`: a code that is in a table was not accepted yet (`KnownAreUnused`); it is accepted by the statement that takes it from there, and no code is drawn twice. |
| `AssuredHaveEarned`, `SecondFactorIsUsable`, `SecondFactorIsKept` | `AssuranceIsEarned`, `EnabledIsUsable`, `OnlySecondFactorDisables` | `JobsOK`: a request that raises a session, or carries one that was raised, does it for one that gave a second factor; a secret it enables was entered; what it read of the TOTP token still holds unless it was overtaken. |
| `VerificationIsOwn` | `VerificationIsItsOwn` | `VersAreOwn`: no two sessions that are not verified wait for the same confirmation, and one that is verified waits for none. |
| `ReminderTypes`, `OwnOrPrimaryLinksVerify`, `QuietMeansVerifiedAnnounced` | `VerifiedByOwnOrPrimaryLink`, `VerifiedAreAnnounced` | `EInv`. A code is of one row, and while that row is there a link with it went to its address or to the primary one of its account (`LinksOK`); a primary address that is not verified is its account's first or was promoted too early (`RowsOK`); what a request relies on of a row it read is still so for the row that has its id (`JobsOK`); the event of an account that was verified by the path which announces was sent or will be (`AllConfirmed`). |
| `EachRemindedOnce` | `RemindedOnce` | `RInv`: a reminder waits in one place, in Redis or with one script (`ScriptOK`); it is put there once, by the only request that creates its account, and again only by a script whose send failed, so that while it waits what was mailed for it was `doubted` (`RemindersOK`). |
| `VerifiedIsKeptApart`, `RemindersStopApart` | the parts of `PromisedSerially` | Again what the documents promise, under the overlaps it does not survive. A verified address is kept (`KeptInv`: what a request is about to clear away is unverified, and an address is added only to an account whose first one is verified), unless a link is followed while a request clears something away from its account (`VerifiesApart`) or an address is promoted that was removed and added again since it was looked up (`PromotesVerified`). Reminders stop (`StopInv`: of an announced account there are none and nobody will make one), unless the account is announced while it is being created or while the script has its reminder in hand (`AnnouncesApart`). TLC breaks each property when its hypothesis is left out. |
| `MailTypes`, `OpenAreMailed` | `MailIsForTheOpen` | `Gated` counts along the sequence and `TooMany` takes no order; both come to the same, since the bounces of an address stand latest first (`BouncesInOrder`) and the n-th of a kind decides. A mail goes only where it was found open when asked (`MailsFit`). |
| `BouncesAreRecorded` | `NoBounceIsForgotten` | A handler that is about to delete its message has recorded the bounce, or its call failed (`HandlersOK`). |
| `ClientTypes`, `ClientsHaveOwners`, `OwnersManageClients` | `ClientsAreOwned`, `OwnersManage` | `OwnInv`: a client without an owner is predefined, or the request that inserted it has yet to insert the owner (`NoneIsLost`); a request that changes a client has read that its developer owns it, and an owner remains one as long as the client is there (`ChangesAreOwned`). |
| `ListenersServe` | `PredefinedAreServed` | `ServeInv`: while a server that may update clients starts, a predefined client that it has neither to look up nor to write is served (`ServesWell`). |
| `StoresMirror` | `StoresAgree` | `AgreeInv`: while the stores are compared, every object of the memory store holds the rows of its table (`Mirrored`) and every call gives the same (`Alike`). It needs that a single server runs and, having begun empty, finds nothing of what it is configured with; that the clients of grants are there; that keys were drawn and emails differ. |

Only model-checked:

* the liveness properties `MessagesTakeEffect`, `CronPurges`,
  `EveryoneIsReminded` and `NotesAreHandled`, since the prover does not reason
  about fairness and `ENABLED`;
* `PromisedSerially` of `MCPasswordFlows` and of `MCAccountEmails`, as they are
  stated: of requests that do not overlap, so of workloads and not of the
  specification. Their parts are proved in another form, under the overlaps that
  break them.

## Plan

Modules done, in this order: `OAuthGrants`, `TokenPurge`, `PasswordFlows`,
`AccountEmails`, `VerificationReminders`; `SessionTable`, `SessionCache`,
`Devices`; `SigninGates`, `SessionVerification`; `MailDelivery`; `MysqlStore`,
`MemoryStore`, `OAuthClients`. Theorems done: every safety property of a passing
run.

Theorems to come:

* that `PasswordFlows` implements the abstract account "one password, one kB, and
  sessions of it, except those overtaken".

Modules that are left: the metrics context, which is stashed under one token and
moved to the next by overlapping requests (`metrics/context.js:69`, `:245`); and
the composition of reset tokens with the removal of an address
(`emails.js:681`).

## Not modelled

* Text, formats, parsing, hashing, logging; templates and translation. Nothing of
  the state depends on them.
* The certificate signer, push services, pushbox, customs, SMS carriers, mail
  services, SNS and SQS are external: they appear as what the code sees of them,
  an answer, a failure or a repeated message. How customs decides, and the
  monthly budget of SMS, are not in the models.
* `fxa-auth-db-mysql`, the database service behind `lib/db.js`, is not in this
  repository. Its procedures are atomic statements, modelled from what `db.js`
  sends and relies on.
* Metrics, which are best effort by design; see the plan for their context.
* Scripts that are run by hand; they call operations which the modules have.
* Endpoints that answer from configuration or by one read; what lists of
  sessions, devices and services show.

`PROJECT.json` gives the reason for each component.

## Running

    tlc -workers 2 -config MCOAuthRevocation.cfg MCOAuthGrants
    tlapm OAuthGrantsProofs.tla

A configuration belongs to the MC module named in `PROJECT.json` "runs".
