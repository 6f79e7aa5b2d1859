--------------------------- MODULE AccountEmails ---------------------------
(***************************************************************************)
(* The email addresses of the accounts of fxa-auth-server: an account is   *)
(* created with an address, which a mailed link verifies; further          *)
(* addresses are added, verified, removed and promoted; and an account     *)
(* that was never verified may be cleared away, by whoever wants one of    *)
(* its addresses or because the mail to it bounced.                        *)
(*                                                                         *)
(* A request is a process, as in PasswordFlows: one action for each call   *)
(* to the database or the mailer, and other requests run in between.       *)
(*                                                                         *)
(* An account is named by the code drawn for its first address.  It exists *)
(* while it has a primary address, and is verified if that address is.     *)
(***************************************************************************)
EXTENDS Integers

CONSTANTS
  Jobs,          \* requests that may be in flight at once
  Addresses,
  None,
  Keys,          \* the reminders of an account: 1 is the first
  BounceWindow,  \* SIX_HOURS, in ticks of the clock
  MinUnverified, \* minUnverifiedAccountTime, in ticks of the clock
  MaxClock,      \* bound: how far the clock goes
  MaxIds,        \* bound: how many rows are inserted
  MaxFaults      \* bound: how many calls fail

ASSUME ConstantsAssumption ==
  /\ None \notin Addresses
  /\ Keys \subseteq Nat \ {0}
  /\ BounceWindow \in Nat \ {0}
  /\ MinUnverified \in Nat
  /\ MaxClock \in Nat
  /\ MaxIds \in Nat
  /\ MaxFaults \in Nat

VARIABLES
  emails,     \* address -> the row stored for it, if any
  signins,    \* the accounts with a session that waits for a mailed code
  mail,       \* the links mailed so far
  reminders,  \* key -> the sorted set of reminders in Redis
  announced,  \* the accounts whose `verified` event was sent
  job,        \* request -> its position, parameters and local variables
  clock,      \* Date.now()
  drawn,      \* the last code drawn for a row
  faults      \* how many calls have failed

tables == <<emails, signins, mail, reminders, announced>>
evars == <<emails, signins, mail, reminders, announced, job, clock, drawn, faults>>

-----------------------------------------------------------------------------
(* Rows, links and requests.                                               *)

Ids   == 1..MaxIds
Times == 0..MaxClock

\* A link carries the code of a row, or the tokenVerificationId of a session.
\* `primary` is not part of it: whether the address that it was sent to was then
\* the primary one of the account.
Codes == [kind : {"email", "signin"}, id : Ids]
Links == [to : Addresses, uid : Ids, code : Codes, primary : BOOLEAN]

\* What a client posts to /recovery_email/verify_code: the type is its choice,
\* whatever the link was mailed for.
Posts == [link : Links, type : {"secondary", "other"}]

\* `id` stands for the emailCode.  `by` and `early` are not stored by the code:
\* what was posted to verify the address, and whether it became the primary one
\* before it was verified.
Rows == [id : Ids, uid : Ids, verified : BOOLEAN, primary : BOOLEAN,
         at : Times, by : Posts \cup {None}, early : BOOLEAN]

Reminders == [uid : Ids, at : Times]

Ops   == {"create", "add", "verify", "destroyEmail", "setPrimary", "erase"}
Steps == {"lookup", "clear", "insert", "mail", "undo", "remind", "load",
          "match", "tokens", "apply", "announce", "remove", "promote", "erase"}

\* `address` is the one a request is about, or the one its link was sent to;
\* `row` the record it read or inserted.
JobRecords == [op : Ops, pc : Steps, address : Addresses \cup {None},
               uid : Ids \cup {0}, post : Posts \cup {None},
               row : Rows \cup {None}]
ASSUME RecordAssumption == None \notin Rows \cup Posts \cup JobRecords

Request(op, pc, address, uid) ==
  [op |-> op, pc |-> pc, address |-> address, uid |-> uid, post |-> None,
   row |-> None]

TypeOK ==
  /\ emails \in [Addresses -> Rows \cup {None}]
  /\ signins \subseteq Ids
  /\ mail \subseteq Links
  /\ reminders \in [Keys -> SUBSET Reminders]
  /\ announced \subseteq Ids
  /\ job \in [Jobs -> JobRecords \cup {None}]
  /\ clock \in Times
  /\ drawn \in 0..MaxIds
  /\ faults \in 0..MaxFaults

EInit ==
  /\ emails = [a \in Addresses |-> None]
  /\ signins = {}
  /\ mail = {}
  /\ reminders = [k \in Keys |-> {}]
  /\ announced = {}
  /\ job = [j \in Jobs |-> None]
  /\ clock = 0
  /\ drawn = 0
  /\ faults = 0

-----------------------------------------------------------------------------
(* What the actions share.                                                 *)

Stored == {a \in Addresses : emails[a] # None}
Of(uid) == {a \in Stored : emails[a].uid = uid}
PrimaryOf(uid) == {a \in Of(uid) : emails[a].primary}
Accounts == {emails[a].uid : a \in {b \in Stored : emails[b].primary}}
IsVerified(uid) == \E a \in PrimaryOf(uid) : emails[a].verified

Begin(j, request) ==
  /\ job[j] = None
  /\ job' = [job EXCEPT ![j] = request]
  /\ UNCHANGED <<emails, signins, mail, reminders, announced, clock, drawn, faults>>

At(j, step) == job[j] # None /\ job[j].pc = step
Continue(j, step, row) ==
  job' = [job EXCEPT ![j].pc = step, ![j].row = row]
Goto(j, step) == job' = [job EXCEPT ![j].pc = step]
End(j) == job' = [job EXCEPT ![j] = None]
Other == <<clock, drawn, faults>>

\* pool.del of /account/:uid, which takes everything of the account with it.
DeleteAccount(uid) ==
  /\ emails' = [a \in Addresses |-> IF a \in Of(uid) THEN None ELSE emails[a]]
  /\ signins' = signins \ {uid}

\* pool.del of /account/:uid/emails/:email: a primary address is refused.
MayDelete(uid, a) == a \in Of(uid) /\ ~emails[a].primary
DeleteEmail(uid, a) ==
  emails' = IF MayDelete(uid, a) THEN [emails EXCEPT ![a] = None] ELSE emails

-----------------------------------------------------------------------------
(* Requests that want an address.                                          *)

StartCreate(j) ==
  \E a \in Addresses : Begin(j, Request("create", "lookup", a, 0))

\* POST /recovery_email, by a session of a verified account.
StartAdd(j) ==
  \E uid \in Accounts, a \in Addresses :
    /\ IsVerified(uid)
    /\ a \notin PrimaryOf(uid)
    /\ Begin(j, Request("add", "lookup", a, uid))

StartSetPrimary(j) ==
  \E uid \in Accounts, a \in Addresses :
    /\ IsVerified(uid)
    /\ Begin(j, Request("setPrimary", "lookup", a, uid))

\* Mutant: a verified secondary address gives way, too.
MutantMayClear(r, row) ==
  /\ row.verified => ~row.primary
  /\ r.op = "add" => IF row.primary THEN clock - row.at >= MinUnverified
                                    ELSE row.uid # r.uid

\* An account that nobody verified gives way to whoever creates one; but to an
\* account that wants the address as a second one, only with time.
MayClear(r, row) ==
  /\ ~row.verified
  /\ r.op = "add" => IF row.primary THEN clock - row.at >= MinUnverified
                                    ELSE row.uid # r.uid

\* What db.getSecondaryEmail finds, which looks at primary addresses as well.
Verdict(r, row) ==
  IF row = None THEN "insert"
  ELSE IF MayClear(r, row) THEN "clear"
  ELSE IF r.op = "add" /\ ~row.primary THEN "insert"
  ELSE "refused"

Lookup(j) ==
  LET r == job[j]
      row == emails[r.address]
  IN  /\ At(j, "lookup")
      /\ r.op \in {"create", "add"}
      /\ IF Verdict(r, row) = "refused"
         THEN End(j)
         ELSE Continue(j, Verdict(r, row), row)
      /\ UNCHANGED <<tables, Other>>

\* The same for an address that is to become the primary one.
LookupOwn(j) ==
  LET r == job[j]
      row == emails[r.address]
  IN  /\ At(j, "lookup")
      /\ r.op = "setPrimary"
      /\ IF row # None /\ row.uid = r.uid /\ row.verified /\ ~row.primary
         THEN Goto(j, "promote") ELSE End(j)
      /\ UNCHANGED <<tables, Other>>

\* deleteAccountIfUnverified, with the record as it was read.
Clear(j) ==
  LET r == job[j]
  IN  /\ At(j, "clear")
      /\ IF r.row.primary
         THEN DeleteAccount(r.row.uid)
         ELSE DeleteEmail(r.row.uid, r.address) /\ UNCHANGED signins
      /\ Goto(j, "insert")
      /\ UNCHANGED <<mail, reminders, announced, Other>>

\* The row of a new address; an account is named by that of its first.
NewRow(r) ==
  [id |-> drawn + 1, uid |-> IF r.op = "create" THEN drawn + 1 ELSE r.uid,
   verified |-> FALSE, primary |-> r.op = "create", at |-> clock, by |-> None,
   early |-> FALSE]

\* db.createAccount, db.createEmail: an address is stored once.
Insert(j) ==
  LET r == job[j]
      row == NewRow(r)
  IN  /\ At(j, "insert")
      /\ \/ /\ emails[r.address] = None
            /\ drawn < MaxIds
            /\ drawn' = drawn + 1
            /\ emails' = [emails EXCEPT ![r.address] = row]
            /\ Continue(j, "mail", row)
         \/ /\ emails[r.address] # None
            /\ End(j)
            /\ UNCHANGED <<emails, drawn>>
      /\ UNCHANGED <<signins, mail, reminders, announced, clock, faults>>

Link(a, uid, kind, id) ==
  [to |-> a, uid |-> uid, code |-> [kind |-> kind, id |-> id],
   primary |-> a \in PrimaryOf(uid)]

\* sendVerifyCode, sendVerifySecondaryEmail.
Mail(j) ==
  LET r == job[j]
  IN  /\ At(j, "mail")
      /\ mail' = mail \cup {Link(r.address, r.row.uid, "email", r.row.id)}
      /\ IF r.op = "create" THEN Goto(j, "remind") ELSE End(j)
      /\ UNCHANGED <<emails, signins, reminders, announced, Other>>

\* The mailer refuses the address, or fails: an account stays, an address is
\* taken back.
MailFails(j) ==
  /\ At(j, "mail")
  /\ IF job[j].op = "create" THEN End(j) ELSE Goto(j, "undo")
  /\ UNCHANGED <<tables, Other>>

Undo(j) ==
  /\ At(j, "undo")
  /\ DeleteEmail(job[j].uid, job[j].address)
  /\ End(j)
  /\ UNCHANGED <<signins, mail, reminders, announced, Other>>

\* verificationReminders.create: one zadd per key, at the same time.
Enrolled(uid, at, keys) ==
  [k \in Keys |-> IF k \in keys THEN reminders[k] \cup {[uid |-> uid, at |-> at]}
                                ELSE reminders[k]]
Remind(j) ==
  /\ At(j, "remind")
  /\ reminders' = Enrolled(job[j].row.uid, clock, Keys)
  /\ End(j)
  /\ UNCHANGED <<emails, signins, mail, announced, Other>>

-----------------------------------------------------------------------------
(* Links, and what following one does.                                     *)

\* A login to an account that is not verified; the link it mails carries the
\* tokenVerificationId of the new session.
Signin(uid) ==
  /\ ~IsVerified(uid)
  /\ signins' = signins \cup {uid}
  /\ \E a \in PrimaryOf(uid) :
       mail' = mail \cup {Link(a, uid, "signin", uid)}
  /\ UNCHANGED <<emails, reminders, announced, job, Other>>

\* Who is mailed beside the primary address p: the verified ones, once p is.
VerifiedOf(uid, p) == {a \in Of(uid) : emails[p].verified /\ emails[a].verified}

\* POST /recovery_email/resend_code for an address of the account, whichever
\* it is and whether it is verified or not: the mail goes to that address or,
\* with type `upgradeSession`, to the primary one.  Or for the session itself.
Resend(uid) ==
  \E p \in PrimaryOf(uid) :
    /\ \/ \E a \in Of(uid) : \E to \in {a, p} :
            mail' = mail \cup {Link(to, uid, "email", emails[a].id)}
       \/ /\ uid \in signins
          /\ \E to \in {{p}, {p} \cup VerifiedOf(uid, p)} :
               mail' = mail \cup {Link(a, uid, "signin", uid) : a \in to}
    /\ UNCHANGED <<emails, signins, reminders, announced, job, Other>>

\* POST /recovery_email/verify_code, by whoever received a link.
StartVerify(j) ==
  \E m \in mail, type \in {"secondary", "other"} :
    Begin(j, [Request("verify", "load", m.to, m.uid)
                EXCEPT !.post = [link |-> m, type |-> type]])

\* db.account.
LoadAccount(j) ==
  LET r == job[j]
  IN  /\ At(j, "load")
      /\ \/ PrimaryOf(r.uid) = {} /\ End(j)
         \/ \E a \in PrimaryOf(r.uid) :
              Continue(j, IF r.op = "destroyEmail" THEN "remove"
                          ELSE IF r.post.type = "secondary" THEN "match"
                          ELSE "tokens", emails[a])
      /\ UNCHANGED <<tables, Other>>

\* Posted as `secondary`, a link verifies the address whose code it carries.
MatchSecondary(j) ==
  LET r == job[j]
      matches == {a \in Of(r.uid) : r.post.link.code = [kind |-> "email", id |-> emails[a].id]}
  IN  /\ At(j, "match")
      /\ \/ /\ \A a \in matches : emails[a].verified
            /\ End(j)
         \/ \E a \in matches :
              /\ ~emails[a].verified
              /\ Continue(j, "apply", emails[a])
      /\ UNCHANGED <<tables, Other>>

\* Otherwise it verifies the account: its code is that of the account, or of
\* a session that is verified by it (db.verifyTokens).
Matches(r) ==
  \/ r.post.link.code = [kind |-> "email", id |-> r.row.id]
  \/ r.post.link.code.kind = "signin" /\ r.uid \in signins

VerifyTokens(j) ==
  LET r == job[j]
  IN  /\ At(j, "tokens")
      /\ signins' = IF r.post.link.code.kind = "signin" THEN signins \ {r.uid} ELSE signins
      /\ IF Matches(r) /\ ~r.row.verified THEN Goto(j, "apply") ELSE End(j)
      /\ UNCHANGED <<emails, mail, reminders, announced, Other>>

\* Mutant: all addresses of the account are verified, whatever their codes.
MutantVerifyEmail(j) ==
  LET r == job[j]
  IN  /\ At(j, "apply")
      /\ emails' = [a \in Addresses |->
           IF a \in Of(r.uid) /\ ~emails[a].verified
           THEN [emails[a] EXCEPT !.verified = TRUE, !.by = r.post]
           ELSE emails[a]]
      /\ IF r.post.type = "secondary" THEN End(j) ELSE Goto(j, "announce")
      /\ UNCHANGED <<signins, mail, reminders, announced, Other>>

\* Mutant: only the account's own code is followed by the `verified` event.
MutantVerifyEmailSilently(j) ==
  LET r == job[j]
  IN  /\ At(j, "apply")
      /\ emails' = [a \in Addresses |->
           IF a \in Of(r.uid) /\ emails[a].id = r.row.id /\ ~emails[a].verified
           THEN [emails[a] EXCEPT !.verified = TRUE, !.by = r.post]
           ELSE emails[a]]
      /\ IF r.post.type = "secondary" \/ r.post.link.code.kind = "signin"
         THEN End(j) ELSE Goto(j, "announce")
      /\ UNCHANGED <<signins, mail, reminders, announced, Other>>

\* db.verifyEmail: a row that is gone is no error.
VerifyEmail(j) ==
  LET r == job[j]
  IN  /\ At(j, "apply")
      /\ emails' = [a \in Addresses |->
           IF a \in Of(r.uid) /\ emails[a].id = r.row.id /\ ~emails[a].verified
           THEN [emails[a] EXCEPT !.verified = TRUE, !.by = r.post]
           ELSE emails[a]]
      /\ IF r.post.type = "secondary" THEN End(j) ELSE Goto(j, "announce")
      /\ UNCHANGED <<signins, mail, reminders, announced, Other>>

\* notifyAttachedServices and verificationReminders.delete, at the same time.
Discharged(uid, keys) ==
  [k \in Keys |-> IF k \in keys THEN {e \in reminders[k] : e.uid # uid}
                                ELSE reminders[k]]
Announce(j) ==
  /\ At(j, "announce")
  /\ announced' = announced \cup {job[j].uid}
  /\ reminders' = Discharged(job[j].uid, Keys)
  /\ End(j)
  /\ UNCHANGED <<emails, signins, mail, Other>>

-----------------------------------------------------------------------------
(* Requests that remove or promote an address, and bounces.                *)

StartDestroyEmail(j) ==
  \E uid \in Accounts, a \in Addresses :
    /\ IsVerified(uid)
    /\ Begin(j, Request("destroyEmail", "load", a, uid))

RemoveEmail(j) ==
  /\ At(j, "remove")
  /\ DeleteEmail(job[j].uid, job[j].address)
  /\ End(j)
  /\ UNCHANGED <<signins, mail, reminders, announced, Other>>

\* db.setPrimaryEmail, which relies on the caller to have seen that the address
\* is verified.
Promote(j) ==
  LET r == job[j]
  IN  /\ At(j, "promote")
      /\ emails' = IF r.address \in Of(r.uid)
           THEN [a \in Addresses |-> IF a \in Of(r.uid)
                   THEN [emails[a] EXCEPT
                           !.primary = (a = r.address),
                           !.early = @ \/ (a = r.address /\ ~emails[a].verified)]
                   ELSE emails[a]]
           ELSE emails
      /\ End(j)
      /\ UNCHANGED <<signins, mail, reminders, announced, Other>>

\* /account/destroy, which found the account and checked its password.
StartDestroyAccount(j) ==
  \E uid \in Accounts : Begin(j, Request("erase", "erase", None, uid))

\* A mail bounced: handleBounce reads the account that has the address, and
\* erases it if it is new and not verified.
ShouldErase(row) == ~row.verified /\ clock - row.at < BounceWindow

Bounce(j) ==
  \E m \in mail :
    /\ m.to \in Stored
    /\ \E a \in PrimaryOf(emails[m.to].uid) :
         /\ ShouldErase(emails[a])
         /\ Begin(j, [Request("erase", "erase", m.to, emails[a].uid)
                       EXCEPT !.row = emails[a]])

\* db.deleteAccount.
Erase(j) ==
  /\ At(j, "erase")
  /\ DeleteAccount(job[j].uid)
  /\ End(j)
  /\ UNCHANGED <<mail, reminders, announced, Other>>

-----------------------------------------------------------------------------
Tick ==
  /\ clock < MaxClock
  /\ clock' = clock + 1
  /\ UNCHANGED <<tables, job, drawn, faults>>

\* A call fails, and with it the request; of calls that are made at the same
\* time some may have taken effect.
Fail(j) ==
  /\ faults < MaxFaults
  /\ job[j] # None
  /\ faults' = faults + 1
  /\ End(j)
  /\ \/ UNCHANGED <<reminders, announced>>
     \/ /\ At(j, "remind")
        /\ \E keys \in SUBSET Keys :
             reminders' = Enrolled(job[j].row.uid, clock, keys)
        /\ UNCHANGED announced
     \/ /\ At(j, "announce")
        /\ \E keys \in SUBSET Keys : reminders' = Discharged(job[j].uid, keys)
        /\ announced' \in {announced, announced \cup {job[j].uid}}
  /\ UNCHANGED <<emails, signins, mail, clock, drawn>>

Start(j) ==
  \/ StartCreate(j) \/ StartAdd(j) \/ StartSetPrimary(j) \/ StartVerify(j)
  \/ StartDestroyEmail(j) \/ StartDestroyAccount(j) \/ Bounce(j)

Step(j) ==
  \/ Lookup(j) \/ LookupOwn(j) \/ Clear(j) \/ Insert(j) \/ Mail(j)
  \/ MailFails(j) \/ Undo(j) \/ Remind(j) \/ LoadAccount(j)
  \/ MatchSecondary(j) \/ VerifyTokens(j) \/ VerifyEmail(j) \/ Announce(j)
  \/ RemoveEmail(j) \/ Promote(j) \/ Erase(j)

ENext ==
  \/ \E j \in Jobs : Start(j) \/ Step(j) \/ Fail(j)
  \/ \E uid \in Accounts : Signin(uid) \/ Resend(uid)
  \/ Tick

ESpec == EInit /\ [][ENext]_evars

-----------------------------------------------------------------------------
(* Properties.                                                             *)

\* An address is verified only by a link that was sent to it, or by one with
\* its own code that was sent to the primary address of the account: a link sent
\* to a secondary address verifies no other, however links, sessions, accounts
\* and types of posts are mixed, unless the address was made the primary one
\* before (emails.js /recovery_email/verify_code, /recovery_email/resend_code).
Proves(m, a, id) ==
  m.to = a \/ (m.primary /\ m.code = [kind |-> "email", id |-> id])
VerifiedByOwnOrPrimaryLink ==
  \A a \in Stored :
    emails[a].verified => emails[a].early \/ Proves(emails[a].by.link, a, emails[a].id)

\* No address was made a primary one before it was verified: "This email address
\* must belong to the user and be verified" (docs/api.md POST
\* /recovery_email/set_primary).
PromotedAreVerified == \A a \in Stored : ~emails[a].early

\* A verified address is given up only by a request of its own account: what
\* clears an address away for another, or after a bounce, is for addresses
\* that nobody verified (bounces.js deleteAccountIfUnverifiedNew, account.js
\* and emails.js deleteAccountIfUnverified).
KeepsVerified ==
  \A a \in Stored : emails[a].verified =>
    \/ emails'[a] # None /\ emails'[a].id = emails[a].id /\ emails'[a].verified
    \/ \E j \in Jobs :
         /\ job'[j] # job[j]
         /\ job[j].op \in {"destroyEmail", "erase"}
         /\ job[j].uid = emails[a].uid
         /\ job[j].row = None \/ job[j].op = "destroyEmail"

\* Once all is quiet, the attached services have been sent the `verified` event
\* of every account whose first address is verified, unless a call failed or that
\* address was verified as if it were a second one, by a post of that type
\* (emails.js /recovery_email/verify_code).
Silently(row) == row.by.type = "secondary"
VerifiedAreAnnounced ==
  (\A j \in Jobs : job[j] = None) /\ faults = 0 =>
    \A a \in Stored : emails[a].id = emails[a].uid /\ emails[a].verified =>
      emails[a].uid \in announced \/ Silently(emails[a])
=============================================================================
