------------------------- MODULE AccountEmailsProofs -------------------------
(***************************************************************************)
(* Theorems about AccountEmails and VerificationReminders: the addresses   *)
(* of an account, the links that verify them, and the reminders of         *)
(* accounts that are not verified, whatever the requests that overlap and  *)
(* whichever of their calls fail, beside the script that sends reminders.  *)
(***************************************************************************)
EXTENDS VerificationReminders, TLAPS

-----------------------------------------------------------------------------
(* What the rows, the links and the requests may rely on.                  *)

\* The address that an account was created with.
Original(row) == row.id = row.uid
Drawn(row) == row.id <= drawn /\ row.uid <= drawn

\* An account has one primary address.
OnePrimary ==
  \A a, b \in Stored :
    emails[a].primary /\ emails[b].primary /\ emails[a].uid = emails[b].uid => a = b

\* A row has an id of its own; an address that is primary and not verified was
\* promoted too early, unless it is the first, which stays primary until then.
RowsOK ==
  /\ \A a, b \in Stored : emails[a].id = emails[b].id => a = b
  /\ \A a \in Stored : Drawn(emails[a])
  /\ \A a \in Stored : emails[a].primary /\ ~emails[a].verified =>
       emails[a].early \/ Original(emails[a])
  /\ \A a \in Stored : Original(emails[a]) /\ ~emails[a].verified => emails[a].primary

\* A link leads to the address of the row whose code it carries, unless it was
\* sent to the primary one; or to the address of an account that was not verified.
LinkOK(m) ==
  /\ m.uid <= drawn /\ m.code.id <= drawn
  /\ m.code.kind = "email" =>
       \A a \in Stored : emails[a].id = m.code.id => a = m.to \/ m.primary
  /\ m.code.kind = "signin" =>
       \A a \in Stored : emails[a].uid = m.uid /\ Original(emails[a]) /\ ~emails[a].verified
            => a = m.to
LinksOK == \A m \in mail : LinkOK(m)

\* The `verified` event of an account was sent, or will be.
Confirmed(uid) ==
  \/ uid \in announced
  \/ \E j \in Jobs : At(j, "announce") /\ job[j].uid = uid
  \/ faults > 0
AllConfirmed ==
  \A a \in Stored :
    Original(emails[a]) /\ emails[a].verified => Confirmed(emails[a].uid) \/ Silently(emails[a])

\* Where a request may be, and what it has by then.
JobShape(r) ==
  /\ r.op = "create" => r.pc \in {"lookup", "clear", "insert", "mail", "remind"}
  /\ r.op = "add" => r.pc \in {"lookup", "clear", "insert", "mail", "undo"}
  /\ r.op = "setPrimary" => r.pc \in {"lookup", "promote"}
  /\ r.op = "verify" =>
       /\ r.pc \in {"load", "match", "tokens", "apply", "announce"}
       /\ r.post \in Posts /\ r.post.link.to = r.address /\ r.post.link.uid = r.uid
  /\ r.op = "destroyEmail" => r.pc \in {"load", "remove"}
  /\ r.op = "erase" => r.pc = "erase"
  /\ r.op # "create" => r.uid \in Ids
  /\ r.op # "erase" => r.address \in Addresses
  /\ r.pc \in {"clear", "mail", "remind", "tokens", "apply"} => r.row \in Rows
  /\ r.op = "create" /\ r.pc \in {"mail", "remind"} => Original(r.row)

\* A request goes on with the row it read or inserted, and with a link.
JobFacts(j) ==
  LET r == job[j]
  IN  /\ r.uid <= drawn
      /\ r.row # None => Drawn(r.row)
      /\ r.op = "verify" => r.post.link \in mail
      /\ r.pc = "mail" => \A a \in Stored : emails[a].id = r.row.id => a = r.address
      /\ r.pc = "tokens" =>
           /\ r.row.verified \/ r.row.early \/ r.row.id = r.uid
           /\ \A a \in Stored : emails[a].id = r.row.id /\ r.row.early => emails[a].early
      /\ r.pc = "apply" =>
           \A a \in Stored : emails[a].id = r.row.id /\ emails[a].uid = r.uid
              /\ ~emails[a].verified => emails[a].early \/ Proves(r.post.link, a, emails[a].id)
      /\ r.op = "setPrimary" =>
           \A a \in Stored : emails[a].uid = r.uid /\ Original(emails[a]) => emails[a].verified
JobsOK == \A j \in Jobs : job[j] # None => JobShape(job[j]) /\ JobFacts(j)

EInv ==
  /\ TypeOK
  /\ RowsOK /\ LinksOK /\ JobsOK
  /\ OnePrimary /\ VerifiedByOwnOrPrimaryLink /\ AllConfirmed

-----------------------------------------------------------------------------
(* The reminders of an account.                                            *)

Held == IF hand = None THEN {} ELSE {hand.reminder}

\* Where the reminders of key k are.
Waiting(k) ==
  reminders[k] \cup batch[k] \cup (IF phase.key = k THEN failed \cup Held ELSE {})

\* An account that is being created has no reminders yet.
Creating(j, uid) ==
  job[j] # None /\ job[j].op = "create" /\ job[j].pc \in {"mail", "remind"} /\ job[j].row.uid = uid
Unborn(k, uid) == mailed[k][uid] = doubted[k][uid] /\ \A e \in Waiting(k) : e.uid # uid

ScriptOK ==
  /\ phase.name = "idle" <=> phase.key = 0
  /\ phase.name \in {"idle", "pop"} => failed = {}
  /\ hand # None <=> phase.name = "send"
  /\ \A k \in Keys : batch[k] \cap reminders[k] = {}
  /\ phase.key \in Keys =>
       /\ batch[phase.key] \cap (failed \cup Held) = {}
       /\ Held \cap (reminders[phase.key] \cup failed) = {}

RemindersOK ==
  /\ \A k \in Keys : \A e, f \in Waiting(k) : e.uid = f.uid => e = f
  /\ \A k \in Keys : \A e \in Waiting(k) : mailed[k][e.uid] = doubted[k][e.uid] /\ e.uid <= drawn
  /\ \A k \in Keys, uid \in Ids : uid > drawn => mailed[k][uid] = doubted[k][uid]
  /\ \A j \in Jobs, uid \in Ids : Creating(j, uid) => \A k \in Keys : Unborn(k, uid)
  /\ \A i, j \in Jobs, uid \in Ids : Creating(i, uid) /\ Creating(j, uid) => i = j

RInv == RTypeOK /\ ScriptOK /\ RemindersOK /\ RemindedOnce

-----------------------------------------------------------------------------
(* Steps in general.                                                       *)

LEMMA JobIs ==
  ASSUME EInv, NEW j \in Jobs, job[j] # None
  PROVE  /\ job[j] \in JobRecords /\ JobShape(job[j]) /\ JobFacts(j)
         /\ job[j].op \in Ops /\ job[j].pc \in Steps
         /\ job[j].address \in Addresses \cup {None} /\ job[j].uid \in Ids \cup {0}
         /\ job[j].post \in Posts \cup {None} /\ job[j].row \in Rows \cup {None}
<1>1. job[j] \in JobRecords
  BY DEF EInv, TypeOK
<1> QED
  BY <1>1 DEF JobRecords, EInv, JobsOK

LEMMA RowIs ==
  ASSUME NEW row \in Rows
  PROVE  /\ row.id \in Nat /\ row.uid \in Nat /\ row.id \in Ids /\ row.uid \in Ids
         /\ row.verified \in BOOLEAN /\ row.primary \in BOOLEAN /\ row.early \in BOOLEAN
         /\ row.at \in Times /\ row.by \in Posts \cup {None} /\ row # None
BY ConstantsAssumption, RecordAssumption DEF Rows, Ids

LEMMA StoredIs ==
  ASSUME EInv, NEW a \in Stored
  PROVE  a \in Addresses /\ emails[a] \in Rows /\ emails[a] # None
BY DEF Stored, EInv, TypeOK

LEMMA DrawnIs == ASSUME EInv PROVE drawn \in Nat /\ drawn <= MaxIds /\ faults \in Nat
BY ConstantsAssumption DEF EInv, TypeOK

\* Nothing is taken back: rows keep their names, and stay verified.
Later ==
  /\ drawn' \in Nat /\ drawn <= drawn'
  /\ mail \subseteq mail'
  /\ \A a \in Stored' :
       \/ /\ a \in Stored
          /\ emails'[a].id = emails[a].id /\ emails'[a].uid = emails[a].uid
          /\ emails[a].verified => emails'[a].verified
          /\ emails[a].early => emails'[a].early
       \/ emails'[a].id \in Nat /\ emails'[a].id > drawn

\* Request r, or nobody, takes a step.
Moves(r) ==
  /\ job' \in [Jobs -> JobRecords \cup {None}]
  /\ \A q \in Jobs : q # r => job'[q] = job[q]

\* An account that r is about to announce is announced by that step.
Announces(r) ==
  /\ announced \subseteq announced' /\ faults' \in Nat /\ faults <= faults'
  /\ r \in Jobs /\ At(r, "announce") =>
       \/ At(r, "announce")' /\ job'[r].uid = job[r].uid
       \/ job[r].uid \in announced'
       \/ faults' > 0

LEMMA ConfirmedStays ==
  ASSUME EInv, NEW r, Moves(r), Announces(r), NEW u, Confirmed(u)
  PROVE  Confirmed(u)'
<1>1. CASE u \in announced
  BY <1>1 DEF Announces, Confirmed
<1>2. CASE faults > 0
  BY <1>2, DrawnIs DEF Announces, Confirmed
<1>3. ASSUME NEW j \in Jobs, At(j, "announce"), job[j].uid = u PROVE Confirmed(u)'
  <2>1. CASE j = r
    BY <1>3, <2>1 DEF Announces, Confirmed
  <2>2. CASE j # r
    BY <1>3, <2>2 DEF Moves, At, Confirmed
  <2> QED
    BY <2>1, <2>2
<1> QED
  BY <1>1, <1>2, <1>3 DEF Confirmed

LEMMA LinksStay ==
  ASSUME EInv, Later, NEW m \in mail
  PROVE  LinkOK(m)'
<1>1. LinkOK(m) /\ m \in Links
  BY DEF EInv, LinksOK, TypeOK
<1>2. m.uid \in Nat /\ m.code.id \in Nat
  BY <1>1, ConstantsAssumption DEF Links, Codes, Ids
<1>3. m.uid <= drawn' /\ m.code.id <= drawn'
  BY <1>1, <1>2, DrawnIs DEF LinkOK, Later
<1>4. ASSUME NEW a \in Stored', m.code.kind = "email", emails'[a].id = m.code.id
      PROVE  a = m.to \/ m.primary
  <2>1. ~(emails'[a].id > drawn)
    BY <1>1, <1>2, <1>4, DrawnIs DEF LinkOK
  <2>2. a \in Stored /\ emails'[a].id = emails[a].id
    BY <2>1 DEF Later
  <2> QED
    BY <1>1, <1>4, <2>2 DEF LinkOK
<1>5. ASSUME NEW a \in Stored', m.code.kind = "signin", emails'[a].uid = m.uid,
             Original(emails'[a]), ~emails'[a].verified
      PROVE  a = m.to
  <2>1. ~(emails'[a].id > drawn)
    BY <1>1, <1>2, <1>5, DrawnIs DEF LinkOK, Original
  <2>2. a \in Stored /\ emails'[a].id = emails[a].id /\ emails'[a].uid = emails[a].uid
        /\ ~emails[a].verified
    BY <1>5, <2>1 DEF Later
  <2> QED
    BY <1>1, <1>5, <2>2 DEF LinkOK, Original
<1> QED
  BY <1>1, <1>3, <1>4, <1>5 DEF LinkOK

LEMMA JobsStay ==
  ASSUME EInv, NEW r, Moves(r), Announces(r), Later,
         r \in Jobs /\ job'[r] # None => JobShape(job'[r]) /\ JobFacts(r)'
  PROVE  JobsOK'
<1> SUFFICES ASSUME NEW q \in Jobs, job'[q] # None PROVE JobShape(job'[q]) /\ JobFacts(q)'
  BY DEF JobsOK
<1>1. CASE q = r
  BY <1>1
<1>2. CASE q # r
  <2>1. job'[q] = job[q] /\ job[q] # None
    BY <1>2 DEF Moves
  <2>2. JobShape(job[q]) /\ JobFacts(q)
    BY <2>1, JobIs
  <2> DEFINE b == job[q]
  <2>3. b.uid \in Nat /\ (b.row # None => b.row.id \in Nat /\ b.row.uid \in Nat)
    BY <2>1, JobIs, RowIs DEF Ids
  <2>4. b.row # None \/ b.pc \notin {"mail", "tokens", "apply"}
    BY <2>2, RecordAssumption DEF JobShape
  <2>5. \A a \in Stored' : emails'[a].id <= drawn => a \in Stored
          /\ emails'[a].id = emails[a].id /\ emails'[a].uid = emails[a].uid
          /\ (emails[a].verified => emails'[a].verified)
          /\ (emails[a].early => emails'[a].early)
    BY DrawnIs DEF Later
  <2>6. b.uid <= drawn' /\ (b.row # None => b.row.id <= drawn' /\ b.row.uid <= drawn')
    BY <2>2, <2>3, DrawnIs DEF JobFacts, Drawn, Later
  <2>7. b.op = "verify" => b.post.link \in mail'
    BY <2>2 DEF JobFacts, Later
  <2>8. b.pc = "mail" => \A a \in Stored' : emails'[a].id = b.row.id => a = b.address
    BY <2>2, <2>4, <2>5 DEF JobFacts, Drawn
  <2>9. b.pc = "tokens" =>
           /\ b.row.verified \/ b.row.early \/ b.row.id = b.uid
           /\ \A a \in Stored' : emails'[a].id = b.row.id /\ b.row.early => emails'[a].early
    BY <2>2, <2>4, <2>5 DEF JobFacts, Drawn
  <2>10. b.pc = "apply" =>
           \A a \in Stored' : emails'[a].id = b.row.id /\ emails'[a].uid = b.uid
              /\ ~emails'[a].verified => emails'[a].early \/ Proves(b.post.link, a, emails'[a].id)
    BY <2>2, <2>4, <2>5 DEF JobFacts, Drawn, Proves
  <2>11. ASSUME b.op = "setPrimary"
         PROVE \A a \in Stored' : emails'[a].uid = b.uid /\ Original(emails'[a]) => emails'[a].verified
    BY <2>2, <2>5, <2>11 DEF JobFacts, Original
  <2> HIDE DEF b
  <2>14. job'[q] = b
    BY <2>1 DEF b
  <2> QED
    BY <2>2, <2>6, <2>7, <2>8, <2>9, <2>10, <2>11, <2>14 DEF JobFacts, Drawn, Proves, b
<1> QED
  BY <1>1, <1>2

\* A step of request r, or of nobody, keeps the invariant if the rows, the links
\* that it adds and the request itself are as they should be after it.
LEMMA StepKeeps ==
  ASSUME EInv, NEW r, Moves(r), Announces(r), Later,
         r \in Jobs /\ job'[r] # None => JobShape(job'[r]) /\ JobFacts(r)',
         emails' \in [Addresses -> Rows \cup {None}], signins' \subseteq Ids,
         mail' \subseteq Links, reminders' \in [Keys -> SUBSET Reminders],
         announced' \subseteq Ids, clock' \in Times, drawn' \in 0..MaxIds,
         faults' \in 0..MaxFaults,
         \A m \in mail' \ mail : LinkOK(m)',
         RowsOK', OnePrimary', VerifiedByOwnOrPrimaryLink',
         \A a \in Stored', u \in Ids :
           emails'[a].uid = u /\ Original(emails'[a]) /\ emails'[a].verified
             => Silently(emails'[a]) \/ Confirmed(u) \/ Confirmed(u)'
  PROVE  EInv'
<1>1. JobsOK'
  BY JobsStay
<1>2. LinksOK'
  BY LinksStay DEF LinksOK
<1>3. TypeOK'
  BY DEF Moves, TypeOK
<1>4. AllConfirmed'
  <2> SUFFICES ASSUME NEW a \in Stored', Original(emails'[a]), emails'[a].verified,
                      ~Silently(emails'[a]), NEW u, u = emails'[a].uid
               PROVE  Confirmed(u)'
    BY DEF AllConfirmed, Confirmed, Silently
  <2>1. emails'[a] \in Rows
    BY DEF Stored
  <2>2. Confirmed(u) \/ Confirmed(u)'
    BY <2>1, RowIs
  <2> QED
    BY <2>2, ConfirmedStays
<1> QED
  BY <1>1, <1>2, <1>3, <1>4 DEF EInv

\* What is confirmed of a row that stays as it was.
LEMMA WasConfirmed ==
  ASSUME EInv, NEW a \in Stored, NEW u, emails[a].uid = u, Original(emails[a]),
         emails[a].verified
  PROVE  Silently(emails[a]) \/ Confirmed(u)
BY DEF EInv, AllConfirmed, Confirmed

LEMMA RowsAre ==
  ASSUME EInv, UNCHANGED <<emails, drawn>>
  PROVE  /\ RowsOK' /\ OnePrimary' /\ VerifiedByOwnOrPrimaryLink'
         /\ \A a \in Stored', u \in Ids :
              emails'[a].uid = u /\ Original(emails'[a]) /\ emails'[a].verified
                => Silently(emails'[a]) \/ Confirmed(u)
         /\ mail \subseteq mail' => Later
<1>1. \A a \in Stored', u \in Ids :
        emails'[a].uid = u /\ Original(emails'[a]) /\ emails'[a].verified
          => Silently(emails'[a]) \/ Confirmed(u)
  BY WasConfirmed DEF Stored
<1>2. mail \subseteq mail' => Later
  BY DrawnIs DEF Later, Stored
<1>3. RowsOK' /\ OnePrimary' /\ VerifiedByOwnOrPrimaryLink'
  BY DEF EInv, RowsOK, OnePrimary, VerifiedByOwnOrPrimaryLink, Proves, Stored, Drawn
<1> QED
  BY <1>1, <1>2, <1>3

\* A step that leaves the rows.
LEMMA QuietStep ==
  ASSUME EInv, NEW r, Moves(r), Announces(r), UNCHANGED <<emails, drawn>>,
         r \in Jobs /\ job'[r] # None => JobShape(job'[r]) /\ JobFacts(r)',
         signins' \subseteq Ids,
         mail \subseteq mail', mail' \subseteq Links, \A m \in mail' \ mail : LinkOK(m),
         reminders' \in [Keys -> SUBSET Reminders],
         announced' \subseteq Ids, clock' \in Times, faults' \in 0..MaxFaults
  PROVE  EInv'
<1>1. \A m \in mail' \ mail : LinkOK(m)'
  BY DEF LinkOK, Stored
<1>2. emails' \in [Addresses -> Rows \cup {None}] /\ drawn' \in 0..MaxIds
  BY DEF EInv, TypeOK
<1> QED
  BY <1>1, <1>2, RowsAre, StepKeeps

\* A step that takes rows away.
LEMMA LossStep ==
  ASSUME EInv, NEW r, Moves(r), Announces(r), UNCHANGED <<mail, reminders, announced, clock, drawn, faults>>,
         r \in Jobs /\ job'[r] # None => JobShape(job'[r]) /\ JobFacts(r)',
         emails' \in [Addresses -> Rows \cup {None}],
         \A a \in Addresses : emails'[a] = emails[a] \/ emails'[a] = None,
         signins' \subseteq Ids
  PROVE  EInv'
<1>1. Stored' \subseteq Stored /\ \A a \in Stored' : emails'[a] = emails[a]
  BY DEF Stored
<1>2. Later
  BY <1>1, DrawnIs DEF Later
<1>3. RowsOK' /\ OnePrimary' /\ VerifiedByOwnOrPrimaryLink'
  BY <1>1 DEF EInv, RowsOK, OnePrimary, VerifiedByOwnOrPrimaryLink, Proves, Drawn
<1>4. \A a \in Stored', u \in Ids :
        emails'[a].uid = u /\ Original(emails'[a]) /\ emails'[a].verified
          => Silently(emails'[a]) \/ Confirmed(u)
  BY <1>1, WasConfirmed
<1>5. /\ mail' \subseteq Links /\ reminders' \in [Keys -> SUBSET Reminders]
      /\ announced' \subseteq Ids /\ clock' \in Times /\ drawn' \in 0..MaxIds
      /\ faults' \in 0..MaxFaults
  BY DEF EInv, TypeOK
<1> QED
  BY <1>2, <1>3, <1>4, <1>5, StepKeeps

\* What becomes of the request that takes a step.
LEMMA BeginStep ==
  ASSUME EInv, NEW r \in Jobs, NEW b \in JobRecords, Begin(r, b)
  PROVE  /\ Moves(r) /\ Announces(r) /\ job'[r] = b
         /\ UNCHANGED <<emails, signins, mail, reminders, announced, clock, drawn, faults>>
<1>1. Moves(r) /\ job'[r] = b /\ job[r] = None
      /\ UNCHANGED <<emails, signins, mail, reminders, announced, clock, drawn, faults>>
  BY DEF Begin, Moves, EInv, TypeOK
<1> QED
  BY <1>1, DrawnIs DEF Announces, At

LEMMA EndStep ==
  ASSUME EInv, NEW r \in Jobs, End(r)
  PROVE  Moves(r) /\ job'[r] = None
BY DEF End, Moves, EInv, TypeOK

LEMMA ContinueStep ==
  ASSUME EInv, NEW r \in Jobs, job[r] # None, NEW pc \in Steps, NEW row \in Rows \cup {None},
         Continue(r, pc, row)
  PROVE  /\ Moves(r) /\ job'[r] \in JobRecords /\ job'[r] # None
         /\ job'[r].op = job[r].op /\ job'[r].pc = pc /\ job'[r].address = job[r].address
         /\ job'[r].uid = job[r].uid /\ job'[r].post = job[r].post /\ job'[r].row = row
<1> DEFINE b == [job[r] EXCEPT !.pc = pc, !.row = row]
<1>1. job[r] \in JobRecords
  BY JobIs
<1>2. b \in JobRecords /\ b.op = job[r].op /\ b.pc = pc /\ b.address = job[r].address
      /\ b.uid = job[r].uid /\ b.post = job[r].post /\ b.row = row
  BY <1>1 DEF JobRecords
<1>3. job' = [job EXCEPT ![r] = b]
  BY DEF Continue
<1>4. b # None
  BY <1>2, RecordAssumption
<1> HIDE DEF b
<1> QED
  BY <1>2, <1>3, <1>4 DEF Moves, EInv, TypeOK

LEMMA GotoStep ==
  ASSUME EInv, NEW r \in Jobs, job[r] # None, NEW pc \in Steps, Goto(r, pc)
  PROVE  /\ Moves(r) /\ job'[r] \in JobRecords /\ job'[r] # None
         /\ job'[r].op = job[r].op /\ job'[r].pc = pc /\ job'[r].address = job[r].address
         /\ job'[r].uid = job[r].uid /\ job'[r].post = job[r].post /\ job'[r].row = job[r].row
<1> DEFINE b == [job[r] EXCEPT !.pc = pc]
<1>1. job[r] \in JobRecords
  BY JobIs
<1>2. b \in JobRecords /\ b.op = job[r].op /\ b.pc = pc /\ b.address = job[r].address
      /\ b.uid = job[r].uid /\ b.post = job[r].post /\ b.row = job[r].row
  BY <1>1 DEF JobRecords
<1>3. job' = [job EXCEPT ![r] = b]
  BY DEF Goto
<1>4. b # None
  BY <1>2, RecordAssumption
<1> HIDE DEF b
<1> QED
  BY <1>2, <1>3, <1>4 DEF Moves, EInv, TypeOK

\* A request that only ends.
LEMMA EndKeeps ==
  ASSUME EInv, NEW r \in Jobs, ~At(r, "announce"), End(r),
         UNCHANGED <<emails, signins, mail, reminders, announced, clock, drawn, faults>>
  PROVE  EInv'
BY EndStep, QuietStep, DrawnIs DEF Announces, EInv, TypeOK

-----------------------------------------------------------------------------
(* Requests that begin.                                                    *)

LEMMA StartKeeps ==
  ASSUME EInv, NEW r \in Jobs, NEW b \in JobRecords, Begin(r, b), JobShape(b),
         b.pc \in {"lookup", "load", "erase"}, b.uid <= drawn,
         b.row # None => Drawn(b.row), b.op = "verify" => b.post.link \in mail,
         b.op = "setPrimary" =>
           \A a \in Stored : emails[a].uid = b.uid /\ Original(emails[a]) => emails[a].verified
  PROVE  EInv'
<1>1. /\ Moves(r) /\ Announces(r) /\ job'[r] = b
      /\ UNCHANGED <<emails, signins, mail, reminders, announced, clock, drawn, faults>>
  BY BeginStep
<1>2. Stored' = Stored
  BY <1>1 DEF Stored
<1>5. JobFacts(r)'
  BY <1>1, <1>2 DEF JobFacts, Drawn
<1> QED
  BY <1>1, <1>5, QuietStep DEF EInv, TypeOK

LEMMA RequestIs ==
  ASSUME NEW op \in Ops, NEW pc \in Steps, NEW a \in Addresses \cup {None},
         NEW uid \in Ids \cup {0}
  PROVE  /\ Request(op, pc, a, uid) \in JobRecords
         /\ Request(op, pc, a, uid).op = op /\ Request(op, pc, a, uid).pc = pc
         /\ Request(op, pc, a, uid).address = a /\ Request(op, pc, a, uid).uid = uid
         /\ Request(op, pc, a, uid).row = None
BY DEF Request, JobRecords

LEMMA AccountIs ==
  ASSUME EInv, NEW uid \in Accounts
  PROVE  uid \in Ids /\ uid <= drawn /\ uid \in Nat
<1>1. PICK a \in Stored : emails[a].uid = uid
  BY DEF Accounts
<1> QED
  BY <1>1, StoredIs, RowIs DEF EInv, RowsOK, Drawn

\* Requests that name no link and no row.
LEMMA PlainStartKeeps ==
  ASSUME EInv, NEW r \in Jobs, NEW op \in {"create", "add", "setPrimary", "destroyEmail", "erase"},
         NEW pc \in {"lookup", "load", "erase"}, NEW a \in Addresses \cup {None},
         NEW uid \in Ids \cup {0}, uid <= drawn, Begin(r, Request(op, pc, a, uid)),
         op = "create" => uid = 0, op # "create" => uid \in Ids,
         op # "erase" => a \in Addresses,
         op \in {"create", "add", "setPrimary"} => pc = "lookup",
         op = "destroyEmail" => pc = "load", op = "erase" => pc = "erase",
         op = "setPrimary" =>
           \A c \in Stored : emails[c].uid = uid /\ Original(emails[c]) => emails[c].verified
  PROVE  EInv'
<1> DEFINE b == Request(op, pc, a, uid)
<1>1. op \in Ops /\ pc \in Steps
  BY DEF Ops, Steps
<1>2. b \in JobRecords /\ b.op = op /\ b.pc = pc /\ b.address = a /\ b.uid = uid /\ b.row = None
  BY <1>1, RequestIs
<1> HIDE DEF b
<1>3. JobShape(b)
  BY <1>2 DEF JobShape
<1>4. Begin(r, b)
  BY DEF b
<1> QED
  BY <1>2, <1>3, <1>4, StartKeeps

\* The first address of an account that is verified is so, too.
LEMMA VerifiedAccount ==
  ASSUME EInv, NEW uid \in Accounts, IsVerified(uid)
  PROVE  \A c \in Stored : emails[c].uid = uid /\ Original(emails[c]) => emails[c].verified
<1>1. PICK a \in Stored : emails[a].uid = uid /\ emails[a].primary /\ emails[a].verified
  BY DEF IsVerified, PrimaryOf, Of
<1> QED
  BY <1>1 DEF EInv, RowsOK, OnePrimary

LEMMA StartsKeep ==
  ASSUME EInv, NEW r \in Jobs,
         \/ StartCreate(r) \/ StartAdd(r) \/ StartSetPrimary(r)
         \/ StartDestroyEmail(r) \/ StartDestroyAccount(r)
  PROVE  EInv'
<1>1. CASE StartCreate(r)
  BY <1>1, PlainStartKeeps, DrawnIs DEF StartCreate
<1>2. CASE StartAdd(r)
  BY <1>2, PlainStartKeeps, AccountIs DEF StartAdd
<1>3. CASE StartSetPrimary(r)
  BY <1>3, PlainStartKeeps, AccountIs, VerifiedAccount DEF StartSetPrimary
<1>4. CASE StartDestroyEmail(r)
  BY <1>4, PlainStartKeeps, AccountIs DEF StartDestroyEmail
<1>5. CASE StartDestroyAccount(r)
  BY <1>5, PlainStartKeeps, AccountIs DEF StartDestroyAccount
<1> QED
  BY <1>1, <1>2, <1>3, <1>4, <1>5

LEMMA StartVerifyKeeps ==
  ASSUME EInv, NEW r \in Jobs, StartVerify(r)
  PROVE  EInv'
<1>1. PICK m \in mail, type \in {"secondary", "other"} :
        Begin(r, [Request("verify", "load", m.to, m.uid)
                    EXCEPT !.post = [link |-> m, type |-> type]])
  BY DEF StartVerify
<1> DEFINE post == [link |-> m, type |-> type]
           b == [Request("verify", "load", m.to, m.uid) EXCEPT !.post = post]
<1>2. m \in Links /\ LinkOK(m) /\ m.to \in Addresses /\ m.uid \in Ids
  BY DEF EInv, TypeOK, LinksOK, Links
<1>3. post \in Posts /\ post.link = m
  BY <1>2 DEF Posts
<1>4. Begin(r, b)
  BY <1>1
<1> HIDE DEF post
<1>5. b \in JobRecords /\ b.op = "verify" /\ b.pc = "load" /\ b.address = m.to /\ b.uid = m.uid
      /\ b.row = None /\ b.post = post
  BY <1>2, <1>3 DEF Request, JobRecords, Ops, Steps
<1> HIDE DEF b
<1>6. JobShape(b) /\ b.uid <= drawn
  BY <1>2, <1>3, <1>5 DEF JobShape, LinkOK
<1> QED
  BY <1>3, <1>4, <1>5, <1>6, StartKeeps

LEMMA BounceKeeps ==
  ASSUME EInv, NEW r \in Jobs, Bounce(r)
  PROVE  EInv'
<1>1. PICK m \in mail, a \in Stored :
        Begin(r, [Request("erase", "erase", m.to, emails[a].uid) EXCEPT !.row = emails[a]])
  BY DEF Bounce, PrimaryOf, Of
<1> DEFINE b == [Request("erase", "erase", m.to, emails[a].uid) EXCEPT !.row = emails[a]]
<1>2. m.to \in Addresses
  BY DEF EInv, TypeOK, Links
<1>3. emails[a] \in Rows /\ emails[a].uid \in Ids /\ Drawn(emails[a])
  BY StoredIs, RowIs DEF EInv, RowsOK
<1>4. b \in JobRecords /\ b.op = "erase" /\ b.pc = "erase" /\ b.address = m.to
      /\ b.uid = emails[a].uid /\ b.row = emails[a]
  BY <1>2, <1>3 DEF Request, JobRecords, Ops, Steps
<1>5. PICK c : c = b
  OBVIOUS
<1>6. Begin(r, c) /\ c \in JobRecords
  BY <1>1, <1>4, <1>5
<1>7. JobShape(c) /\ c.uid <= drawn /\ Drawn(c.row) /\ c.pc = "erase" /\ c.op = "erase"
  BY <1>3, <1>4, <1>5 DEF JobShape, Drawn
<1> QED
  BY <1>6, <1>7, StartKeeps

-----------------------------------------------------------------------------
(* Requests that read.                                                     *)

LEMMA LookupKeeps ==
  ASSUME EInv, NEW r \in Jobs, Lookup(r)
  PROVE  EInv'
<1> DEFINE row == emails[job[r].address]
           verdict == Verdict(job[r], row)
<1>1. /\ job[r] # None /\ job[r].pc = "lookup" /\ job[r].op \in {"create", "add"}
      /\ UNCHANGED <<emails, signins, mail, reminders, announced, clock, drawn, faults>>
      /\ IF verdict = "refused" THEN End(r) ELSE Continue(r, verdict, row)
  BY DEF Lookup, At, tables, Other
<1>2. ~At(r, "announce") /\ JobShape(job[r]) /\ JobFacts(r) /\ job[r].address \in Addresses
  BY <1>1, JobIs DEF At, JobShape
<1>3. verdict \in {"insert", "clear", "refused"} /\ (row = None => verdict = "insert")
  BY DEF Verdict
<1>4. row \in Rows \cup {None} /\ (row # None => Drawn(row))
  BY <1>2 DEF EInv, TypeOK, RowsOK, Stored
<1>5. CASE End(r)
  BY <1>1, <1>2, <1>5, EndKeeps
<1>6. CASE verdict # "refused" /\ Continue(r, verdict, row)
  <2> HIDE DEF verdict, row
  <2>1. verdict \in Steps /\ verdict \in {"insert", "clear"}
    BY <1>3, <1>6 DEF Steps
  <2>2. /\ Moves(r) /\ job'[r] \in JobRecords /\ job'[r] # None
        /\ job'[r].op = job[r].op /\ job'[r].pc = verdict /\ job'[r].address = job[r].address
        /\ job'[r].uid = job[r].uid /\ job'[r].post = job[r].post /\ job'[r].row = row
    BY <1>1, <1>4, <1>6, <2>1, ContinueStep
  <2>3. JobShape(job'[r])
    BY <1>1, <1>2, <1>3, <1>4, <2>1, <2>2 DEF JobShape
  <2>4. JobFacts(r)'
    BY <1>1, <1>2, <1>4, <2>1, <2>2 DEF JobFacts, Drawn
  <2>5. Announces(r)
    BY <1>1, <1>2, DrawnIs DEF Announces
  <2> QED
    BY <1>1, <2>2, <2>3, <2>4, <2>5, QuietStep DEF EInv, TypeOK
<1> QED
  BY <1>1, <1>5, <1>6

LEMMA LookupOwnKeeps ==
  ASSUME EInv, NEW r \in Jobs, LookupOwn(r)
  PROVE  EInv'
<1>1. /\ job[r] # None /\ job[r].pc = "lookup" /\ job[r].op = "setPrimary"
      /\ UNCHANGED <<emails, signins, mail, reminders, announced, clock, drawn, faults>>
      /\ Goto(r, "promote") \/ End(r)
  BY DEF LookupOwn, At, tables, Other
<1>2. ~At(r, "announce") /\ JobShape(job[r]) /\ JobFacts(r)
  BY <1>1, JobIs DEF At
<1>3. CASE End(r)
  BY <1>1, <1>2, <1>3, EndKeeps
<1>4. CASE Goto(r, "promote")
  <2>1. /\ Moves(r) /\ job'[r] \in JobRecords /\ job'[r] # None
        /\ job'[r].op = job[r].op /\ job'[r].pc = "promote" /\ job'[r].address = job[r].address
        /\ job'[r].uid = job[r].uid /\ job'[r].post = job[r].post /\ job'[r].row = job[r].row
    BY <1>1, <1>4, GotoStep DEF Steps
  <2>2. JobShape(job'[r])
    BY <1>1, <1>2, <2>1 DEF JobShape
  <2>3. Announces(r)
    BY <1>1, <1>2, DrawnIs DEF Announces
  <2>6. JobFacts(r)'
    BY <1>1, <1>2, <2>1 DEF JobFacts, Drawn, Stored
  <2> QED
    BY <1>1, <2>1, <2>2, <2>3, <2>6, QuietStep DEF EInv, TypeOK
<1> QED
  BY <1>1, <1>3, <1>4

LEMMA LoadAccountKeeps ==
  ASSUME EInv, NEW r \in Jobs, LoadAccount(r)
  PROVE  EInv'
<1>1. /\ job[r] # None /\ job[r].pc = "load"
      /\ UNCHANGED <<emails, signins, mail, reminders, announced, clock, drawn, faults>>
  BY DEF LoadAccount, At, tables, Other
<1>2. ~At(r, "announce") /\ JobShape(job[r]) /\ JobFacts(r) /\ job[r].op \in {"verify", "destroyEmail"}
  BY <1>1, JobIs DEF At, JobShape, Ops
<1>3. CASE End(r)
  BY <1>1, <1>2, <1>3, EndKeeps
<1>4. ASSUME NEW a \in PrimaryOf(job[r].uid), NEW pc,
             pc = IF job[r].op = "destroyEmail" THEN "remove"
                  ELSE IF job[r].post.type = "secondary" THEN "match" ELSE "tokens",
             Continue(r, pc, emails[a])
      PROVE  EInv'
  <2>1. a \in Stored /\ emails[a].uid = job[r].uid /\ emails[a].primary
    BY DEF PrimaryOf, Of
  <2>2. emails[a] \in Rows /\ Drawn(emails[a])
        /\ (~emails[a].verified => emails[a].early \/ Original(emails[a]))
    BY <2>1, StoredIs DEF EInv, RowsOK
  <2>3. pc \in Steps /\ pc \in {"remove", "match", "tokens"}
        /\ (pc = "remove" <=> job[r].op = "destroyEmail")
    BY <1>4 DEF Steps
  <2>4. /\ Moves(r) /\ job'[r] \in JobRecords /\ job'[r] # None
        /\ job'[r].op = job[r].op /\ job'[r].pc = pc /\ job'[r].address = job[r].address
        /\ job'[r].uid = job[r].uid /\ job'[r].post = job[r].post /\ job'[r].row = emails[a]
    BY <1>1, <1>4, <2>2, <2>3, ContinueStep
  <2>5. JobShape(job'[r])
    BY <1>1, <1>2, <2>2, <2>3, <2>4 DEF JobShape
  <2>7. \A c \in Stored : emails[c].id = emails[a].id => c = a
    BY <2>1 DEF EInv, RowsOK
  <2>8. JobFacts(r)'
    BY <1>1, <1>2, <2>1, <2>2, <2>3, <2>4, <2>7 DEF JobFacts, Drawn, Stored, Original
  <2>9. Announces(r)
    BY <1>1, <1>2, DrawnIs DEF Announces
  <2> QED
    BY <1>1, <2>4, <2>5, <2>8, <2>9, QuietStep DEF EInv, TypeOK
<1> QED
  BY <1>3, <1>4 DEF LoadAccount

LEMMA MatchSecondaryKeeps ==
  ASSUME EInv, NEW r \in Jobs, MatchSecondary(r)
  PROVE  EInv'
<1>1. /\ job[r] # None /\ job[r].pc = "match"
      /\ UNCHANGED <<emails, signins, mail, reminders, announced, clock, drawn, faults>>
  BY DEF MatchSecondary, At, tables, Other
<1>2. ~At(r, "announce") /\ JobShape(job[r]) /\ JobFacts(r) /\ job[r].op = "verify"
  BY <1>1, JobIs DEF At, JobShape, Ops
<1>3. CASE End(r)
  BY <1>1, <1>2, <1>3, EndKeeps
<1>4. ASSUME NEW a \in Of(job[r].uid), job[r].post.link.code = [kind |-> "email", id |-> emails[a].id],
             Continue(r, "apply", emails[a])
      PROVE  EInv'
  <2>1. a \in Stored /\ emails[a] \in Rows /\ Drawn(emails[a])
    BY StoredIs DEF Of, EInv, RowsOK
  <2>2. /\ Moves(r) /\ job'[r] \in JobRecords /\ job'[r] # None
        /\ job'[r].op = job[r].op /\ job'[r].pc = "apply" /\ job'[r].address = job[r].address
        /\ job'[r].uid = job[r].uid /\ job'[r].post = job[r].post /\ job'[r].row = emails[a]
    BY <1>1, <1>4, <2>1, ContinueStep DEF Steps
  <2>3. JobShape(job'[r])
    BY <1>1, <1>2, <2>1, <2>2 DEF JobShape
  <2>4. LinkOK(job[r].post.link) /\ job[r].post.link.code.kind = "email"
        /\ job[r].post.link.code.id = emails[a].id
    BY <1>2, <1>4 DEF JobFacts, JobShape, EInv, LinksOK
  <2>5. \A c \in Stored : emails[c].id = emails[a].id => Proves(job[r].post.link, c, emails[c].id)
    BY <1>4, <2>4 DEF LinkOK, Proves
  <2>6. JobFacts(r)'
    BY <1>1, <1>2, <2>1, <2>2, <2>5 DEF JobFacts, Drawn, Stored, Proves
  <2>7. Announces(r)
    BY <1>1, <1>2, DrawnIs DEF Announces
  <2> QED
    BY <1>1, <2>2, <2>3, <2>6, <2>7, QuietStep DEF EInv, TypeOK
<1> QED
  BY <1>3, <1>4 DEF MatchSecondary

LEMMA VerifyTokensKeeps ==
  ASSUME EInv, NEW r \in Jobs, VerifyTokens(r)
  PROVE  EInv'
<1>1. /\ job[r] # None /\ job[r].pc = "tokens" /\ signins' \subseteq signins
      /\ UNCHANGED <<emails, mail, reminders, announced, clock, drawn, faults>>
      /\ IF Matches(job[r]) /\ ~job[r].row.verified THEN Goto(r, "apply") ELSE End(r)
  BY DEF VerifyTokens, At, Other
<1>2. JobShape(job[r]) /\ JobFacts(r) /\ job[r].op = "verify" /\ job[r].row \in Rows
  BY <1>1, JobIs DEF JobShape, Ops
<1>3. Announces(r)
  BY <1>1, DrawnIs DEF Announces, At
<1>4. signins' \subseteq Ids
  BY <1>1 DEF EInv, TypeOK
<1>5. CASE End(r)
  BY <1>1, <1>3, <1>4, <1>5, EndStep, QuietStep DEF EInv, TypeOK
<1>6. CASE Matches(job[r]) /\ ~job[r].row.verified /\ Goto(r, "apply")
  <2>1. /\ Moves(r) /\ job'[r] \in JobRecords /\ job'[r] # None
        /\ job'[r].op = job[r].op /\ job'[r].pc = "apply" /\ job'[r].address = job[r].address
        /\ job'[r].uid = job[r].uid /\ job'[r].post = job[r].post /\ job'[r].row = job[r].row
    BY <1>1, <1>6, GotoStep DEF Steps
  <2>2. JobShape(job'[r])
    BY <1>1, <1>2, <2>1 DEF JobShape
  <2>3. LinkOK(job[r].post.link) /\ job[r].post.link.uid = job[r].uid
    BY <1>2 DEF JobFacts, JobShape, EInv, LinksOK
  <2>4. ASSUME NEW a \in Stored, emails[a].id = job[r].row.id, emails[a].uid = job[r].uid,
               ~emails[a].verified
        PROVE  emails[a].early \/ Proves(job[r].post.link, a, emails[a].id)
    <3>1. CASE job[r].post.link.code = [kind |-> "email", id |-> job[r].row.id]
      BY <2>3, <2>4, <3>1 DEF LinkOK, Proves
    <3>2. CASE job[r].post.link.code.kind = "signin"
      <4>1. CASE job[r].row.early
        BY <1>1, <1>2, <2>4, <4>1 DEF JobFacts
      <4>2. CASE job[r].row.id = job[r].uid
        BY <2>3, <2>4, <3>2, <4>2 DEF LinkOK, Original, Proves
      <4> QED
        BY <1>1, <1>2, <1>6, <4>1, <4>2 DEF JobFacts
    <3> QED
      BY <1>6, <3>1, <3>2 DEF Matches
  <2>5. JobFacts(r)'
    BY <1>1, <1>2, <2>1, <2>4 DEF JobFacts, Drawn, Stored, Proves
  <2> QED
    BY <1>1, <1>3, <1>4, <2>1, <2>2, <2>5, QuietStep DEF EInv, TypeOK
<1> QED
  BY <1>1, <1>5, <1>6

-----------------------------------------------------------------------------
(* Requests that write, and mail.                                          *)

LEMMA DeletedRows ==
  ASSUME EInv, NEW uid, NEW a, DeleteAccount(uid) \/ (DeleteEmail(uid, a) /\ UNCHANGED signins)
  PROVE  /\ emails' \in [Addresses -> Rows \cup {None}] /\ signins' \subseteq Ids
         /\ \A c \in Addresses : emails'[c] = emails[c] \/ emails'[c] = None
BY DEF DeleteAccount, DeleteEmail, EInv, TypeOK

LEMMA ClearKeeps ==
  ASSUME EInv, NEW r \in Jobs, Clear(r)
  PROVE  EInv'
<1>1. /\ job[r] # None /\ job[r].pc = "clear" /\ Goto(r, "insert")
      /\ UNCHANGED <<mail, reminders, announced, clock, drawn, faults>>
      /\ DeleteAccount(job[r].row.uid)
         \/ (DeleteEmail(job[r].row.uid, job[r].address) /\ UNCHANGED signins)
  BY DEF Clear, At, Other
<1>2. JobShape(job[r]) /\ JobFacts(r) /\ job[r].op \in {"create", "add"}
  BY <1>1, JobIs DEF JobShape, Ops
<1>3. /\ emails' \in [Addresses -> Rows \cup {None}] /\ signins' \subseteq Ids
      /\ \A c \in Addresses : emails'[c] = emails[c] \/ emails'[c] = None
  <2>1. PICK uid, a : uid = job[r].row.uid /\ a = job[r].address
    OBVIOUS
  <2>2. DeleteAccount(uid) \/ (DeleteEmail(uid, a) /\ UNCHANGED signins)
    BY <1>1, <2>1
  <2> QED
    BY <2>2, DeletedRows
<1>4. /\ Moves(r) /\ job'[r] \in JobRecords /\ job'[r] # None
      /\ job'[r].op = job[r].op /\ job'[r].pc = "insert" /\ job'[r].address = job[r].address
      /\ job'[r].uid = job[r].uid /\ job'[r].post = job[r].post /\ job'[r].row = job[r].row
  BY <1>1, GotoStep DEF Steps
<1>5. JobShape(job'[r])
  BY <1>1, <1>2, <1>4 DEF JobShape
<1>6. JobFacts(r)'
  BY <1>1, <1>2, <1>4 DEF JobFacts, Drawn
<1>7. Announces(r)
  BY <1>1, DrawnIs DEF Announces, At
<1> QED
  BY <1>1, <1>3, <1>4, <1>5, <1>6, <1>7, LossStep

\* A request that deletes, and ends.
LEMMA DeletesKeep ==
  ASSUME EInv, NEW r \in Jobs, Undo(r) \/ RemoveEmail(r) \/ Erase(r)
  PROVE  EInv'
<1>1. /\ job[r] # None /\ job[r].pc \in {"undo", "remove", "erase"} /\ End(r)
      /\ UNCHANGED <<mail, reminders, announced, clock, drawn, faults>>
      /\ DeleteAccount(job[r].uid)
         \/ (DeleteEmail(job[r].uid, job[r].address) /\ UNCHANGED signins)
  BY DEF Undo, RemoveEmail, Erase, At, Other
<1>2. /\ emails' \in [Addresses -> Rows \cup {None}] /\ signins' \subseteq Ids
      /\ \A c \in Addresses : emails'[c] = emails[c] \/ emails'[c] = None
  <2>1. PICK uid, a : uid = job[r].uid /\ a = job[r].address
    OBVIOUS
  <2>2. DeleteAccount(uid) \/ (DeleteEmail(uid, a) /\ UNCHANGED signins)
    BY <1>1, <2>1
  <2> QED
    BY <2>2, DeletedRows
<1>3. Announces(r)
  BY <1>1, DrawnIs DEF Announces, At
<1> QED
  BY <1>1, <1>2, <1>3, EndStep, LossStep

\* The row that a request inserts.
LEMMA NewRowIs ==
  ASSUME EInv, NEW r \in Jobs, job[r] # None, job[r].pc = "insert", drawn < MaxIds
  PROVE  LET row == NewRow(job[r])
             d == drawn + 1
         IN  /\ row \in Rows /\ row # None /\ row.id = d /\ ~row.verified /\ ~row.early
             /\ row.primary <=> job[r].op = "create"
             /\ job[r].op = "create" => row.uid = d
             /\ job[r].op = "add" => row.uid = job[r].uid /\ row.uid <= drawn
             /\ row.uid \in Nat /\ row.uid <= d /\ (row.uid = d <=> job[r].op = "create")
<1> DEFINE row == NewRow(job[r])
           d == drawn + 1
<1>1. JobShape(job[r]) /\ JobFacts(r) /\ job[r].op \in {"create", "add"}
  BY JobIs DEF JobShape, Ops
<1>2. d \in Ids /\ d \in Nat /\ d > drawn
  BY DrawnIs, ConstantsAssumption DEF Ids
<1>3. job[r].op = "add" => job[r].uid \in Ids /\ job[r].uid <= drawn
  BY <1>1 DEF JobShape, JobFacts
<1>4. clock \in Times /\ None \in Addresses \cup {None}
  BY DEF EInv, TypeOK
<1> HIDE DEF d
<1>5. row = [id |-> d, uid |-> IF job[r].op = "create" THEN d ELSE job[r].uid,
             verified |-> FALSE, primary |-> job[r].op = "create", at |-> clock,
             by |-> None, early |-> FALSE]
  BY DEF NewRow, d
<1> HIDE DEF row
<1>6. /\ row \in Rows /\ row.id = d /\ ~row.verified /\ ~row.early
      /\ row.primary <=> job[r].op = "create"
      /\ job[r].op = "create" => row.uid = d
      /\ job[r].op = "add" => row.uid = job[r].uid /\ row.uid <= drawn
  <2>1. CASE job[r].op = "create"
    <3>1. row = [id |-> d, uid |-> d, verified |-> FALSE, primary |-> TRUE, at |-> clock,
                 by |-> None, early |-> FALSE]
      BY <1>5, <2>1
    <3> QED
      BY <1>2, <1>4, <2>1, <3>1 DEF Rows
  <2>2. CASE job[r].op = "add"
    <3>1. row = [id |-> d, uid |-> job[r].uid, verified |-> FALSE, primary |-> FALSE,
                 at |-> clock, by |-> None, early |-> FALSE]
      BY <1>5, <2>2
    <3> QED
      BY <1>2, <1>3, <1>4, <2>2, <3>1 DEF Rows
  <2> QED
    BY <1>1, <2>1, <2>2
<1>7. row.uid \in Nat /\ row.uid <= d /\ (row.uid = d <=> job[r].op = "create") /\ row # None
  BY <1>1, <1>2, <1>6, DrawnIs, RowIs
<1> QED
  BY <1>6, <1>7 DEF row, d

LEMMA InsertKeeps ==
  ASSUME EInv, NEW r \in Jobs, Insert(r)
  PROVE  EInv'
<1> DEFINE a == job[r].address
           row == NewRow(job[r])
<1>1. /\ job[r] # None /\ job[r].pc = "insert"
      /\ UNCHANGED <<signins, mail, reminders, announced, clock, faults>>
  BY DEF Insert, At
<1>2. /\ ~At(r, "announce") /\ JobShape(job[r]) /\ JobFacts(r)
      /\ job[r].op \in {"create", "add"} /\ a \in Addresses
  BY <1>1, JobIs DEF JobShape, Ops, At
<1>3. CASE End(r) /\ UNCHANGED <<emails, drawn>>
  BY <1>1, <1>2, <1>3, EndKeeps
<1>4. CASE /\ emails[a] = None /\ drawn < MaxIds /\ drawn' = drawn + 1
           /\ emails' = [emails EXCEPT ![a] = row]
           /\ Continue(r, "mail", row)
  <2> DEFINE d == drawn + 1
  <2>1. d \in Ids /\ d \in Nat /\ d > drawn /\ d <= drawn' /\ drawn' \in 0..MaxIds /\ drawn' \in Nat
        /\ drawn <= drawn'
    BY <1>4, DrawnIs, ConstantsAssumption DEF Ids
  <2>2. /\ row \in Rows /\ row.id = d /\ ~row.verified /\ ~row.early
        /\ row.primary <=> job[r].op = "create"
        /\ job[r].op = "create" => row.uid = d
        /\ job[r].op = "add" => row.uid = job[r].uid /\ row.uid <= drawn
    BY <1>1, <1>4, NewRowIs
  <2>3. row.uid \in Nat /\ row.uid <= d /\ (row.uid = d <=> job[r].op = "create") /\ row # None
    BY <1>1, <1>4, NewRowIs
  <2> HIDE DEF row
  <2>4. /\ Stored' = Stored \cup {a} /\ a \notin Stored /\ emails'[a] = row
        /\ \A c \in Stored : emails'[c] = emails[c]
        /\ emails' \in [Addresses -> Rows \cup {None}]
    BY <1>2, <1>4, <2>2, <2>3 DEF Stored, EInv, TypeOK
  <2>5. \A c \in Stored : emails[c].id \in Nat /\ emails[c].id <= drawn /\ emails[c].id < d
                          /\ emails[c].uid \in Nat /\ emails[c].uid < d /\ emails[c].uid <= drawn
    BY <2>1, DrawnIs, StoredIs, RowIs DEF EInv, RowsOK, Drawn
  <2>6. /\ Moves(r) /\ job'[r] \in JobRecords /\ job'[r] # None
        /\ job'[r].op = job[r].op /\ job'[r].pc = "mail" /\ job'[r].address = job[r].address
        /\ job'[r].uid = job[r].uid /\ job'[r].post = job[r].post /\ job'[r].row = row
    BY <1>1, <1>4, <2>2, ContinueStep DEF Steps
  <2>7. JobShape(job'[r])
    BY <1>1, <1>2, <2>2, <2>6 DEF JobShape, Original
  <2>8. JobFacts(r)'
    <3>1. job[r].uid \in Nat /\ job[r].uid <= drawn'
      BY <1>1, <1>2, <2>1, DrawnIs, JobIs DEF JobFacts, Ids
    <3>2. row.id <= drawn' /\ row.uid <= drawn'
      BY <1>4, <2>1, <2>2, <2>3
    <3>3. \A c \in Stored' : emails'[c].id = row.id => c = a
      BY <2>2, <2>4, <2>5
    <3> QED
      BY <1>2, <2>6, <3>1, <3>2, <3>3 DEF JobFacts, Drawn
  <2>9. Later
    BY <1>1, <2>1, <2>2, <2>4, <2>5 DEF Later
  <2>10. Announces(r)
    BY <1>1, <1>2, DrawnIs DEF Announces
  <2>11. RowsOK'
    <3>1. \A c \in Stored' : emails'[c].id <= drawn' /\ emails'[c].uid <= drawn'
      BY <1>4, <2>1, <2>2, <2>3, <2>4, <2>5, DrawnIs
    <3>2. \A b, c \in Stored' : emails'[b].id = emails'[c].id => b = c
      BY <2>2, <2>4, <2>5 DEF EInv, RowsOK
    <3>3. \A c \in Stored' : emails'[c].primary /\ ~emails'[c].verified =>
            emails'[c].early \/ Original(emails'[c])
      BY <1>2, <2>2, <2>4 DEF EInv, RowsOK, Original
    <3>4. \A c \in Stored' : Original(emails'[c]) /\ ~emails'[c].verified => emails'[c].primary
      BY <1>2, <2>2, <2>3, <2>4 DEF EInv, RowsOK, Original
    <3> QED
      BY <3>1, <3>2, <3>3, <3>4 DEF RowsOK, Drawn
  <2>12. OnePrimary' /\ VerifiedByOwnOrPrimaryLink'
    BY <1>2, <2>2, <2>3, <2>4, <2>5 DEF EInv, OnePrimary, VerifiedByOwnOrPrimaryLink, Proves
  <2>13. \A c \in Stored', u \in Ids :
           emails'[c].uid = u /\ Original(emails'[c]) /\ emails'[c].verified
             => Silently(emails'[c]) \/ Confirmed(u)
    BY <1>2, <2>2, <2>4, WasConfirmed DEF Original
  <2> QED
    BY <1>1, <2>1, <2>4, <2>6, <2>7, <2>8, <2>9, <2>10, <2>11, <2>12, <2>13, StepKeeps
       DEF EInv, TypeOK
<1> QED
  BY <1>3, <1>4 DEF Insert

LEMMA MailKeeps ==
  ASSUME EInv, NEW r \in Jobs, Mail(r)
  PROVE  EInv'
<1> DEFINE a == job[r].address
           m == Link(a, job[r].row.uid, "email", job[r].row.id)
<1>1. /\ job[r] # None /\ job[r].pc = "mail" /\ mail' = mail \cup {m}
      /\ UNCHANGED <<emails, signins, reminders, announced, clock, drawn, faults>>
      /\ IF job[r].op = "create" THEN Goto(r, "remind") ELSE End(r)
  BY DEF Mail, At, Other
<1>2. /\ ~At(r, "announce") /\ JobShape(job[r]) /\ JobFacts(r)
      /\ job[r].op \in {"create", "add"} /\ a \in Addresses /\ job[r].row \in Rows
  BY <1>1, JobIs DEF JobShape, Ops, At
<1>3. job[r].row.uid \in Ids /\ job[r].row.id \in Ids /\ Drawn(job[r].row)
  BY <1>2, RowIs DEF JobFacts
<1>4. m \in Links /\ m.to = a /\ m.uid = job[r].row.uid /\ m.code.kind = "email"
      /\ m.code.id = job[r].row.id
  BY <1>2, <1>3 DEF Link, Links, Codes
<1> HIDE DEF m
<1>5. LinkOK(m)
  BY <1>1, <1>2, <1>3, <1>4 DEF LinkOK, JobFacts, Drawn
<1>6. Announces(r)
  BY <1>1, <1>2, DrawnIs DEF Announces
<1>7. mail' \subseteq Links /\ mail \subseteq mail' /\ \A l \in mail' \ mail : LinkOK(l)
  BY <1>1, <1>4, <1>5 DEF EInv, TypeOK
<1>8. CASE End(r)
  BY <1>1, <1>6, <1>7, <1>8, EndStep, QuietStep DEF EInv, TypeOK
<1>9. CASE job[r].op = "create" /\ Goto(r, "remind")
  <2>1. /\ Moves(r) /\ job'[r] \in JobRecords /\ job'[r] # None
        /\ job'[r].op = job[r].op /\ job'[r].pc = "remind" /\ job'[r].address = job[r].address
        /\ job'[r].uid = job[r].uid /\ job'[r].post = job[r].post /\ job'[r].row = job[r].row
    BY <1>1, <1>9, GotoStep DEF Steps
  <2>2. JobShape(job'[r])
    BY <1>1, <1>2, <1>9, <2>1 DEF JobShape
  <2>3. JobFacts(r)'
    BY <1>1, <1>2, <1>9, <2>1 DEF JobFacts, Drawn
  <2> QED
    BY <1>1, <1>6, <1>7, <2>1, <2>2, <2>3, QuietStep DEF EInv, TypeOK
<1> QED
  BY <1>1, <1>8, <1>9

LEMMA MailFailsKeeps ==
  ASSUME EInv, NEW r \in Jobs, MailFails(r)
  PROVE  EInv'
<1>1. /\ job[r] # None /\ job[r].pc = "mail"
      /\ UNCHANGED <<emails, signins, mail, reminders, announced, clock, drawn, faults>>
      /\ IF job[r].op = "create" THEN End(r) ELSE Goto(r, "undo")
  BY DEF MailFails, At, tables, Other
<1>2. /\ ~At(r, "announce") /\ JobShape(job[r]) /\ JobFacts(r) /\ job[r].op \in {"create", "add"}
  BY <1>1, JobIs DEF JobShape, Ops, At
<1>3. CASE End(r)
  BY <1>1, <1>2, <1>3, EndKeeps
<1>4. CASE job[r].op = "add" /\ Goto(r, "undo")
  <2>1. /\ Moves(r) /\ job'[r] \in JobRecords /\ job'[r] # None
        /\ job'[r].op = job[r].op /\ job'[r].pc = "undo" /\ job'[r].address = job[r].address
        /\ job'[r].uid = job[r].uid /\ job'[r].post = job[r].post /\ job'[r].row = job[r].row
    BY <1>1, <1>4, GotoStep DEF Steps
  <2>2. JobShape(job'[r])
    BY <1>1, <1>2, <1>4, <2>1 DEF JobShape
  <2>3. JobFacts(r)'
    BY <1>1, <1>2, <1>4, <2>1 DEF JobFacts, Drawn
  <2>4. Announces(r)
    BY <1>1, <1>2, DrawnIs DEF Announces
  <2> QED
    BY <1>1, <2>1, <2>2, <2>3, <2>4, QuietStep DEF EInv, TypeOK
<1> QED
  BY <1>1, <1>2, <1>3, <1>4

LEMMA VerifyEmailKeeps ==
  ASSUME EInv, NEW r \in Jobs, VerifyEmail(r)
  PROVE  EInv'
<1> DEFINE uid == job[r].uid
           post == job[r].post
           V == {a \in Stored : emails[a].uid = uid /\ emails[a].id = job[r].row.id
                                /\ ~emails[a].verified}
<1>1. /\ job[r] # None /\ job[r].pc = "apply"
      /\ UNCHANGED <<signins, mail, reminders, announced, clock, drawn, faults>>
      /\ IF post.type = "secondary" THEN End(r) ELSE Goto(r, "announce")
      /\ emails' = [a \in Addresses |-> IF a \in V
                      THEN [emails[a] EXCEPT !.verified = TRUE, !.by = post] ELSE emails[a]]
  BY DEF VerifyEmail, At, Other, Of
<1>2. /\ JobShape(job[r]) /\ JobFacts(r) /\ job[r].op = "verify"
      /\ post \in Posts /\ uid \in Ids
  BY <1>1, JobIs DEF JobShape, JobFacts, Ops
<1>3. \A a \in V : emails[a].early \/ Proves(post.link, a, emails[a].id)
  BY <1>1, <1>2 DEF JobFacts
<1>4. V \subseteq Stored /\ \A a \in V : emails[a].uid = uid /\ emails[a].id = job[r].row.id
  OBVIOUS
<1> HIDE DEF V, uid, post
<1>5. /\ Stored' = Stored /\ emails' \in [Addresses -> Rows \cup {None}]
      /\ \A a \in Stored : a \notin V => emails'[a] = emails[a]
      /\ \A a \in V : /\ emails'[a].id = emails[a].id /\ emails'[a].uid = emails[a].uid
                      /\ emails'[a].primary = emails[a].primary
                      /\ emails'[a].early = emails[a].early
                      /\ emails'[a].verified /\ emails'[a].by = post
  <2>1. \A a \in V : emails[a] \in Rows
    BY <1>4, StoredIs
  <2>2. \A a \in V : LET row == [emails[a] EXCEPT !.verified = TRUE, !.by = post]
                     IN  /\ row \in Rows /\ row # None
                         /\ row.id = emails[a].id /\ row.uid = emails[a].uid
                         /\ row.primary = emails[a].primary /\ row.early = emails[a].early
                         /\ row.verified /\ row.by = post
    BY <1>2, <2>1, RecordAssumption DEF Rows
  <2> QED
    BY <1>1, <1>4, <2>2 DEF EInv, TypeOK, Stored
<1>6. UNCHANGED <<mail, announced, drawn, faults>> /\ ~At(r, "announce")
  BY <1>1 DEF At
<1>7. \A a \in Stored : /\ emails'[a].id = emails[a].id /\ emails'[a].uid = emails[a].uid
                        /\ emails'[a].primary = emails[a].primary
                        /\ emails'[a].early = emails[a].early
                        /\ emails[a].verified => emails'[a].verified
  BY <1>5
<1>8. Later
  BY <1>7, <1>5, <1>6, DrawnIs DEF Later
<1>9. RowsOK'
  <2>2. \A a \in Stored' : Original(emails'[a]) <=> Original(emails[a])
    BY <1>7, <1>5 DEF Original
  <2> QED
    BY <1>7, <1>5, <1>6, <2>2 DEF EInv, RowsOK, Drawn
<1>10. OnePrimary' /\ VerifiedByOwnOrPrimaryLink'
  <2>1. OnePrimary'
    BY <1>5, <1>7 DEF EInv, OnePrimary
  <2>2. \A a \in V : emails'[a].early \/ Proves(emails'[a].by.link, a, emails'[a].id)
    BY <1>3, <1>4, <1>5 DEF Proves
  <2>3. \A a \in Stored \ V : emails'[a].verified =>
          emails'[a].early \/ Proves(emails'[a].by.link, a, emails'[a].id)
    BY <1>5 DEF EInv, VerifiedByOwnOrPrimaryLink, Proves
  <2> QED
    BY <1>4, <1>5, <2>1, <2>2, <2>3 DEF VerifiedByOwnOrPrimaryLink, Proves
<1>11. Announces(r)
  BY <1>6, DrawnIs DEF Announces
<1>12. ASSUME NEW a \in Stored, NEW u, emails'[a].uid = u, emails'[a].verified,
              Original(emails'[a]), a \notin V
       PROVE  Silently(emails'[a]) \/ Confirmed(u)
  BY <1>5, <1>12, WasConfirmed DEF Original
<1>13. CASE post.type = "secondary" /\ End(r)
  <2>1. \A a \in V : Silently(emails'[a])
    BY <1>5, <1>13 DEF Silently
  <2>2. \A a \in Stored', u \in Ids :
          emails'[a].uid = u /\ Original(emails'[a]) /\ emails'[a].verified
            => Silently(emails'[a]) \/ Confirmed(u)
    BY <1>5, <1>12, <2>1
  <2> QED
    BY <1>1, <1>5, <1>8, <1>9, <1>10, <1>11, <1>13, <2>2, EndStep, StepKeeps DEF EInv, TypeOK
<1>14. CASE Goto(r, "announce")
  <2>1. /\ Moves(r) /\ job'[r] \in JobRecords /\ job'[r] # None
        /\ job'[r].op = job[r].op /\ job'[r].pc = "announce" /\ job'[r].address = job[r].address
        /\ job'[r].uid = job[r].uid /\ job'[r].post = job[r].post /\ job'[r].row = job[r].row
    BY <1>1, <1>14, GotoStep DEF Steps
  <2>2. JobShape(job'[r])
    BY <1>1, <1>2, <2>1 DEF JobShape
  <2>3. JobFacts(r)'
    BY <1>1, <1>2, <2>1 DEF JobFacts, Drawn
  <2>4. ASSUME NEW a \in V, NEW u, emails[a].uid = u PROVE Confirmed(u)'
    BY <1>4, <2>1, <2>4 DEF Confirmed, At, uid
  <2>5. \A a \in Stored', u \in Ids :
          emails'[a].uid = u /\ Original(emails'[a]) /\ emails'[a].verified
            => Silently(emails'[a]) \/ Confirmed(u) \/ Confirmed(u)'
    BY <1>5, <1>12, <2>4
  <2> QED
    BY <1>1, <1>5, <1>8, <1>9, <1>10, <1>11, <2>1, <2>2, <2>3, <2>5, StepKeeps DEF EInv, TypeOK
<1> QED
  BY <1>1, <1>13, <1>14

LEMMA PromoteKeeps ==
  ASSUME EInv, NEW r \in Jobs, Promote(r)
  PROVE  EInv'
<1> DEFINE uid == job[r].uid
           here == job[r].address
           New(a) == [emails[a] EXCEPT !.primary = (a = here),
                                       !.early = @ \/ (a = here /\ ~emails[a].verified)]
<1>1. /\ job[r] # None /\ job[r].pc = "promote" /\ End(r)
      /\ UNCHANGED <<signins, mail, reminders, announced, clock, drawn, faults>>
      /\ emails' = emails \/
           (here \in Of(uid) /\
            emails' = [a \in Addresses |-> IF a \in Of(uid) THEN New(a) ELSE emails[a]])
  BY DEF Promote, At, Other
<1>2. /\ JobShape(job[r]) /\ JobFacts(r) /\ job[r].op = "setPrimary" /\ ~At(r, "announce")
      /\ here \in Addresses /\ uid \in Ids
  BY <1>1, JobIs DEF JobShape, Ops, At
<1>3. CASE emails' = emails
  BY <1>1, <1>2, <1>3, EndKeeps
<1>4. CASE emails' = [a \in Addresses |-> IF a \in Of(uid) THEN New(a) ELSE emails[a]]
  <2>1. \A a \in Of(uid) :
          /\ New(a) \in Rows /\ New(a) # None
          /\ New(a).id = emails[a].id /\ New(a).uid = emails[a].uid
          /\ (New(a).verified <=> emails[a].verified) /\ New(a).by = emails[a].by
          /\ New(a).primary <=> a = here
          /\ emails[a].early => New(a).early
          /\ a = here /\ ~emails[a].verified => New(a).early
    <3> SUFFICES ASSUME NEW a \in Of(uid)
                 PROVE /\ New(a) \in Rows /\ New(a) # None
                       /\ New(a).id = emails[a].id /\ New(a).uid = emails[a].uid
                       /\ (New(a).verified <=> emails[a].verified) /\ New(a).by = emails[a].by
                       /\ New(a).primary <=> a = here
                       /\ emails[a].early => New(a).early
                       /\ a = here /\ ~emails[a].verified => New(a).early
      OBVIOUS
    <3> DEFINE p == (a = here)
               e == emails[a].early \/ (a = here /\ ~emails[a].verified)
    <3>1. emails[a] \in Rows
      BY StoredIs DEF Of
    <3>2. p \in BOOLEAN /\ e \in BOOLEAN /\ New(a) = [emails[a] EXCEPT !.primary = p, !.early = e]
      BY <3>1 DEF Rows
    <3>3. (p <=> a = here) /\ (emails[a].early => e) /\ (a = here /\ ~emails[a].verified => e)
      OBVIOUS
    <3> HIDE DEF p, e, New
    <3>4. /\ New(a) \in Rows /\ New(a).id = emails[a].id /\ New(a).uid = emails[a].uid
          /\ New(a).verified = emails[a].verified /\ New(a).by = emails[a].by
          /\ New(a).primary = p /\ New(a).early = e
      BY <3>1, <3>2 DEF Rows
    <3> QED
      BY <3>3, <3>4, RowIs
  <2>2. Of(uid) = {a \in Stored : emails[a].uid = uid}
    BY DEF Of
  <2> HIDE DEF New, uid, here
  <2>3. /\ Stored' = Stored /\ emails' \in [Addresses -> Rows \cup {None}]
        /\ \A a \in Stored : a \notin Of(uid) => emails'[a] = emails[a]
        /\ \A a \in Of(uid) : emails'[a] = New(a)
    BY <1>4, <2>1, <2>2 DEF Stored, EInv, TypeOK
  <2>4. Later
    BY <1>1, <2>1, <2>2, <2>3, DrawnIs DEF Later
  <2>5. \A a \in Stored : emails[a].uid = uid /\ Original(emails[a]) => emails[a].verified
    BY <1>2 DEF JobFacts, uid
  <2>6. RowsOK'
    <3>1. \A a \in Stored' : emails'[a].id = emails[a].id /\ emails'[a].uid = emails[a].uid
      BY <2>1, <2>3
    <3>2. \A a \in Stored' : emails'[a].primary /\ ~emails'[a].verified =>
            emails'[a].early \/ Original(emails'[a])
      BY <2>1, <2>3 DEF EInv, RowsOK
    <3>3. \A a \in Stored' : Original(emails'[a]) /\ ~emails'[a].verified => emails'[a].primary
      BY <2>1, <2>2, <2>3, <2>5 DEF EInv, RowsOK, Original
    <3> QED
      BY <1>1, <2>3, <3>1, <3>2, <3>3 DEF EInv, RowsOK, Drawn
  <2>7. OnePrimary' /\ VerifiedByOwnOrPrimaryLink'
    <3>1. OnePrimary'
      BY <2>1, <2>2, <2>3 DEF EInv, OnePrimary
    <3>2. \A a \in Stored : /\ emails'[a].id = emails[a].id /\ emails'[a].by = emails[a].by
                            /\ (emails'[a].verified <=> emails[a].verified)
                            /\ (emails[a].early => emails'[a].early)
      BY <2>1, <2>3
    <3> QED
      BY <2>3, <3>1, <3>2 DEF EInv, VerifiedByOwnOrPrimaryLink, Proves
  <2>8. Announces(r)
    BY <1>1, <1>2, DrawnIs DEF Announces
  <2>9. \A a \in Stored', u \in Ids :
          emails'[a].uid = u /\ Original(emails'[a]) /\ emails'[a].verified
            => Silently(emails'[a]) \/ Confirmed(u)
    <3>1. \A a \in Stored : /\ emails'[a].id = emails[a].id /\ emails'[a].uid = emails[a].uid
                            /\ emails'[a].by = emails[a].by
                            /\ (emails'[a].verified <=> emails[a].verified)
      BY <2>1, <2>3
    <3> QED
      BY <2>3, <3>1, WasConfirmed DEF Original, Silently
  <2> QED
    BY <1>1, <2>3, <2>4, <2>6, <2>7, <2>8, <2>9, EndStep, StepKeeps DEF EInv, TypeOK
<1> QED
  BY <1>1, <1>3, <1>4

LEMMA RemindersTyped ==
  ASSUME EInv, NEW uid \in Ids, NEW keys
  PROVE  /\ Enrolled(uid, clock, keys) \in [Keys -> SUBSET Reminders]
         /\ Discharged(uid, keys) \in [Keys -> SUBSET Reminders]
<1>1. [uid |-> uid, at |-> clock] \in Reminders
  BY DEF EInv, TypeOK, Reminders
<1> QED
  BY <1>1 DEF Enrolled, Discharged, EInv, TypeOK

LEMMA RemindKeeps ==
  ASSUME EInv, NEW r \in Jobs, Remind(r)
  PROVE  EInv'
<1>1. /\ job[r] # None /\ job[r].pc = "remind" /\ End(r)
      /\ reminders' = Enrolled(job[r].row.uid, clock, Keys)
      /\ UNCHANGED <<emails, signins, mail, announced, clock, drawn, faults>>
  BY DEF Remind, At, Other
<1>2. PICK uid : uid = job[r].row.uid
  OBVIOUS
<1>3. uid \in Ids /\ reminders' = Enrolled(uid, clock, Keys)
  BY <1>1, <1>2, JobIs, RowIs DEF JobShape
<1>4. reminders' \in [Keys -> SUBSET Reminders]
  BY <1>3, RemindersTyped
<1>5. Announces(r)
  BY <1>1, DrawnIs DEF Announces, At
<1> QED
  BY <1>1, <1>4, <1>5, EndStep, QuietStep DEF EInv, TypeOK

LEMMA AnnounceKeeps ==
  ASSUME EInv, NEW r \in Jobs, Announce(r)
  PROVE  EInv'
<1>1. /\ job[r] # None /\ job[r].pc = "announce" /\ End(r)
      /\ announced' = announced \cup {job[r].uid}
      /\ reminders' = Discharged(job[r].uid, Keys)
      /\ UNCHANGED <<emails, signins, mail, clock, drawn, faults>>
  BY DEF Announce, At, Other
<1>2. PICK uid : uid = job[r].uid
  OBVIOUS
<1>3. uid \in Ids /\ reminders' = Discharged(uid, Keys)
  BY <1>1, <1>2, JobIs DEF JobShape, Ops
<1>4. reminders' \in [Keys -> SUBSET Reminders] /\ announced' \subseteq Ids
  BY <1>1, <1>2, <1>3, RemindersTyped DEF EInv, TypeOK
<1>5. Announces(r)
  BY <1>1, DrawnIs DEF Announces
<1> QED
  BY <1>1, <1>4, <1>5, EndStep, QuietStep DEF EInv, TypeOK

LEMMA FailKeeps ==
  ASSUME EInv, NEW r \in Jobs, Fail(r)
  PROVE  EInv'
<1>1. /\ job[r] # None /\ End(r) /\ faults' = faults + 1 /\ faults < MaxFaults
      /\ UNCHANGED <<emails, signins, mail, clock, drawn>>
  BY DEF Fail
<1>2. faults' \in 0..MaxFaults /\ faults' \in Nat /\ faults <= faults' /\ faults' > 0
  BY <1>1, DrawnIs, ConstantsAssumption
<1>3. reminders' \in [Keys -> SUBSET Reminders] /\ announced \subseteq announced'
      /\ announced' \subseteq Ids
  <2>1. CASE UNCHANGED <<reminders, announced>>
    BY <2>1 DEF EInv, TypeOK
  <2>2. ASSUME At(r, "remind"), NEW keys \in SUBSET Keys, UNCHANGED announced,
               reminders' = Enrolled(job[r].row.uid, clock, keys)
        PROVE  reminders' \in [Keys -> SUBSET Reminders] /\ announced \subseteq announced'
               /\ announced' \subseteq Ids
    <3>1. PICK uid : uid = job[r].row.uid
      OBVIOUS
    <3>2. uid \in Ids
      BY <2>2, <3>1, JobIs, RowIs DEF JobShape, At
    <3> QED
      BY <2>2, <3>1, <3>2, RemindersTyped DEF EInv, TypeOK
  <2>3. ASSUME At(r, "announce"), NEW keys \in SUBSET Keys,
               reminders' = Discharged(job[r].uid, keys),
               announced' \in {announced, announced \cup {job[r].uid}}
        PROVE  reminders' \in [Keys -> SUBSET Reminders] /\ announced \subseteq announced'
               /\ announced' \subseteq Ids
    <3>1. PICK uid : uid = job[r].uid
      OBVIOUS
    <3>2. uid \in Ids
      BY <2>3, <3>1, JobIs DEF JobShape, Ops, At
    <3> QED
      BY <2>3, <3>1, <3>2, RemindersTyped DEF EInv, TypeOK
  <2> QED
    BY <2>1, <2>2, <2>3 DEF Fail
<1>4. Announces(r)
  BY <1>2, <1>3 DEF Announces
<1> QED
  BY <1>1, <1>2, <1>3, <1>4, EndStep, QuietStep DEF EInv, TypeOK

-----------------------------------------------------------------------------
(* Links, and time.                                                        *)

LEMMA LinksAdded ==
  ASSUME EInv, NEW M \in SUBSET Links, \A m \in M : LinkOK(m), mail' = mail \cup M,
         signins' \subseteq Ids,
         UNCHANGED <<emails, reminders, announced, job, clock, drawn, faults>>
  PROVE  EInv'
<1>1. PICK r : r \notin Jobs
  BY NoSetContainsEverything
<1>2. Moves(r) /\ Announces(r)
  BY <1>1, DrawnIs DEF Moves, Announces, EInv, TypeOK
<1> QED
  BY <1>1, <1>2, QuietStep DEF EInv, TypeOK

\* A link to a session: what it verifies is the account's first address, which is
\* the primary one as long as it is not verified.
LEMMA SigninLink ==
  ASSUME EInv, NEW uid \in Accounts, NEW p \in PrimaryOf(uid), NEW a \in Of(uid),
         a = p \/ emails[p].verified
  PROVE  LET m == Link(a, uid, "signin", uid) IN m \in Links /\ LinkOK(m)
<1>1. PICK m : m = Link(a, uid, "signin", uid)
  OBVIOUS
<1>2. uid \in Ids /\ uid <= drawn
  BY AccountIs
<1>3. a \in Addresses /\ p \in Stored /\ emails[p].uid = uid /\ emails[p].primary
  BY StoredIs DEF PrimaryOf, Of, Stored
<1>4. m \in Links /\ m.to = a /\ m.uid = uid /\ m.code.kind = "signin" /\ m.code.id = uid
  BY <1>1, <1>2, <1>3 DEF Link, Links, Codes
<1>5. \A c \in Stored : emails[c].uid = uid /\ Original(emails[c]) /\ ~emails[c].verified => c = p
  BY <1>3 DEF EInv, RowsOK, OnePrimary
<1>6. \A c \in Stored : emails[c].uid = uid /\ Original(emails[c]) /\ ~emails[c].verified => c = a
  BY <1>5
<1>7. LinkOK(m)
  BY <1>2, <1>4, <1>6 DEF LinkOK
<1> QED
  BY <1>1, <1>4, <1>7

LEMMA SigninKeeps ==
  ASSUME EInv, NEW uid \in Accounts, Signin(uid)
  PROVE  EInv'
<1>1. PICK a \in PrimaryOf(uid) : mail' = mail \cup {Link(a, uid, "signin", uid)}
  BY DEF Signin
<1>2. Link(a, uid, "signin", uid) \in Links /\ LinkOK(Link(a, uid, "signin", uid))
  BY SigninLink DEF PrimaryOf
<1>3. uid \in Ids
  BY AccountIs
<1>4. signins' \subseteq Ids
  BY <1>3 DEF Signin, EInv, TypeOK
<1> DEFINE M == {Link(a, uid, "signin", uid)}
<1>5. M \in SUBSET Links /\ (\A m \in M : LinkOK(m)) /\ mail' = mail \cup M
  BY <1>1, <1>2
<1> HIDE DEF M
<1> QED
  BY <1>4, <1>5, LinksAdded DEF Signin, Other

LEMMA ResendKeeps ==
  ASSUME EInv, NEW uid \in Accounts, Resend(uid)
  PROVE  EInv'
<1>1. PICK p \in PrimaryOf(uid) :
        \/ \E a \in Of(uid) : \E to \in {a, p} :
             mail' = mail \cup {Link(to, uid, "email", emails[a].id)}
        \/ \E to \in {{p}, {p} \cup VerifiedOf(uid, p)} :
             mail' = mail \cup {Link(a, uid, "signin", uid) : a \in to}
  BY DEF Resend
<1>2. uid \in Ids /\ uid <= drawn
  BY AccountIs
<1>3. p \in Of(uid) /\ p \in Addresses /\ UNCHANGED <<emails, signins, reminders, announced, job, clock, drawn, faults>>
      /\ signins' \subseteq Ids
  BY DEF PrimaryOf, Of, Stored, Resend, Other, EInv, TypeOK
<1>4. ASSUME NEW a \in Of(uid), NEW to \in {a, p},
             mail' = mail \cup {Link(to, uid, "email", emails[a].id)}
      PROVE  EInv'
  <2>1. PICK m : m = Link(to, uid, "email", emails[a].id)
    OBVIOUS
  <2>2. a \in Stored /\ a \in Addresses /\ to \in Addresses /\ emails[a].uid = uid
        /\ emails[a].id \in Ids /\ emails[a].id <= drawn
    BY <1>3, StoredIs, RowIs DEF Of, EInv, RowsOK, Drawn
  <2>3. m \in Links /\ m.to = to /\ m.uid = uid /\ m.code.kind = "email"
        /\ m.code.id = emails[a].id /\ (m.primary <=> to \in PrimaryOf(uid))
    <3> DEFINE primary == to \in PrimaryOf(uid)
    <3>1. primary \in BOOLEAN
      OBVIOUS
    <3>2. m = [to |-> to, uid |-> uid, code |-> [kind |-> "email", id |-> emails[a].id],
               primary |-> primary]
      BY <2>1 DEF Link
    <3>3. m.primary <=> to \in PrimaryOf(uid)
      BY <3>2
    <3> HIDE DEF primary
    <3> QED
      BY <1>2, <2>2, <3>1, <3>2, <3>3 DEF Links, Codes
  <2>4. \A c \in Stored : emails[c].id = emails[a].id => c = a
    BY <2>2 DEF EInv, RowsOK
  <2>5. LinkOK(m)
    BY <1>2, <2>2, <2>3, <2>4 DEF LinkOK
  <2> DEFINE M == {m}
  <2>6. M \in SUBSET Links /\ (\A l \in M : LinkOK(l)) /\ mail' = mail \cup M
    BY <1>4, <2>1, <2>3, <2>5
  <2> HIDE DEF M
  <2> QED
    BY <1>3, <2>6, LinksAdded
<1>5. ASSUME NEW to \in {{p}, {p} \cup VerifiedOf(uid, p)},
             mail' = mail \cup {Link(a, uid, "signin", uid) : a \in to}
      PROVE  EInv'
  <2> DEFINE M == {Link(a, uid, "signin", uid) : a \in to}
  <2>1. \A a \in to : a \in Of(uid) /\ (a = p \/ emails[p].verified)
    BY <1>3 DEF VerifiedOf
  <2>2. \A a \in to : Link(a, uid, "signin", uid) \in Links /\ LinkOK(Link(a, uid, "signin", uid))
    BY <2>1, SigninLink
  <2>3. M \in SUBSET Links /\ (\A m \in M : LinkOK(m)) /\ mail' = mail \cup M
    BY <1>5, <2>2
  <2> HIDE DEF M
  <2> QED
    BY <1>3, <2>3, LinksAdded
<1> QED
  BY <1>1, <1>4, <1>5

\* What happens beside the requests: time passes, calls fail elsewhere, and
\* reminders come and go.
LEMMA BesideKeeps ==
  ASSUME EInv, UNCHANGED <<emails, signins, mail, announced, job, drawn>>,
         clock' \in Times, faults' \in 0..MaxFaults, faults <= faults',
         reminders' \in [Keys -> SUBSET Reminders]
  PROVE  EInv'
<1>1. PICK r : r \notin Jobs
  BY NoSetContainsEverything
<1>2. Moves(r) /\ Announces(r)
  BY <1>1, DrawnIs DEF Moves, Announces, EInv, TypeOK
<1> QED
  BY <1>1, <1>2, QuietStep DEF EInv, TypeOK

LEMMA EStep == ASSUME EInv, ENext PROVE EInv'
<1>1. ASSUME NEW r \in Jobs, Start(r) PROVE EInv'
  BY <1>1, StartsKeep, StartVerifyKeeps, BounceKeeps DEF Start
<1>2. ASSUME NEW r \in Jobs, Step(r) PROVE EInv'
  BY <1>2, LookupKeeps, LookupOwnKeeps, ClearKeeps, InsertKeeps, MailKeeps, MailFailsKeeps,
     DeletesKeep, RemindKeeps, LoadAccountKeeps, MatchSecondaryKeeps, VerifyTokensKeeps,
     VerifyEmailKeeps, AnnounceKeeps, PromoteKeeps DEF Step
<1>3. ASSUME NEW uid \in Accounts, Signin(uid) \/ Resend(uid) PROVE EInv'
  BY <1>3, SigninKeeps, ResendKeeps
<1>4. CASE Tick
  <2>1. clock' \in Times /\ UNCHANGED <<emails, signins, mail, reminders, announced, job, drawn, faults>>
    BY <1>4, ConstantsAssumption DEF Tick, tables, Times, EInv, TypeOK
  <2> QED
    BY <2>1, DrawnIs, BesideKeeps DEF EInv, TypeOK
<1> QED
  BY <1>1, <1>2, <1>3, <1>4, FailKeeps DEF ENext

LEMMA EInitHolds == EInit => EInv
<1> SUFFICES ASSUME EInit PROVE EInv
  OBVIOUS
<1>1. Stored = {}
  BY DEF EInit, Stored
<1>2. TypeOK
  BY ConstantsAssumption DEF EInit, TypeOK, Times
<1> QED
  BY <1>1, <1>2 DEF EInit, EInv, RowsOK, LinksOK, JobsOK, OnePrimary, VerifiedByOwnOrPrimaryLink, AllConfirmed

-----------------------------------------------------------------------------
(* Requests beside the reminders.                                          *)

LEMMA CreatingIs ==
  ASSUME EInv, NEW j \in Jobs, NEW uid, Creating(j, uid)
  PROVE  uid \in Ids /\ uid \in Nat /\ uid <= drawn
<1>1. job[j] # None /\ JobShape(job[j]) /\ JobFacts(j) /\ job[j].row \in Rows /\ job[j].row.uid = uid
  BY JobIs DEF Creating, JobShape
<1> QED
  BY <1>1, RowIs DEF JobFacts, Drawn

\* No reminder is added, and an account that is created is a new one.
LEMMA NoReminder ==
  ASSUME EInv, EInv', RInv, UNCHANGED rvars, NEW r,
         \A k \in Keys : reminders'[k] \subseteq reminders[k],
         drawn <= drawn',
         \A j \in Jobs, u \in Ids : Creating(j, u)' => Creating(j, u) \/ (u > drawn /\ j = r)
  PROVE  RInv'
<1>1. UNCHANGED <<phase, batch, failed, hand, sent, mailed, doubted, refusals>>
  BY DEF rvars
<1>2. RTypeOK'
  BY <1>1 DEF RInv, RTypeOK, EInv
<1>3. \A k \in Keys : Waiting(k)' \subseteq Waiting(k) /\ Held' = Held
  BY <1>1 DEF Waiting, Held
<1>4. ScriptOK'
  BY <1>1, <1>3 DEF RInv, ScriptOK, RTypeOK, Held
<1>5. ASSUME NEW k \in Keys, NEW e \in Waiting(k) PROVE e.uid \in Nat
  <2>1. e \in Reminders
    BY <1>5 DEF Waiting, Held, RInv, RTypeOK, TypeOK, Hands
  <2> QED
    BY <2>1, ConstantsAssumption DEF Reminders, Ids
<1>6. ASSUME NEW k \in Keys, NEW u \in Ids, u > drawn PROVE Unborn(k, u)
  <2>1. \A e \in Waiting(k) : e.uid <= drawn /\ e.uid # u
    BY <1>5, <1>6, DrawnIs, ConstantsAssumption DEF RInv, RemindersOK, Ids
  <2> QED
    BY <1>6, <2>1 DEF Unborn, RInv, RemindersOK
<1>7. RemindersOK'
  <2>1. \A k \in Keys : \A e, f \in Waiting(k)' : e.uid = f.uid => e = f
    BY <1>3 DEF RInv, RemindersOK
  <2>2. \A k \in Keys : \A e \in Waiting(k)' : mailed'[k][e.uid] = doubted'[k][e.uid] /\ e.uid <= drawn'
    BY <1>1, <1>3, <1>5, DrawnIs DEF RInv, RemindersOK, EInv, TypeOK
  <2>3. \A k \in Keys, u \in Ids : u > drawn' => mailed'[k][u] = doubted'[k][u]
    BY <1>1, DrawnIs, ConstantsAssumption DEF RInv, RemindersOK, EInv, TypeOK, Ids
  <2>4. ASSUME NEW j \in Jobs, NEW u \in Ids, Creating(j, u)', NEW k \in Keys PROVE Unborn(k, u)'
    <3>1. Unborn(k, u)
      BY <1>6, <2>4 DEF RInv, RemindersOK
    <3> QED
      BY <1>1, <1>3, <3>1 DEF Unborn
  <2>5. ASSUME NEW i \in Jobs, NEW j \in Jobs, NEW u \in Ids, Creating(i, u)', Creating(j, u)'
        PROVE  i = j
    <3>1. \A q \in Jobs : Creating(q, u) => ~(u > drawn)
      BY CreatingIs, DrawnIs
    <3> QED
      BY <2>5, <3>1 DEF RInv, RemindersOK
  <2> QED
    BY <2>1, <2>2, <2>3, <2>4, <2>5 DEF RemindersOK
<1> QED
  BY <1>1, <1>2, <1>4, <1>7 DEF RInv, RemindedOnce

\* The reminders of an account are made, some at least, and the request that
\* made them ends.
LEMMA EnrollKeeps ==
  ASSUME EInv, EInv', RInv, UNCHANGED rvars, NEW r \in Jobs, NEW uid, NEW keys,
         Creating(r, uid), End(r), UNCHANGED drawn,
         reminders' = Enrolled(uid, clock, keys)
  PROVE  RInv'
<1>1. UNCHANGED <<phase, batch, failed, hand, sent, mailed, doubted, refusals>>
  BY DEF rvars
<1>2. RTypeOK'
  BY <1>1 DEF RInv, RTypeOK, EInv
<1>3. uid \in Ids /\ uid \in Nat /\ uid <= drawn
  BY CreatingIs
<1> DEFINE new == [uid |-> uid, at |-> clock]
<1>4. new.uid = uid
  OBVIOUS
<1> HIDE DEF new
<1>5. \A k \in Keys : reminders'[k] \subseteq reminders[k] \cup {new}
  BY DEF Enrolled, new
<1>6. \A k \in Keys : Waiting(k)' \subseteq Waiting(k) \cup {new} /\ Held' = Held
  BY <1>1, <1>5 DEF Waiting, Held
<1>7. \A k \in Keys : mailed[k][uid] = doubted[k][uid] /\ \A e \in Waiting(k) : e.uid # uid /\ e # new
  BY <1>3, <1>4 DEF RInv, RemindersOK, Unborn
<1>8. ScriptOK'
  <2>1. \A k \in Keys : new \notin batch[k]
    BY <1>7 DEF Waiting
  <2>2. phase.key \in Keys => new \notin Held
    BY <1>7 DEF Waiting
  <2>3. \A k \in Keys : batch[k] \cap reminders'[k] = {}
    BY <1>5, <2>1 DEF RInv, ScriptOK
  <2>4. phase.key \in Keys => Held \cap (reminders'[phase.key] \cup failed) = {}
    BY <1>5, <2>2 DEF RInv, ScriptOK
  <2> QED
    BY <1>1, <1>6, <2>3, <2>4 DEF RInv, ScriptOK, Held
<1>9. ASSUME NEW j \in Jobs, NEW u, Creating(j, u)' PROVE j # r /\ Creating(j, u)
  <2>1. job'[r] = None /\ \A q \in Jobs : q # r => job'[q] = job[q]
    BY EndStep DEF Moves
  <2> QED
    BY <1>9, <2>1 DEF Creating
<1>10. RemindersOK'
  <2>1. \A k \in Keys : \A e, f \in Waiting(k)' : e.uid = f.uid => e = f
    BY <1>4, <1>6, <1>7 DEF RInv, RemindersOK
  <2>2. \A k \in Keys : \A e \in Waiting(k)' : mailed'[k][e.uid] = doubted'[k][e.uid] /\ e.uid <= drawn'
    BY <1>1, <1>3, <1>4, <1>6, <1>7 DEF RInv, RemindersOK
  <2>3. \A k \in Keys, u \in Ids : u > drawn' => mailed'[k][u] = doubted'[k][u]
    BY <1>1 DEF RInv, RemindersOK
  <2>4. ASSUME NEW j \in Jobs, NEW u \in Ids, Creating(j, u)', NEW k \in Keys PROVE Unborn(k, u)'
    <3>1. Creating(j, u) /\ u # uid
      BY <1>3, <1>9, <2>4 DEF RInv, RemindersOK
    <3>2. Unborn(k, u)
      BY <3>1 DEF RInv, RemindersOK
    <3> QED
      BY <1>1, <1>4, <1>6, <3>1, <3>2 DEF Unborn
  <2>5. \A i, j \in Jobs, u \in Ids : Creating(i, u)' /\ Creating(j, u)' => i = j
    BY <1>9 DEF RInv, RemindersOK
  <2> QED
    BY <2>1, <2>2, <2>3, <2>4, <2>5 DEF RemindersOK
<1> QED
  BY <1>1, <1>2, <1>8, <1>10 DEF RInv, RemindedOnce

\* Request r goes on where it is not creating an account, or where it was.
LEMMA OtherRequest ==
  ASSUME EInv, NEW r \in Jobs, Moves(r), NEW u,
         ~Creating(r, u)'
  PROVE  \A j \in Jobs : Creating(j, u)' => Creating(j, u)
BY DEF Moves, Creating

\* An account that is being created was before, or is named by a new code.
LEMMA NewCreating ==
  ASSUME EInv, ENext
  PROVE  \E r : \A j \in Jobs, u \in Ids : Creating(j, u)' => Creating(j, u) \/ (u > drawn /\ j = r)
<1>1. ASSUME NEW r \in Jobs, Start(r)
      PROVE  \A j \in Jobs, u \in Ids : Creating(j, u)' => Creating(j, u)
  <2>1. PICK b : Begin(r, b) /\ b.pc \in {"lookup", "load", "erase"}
    <3>1. StartCreate(r) => \E b : Begin(r, b) /\ b.pc \in {"lookup", "load", "erase"}
      BY DEF StartCreate, Request
    <3>2. StartAdd(r) => \E b : Begin(r, b) /\ b.pc \in {"lookup", "load", "erase"}
      BY DEF StartAdd, Request
    <3>3. StartSetPrimary(r) => \E b : Begin(r, b) /\ b.pc \in {"lookup", "load", "erase"}
      BY DEF StartSetPrimary, Request
    <3>4. StartVerify(r) => \E b : Begin(r, b) /\ b.pc \in {"lookup", "load", "erase"}
      BY DEF StartVerify, Request
    <3>5. StartDestroyEmail(r) => \E b : Begin(r, b) /\ b.pc \in {"lookup", "load", "erase"}
      BY DEF StartDestroyEmail, Request
    <3>6. StartDestroyAccount(r) => \E b : Begin(r, b) /\ b.pc \in {"lookup", "load", "erase"}
      BY DEF StartDestroyAccount, Request
    <3>7. Bounce(r) => \E b : Begin(r, b) /\ b.pc \in {"lookup", "load", "erase"}
      BY DEF Bounce, Request
    <3> QED
      BY <1>1, <3>1, <3>2, <3>3, <3>4, <3>5, <3>6, <3>7 DEF Start
  <2>2. job'[r] = b /\ \A q \in Jobs : q # r => job'[q] = job[q]
    BY <2>1 DEF Begin, EInv, TypeOK
  <2> QED
    BY <2>1, <2>2 DEF Creating
<1>2. ASSUME NEW r \in Jobs, job[r] # None,
             \/ End(r)
             \/ \E pc \in Steps : Goto(r, pc) /\ pc \notin {"mail", "remind"}
             \/ Goto(r, "remind") /\ job[r].pc = "mail"
             \/ \E pc \in Steps, row \in Rows \cup {None} :
                  Continue(r, pc, row) /\ pc \notin {"mail", "remind"}
      PROVE  \A j \in Jobs, u \in Ids : Creating(j, u)' => Creating(j, u)
  <2>1. CASE End(r)
    BY <2>1, EndStep, OtherRequest DEF Creating
  <2>2. ASSUME NEW pc \in Steps, Goto(r, pc), pc \notin {"mail", "remind"}
        PROVE  \A j \in Jobs, u \in Ids : Creating(j, u)' => Creating(j, u)
    BY <1>2, <2>2, GotoStep, OtherRequest DEF Creating
  <2>3. CASE Goto(r, "remind") /\ job[r].pc = "mail"
    <3>1. /\ Moves(r) /\ job'[r].op = job[r].op /\ job'[r].row = job[r].row
      BY <1>2, <2>3, GotoStep DEF Steps
    <3> QED
      BY <1>2, <2>3, <3>1 DEF Creating, Moves
  <2>4. ASSUME NEW pc \in Steps, NEW row \in Rows \cup {None}, Continue(r, pc, row),
               pc \notin {"mail", "remind"}
        PROVE  \A j \in Jobs, u \in Ids : Creating(j, u)' => Creating(j, u)
    BY <1>2, <2>4, ContinueStep, OtherRequest DEF Creating
  <2> QED
    BY <1>2, <2>1, <2>2, <2>3, <2>4
<1>3. ASSUME NEW r \in Jobs,
             \/ LookupOwn(r) \/ Clear(r) \/ Mail(r) \/ MailFails(r) \/ Undo(r) \/ Remind(r)
             \/ VerifyTokens(r) \/ VerifyEmail(r) \/ Announce(r) \/ RemoveEmail(r)
             \/ Promote(r) \/ Erase(r)
      PROVE  \A j \in Jobs, u \in Ids : Creating(j, u)' => Creating(j, u)
  <2>1. job[r] # None
    BY <1>3 DEF LookupOwn, Clear, Mail, MailFails, Undo, Remind, VerifyTokens, VerifyEmail,
       Announce, RemoveEmail, Promote, Erase, At
  <2>2. \/ End(r)
        \/ \E pc \in Steps : Goto(r, pc) /\ pc \notin {"mail", "remind"}
        \/ Goto(r, "remind") /\ job[r].pc = "mail"
    BY <1>3 DEF LookupOwn, Clear, Mail, MailFails, Undo, Remind, VerifyTokens, VerifyEmail,
       Announce, RemoveEmail, Promote, Erase, At, Steps
  <2> QED
    BY <1>2, <2>1, <2>2
<1>4. ASSUME NEW r \in Jobs, Lookup(r) \/ LoadAccount(r) \/ MatchSecondary(r)
      PROVE  \A j \in Jobs, u \in Ids : Creating(j, u)' => Creating(j, u)
  <2>1. job[r] # None
    BY <1>4 DEF Lookup, LoadAccount, MatchSecondary, At
  <2>2. \/ End(r)
        \/ \E pc \in Steps, row \in Rows \cup {None} :
             Continue(r, pc, row) /\ pc \notin {"mail", "remind"}
    <3>1. CASE Lookup(r)
      <4>1. emails[job[r].address] \in Rows \cup {None}
        BY <2>1, <3>1, JobIs DEF Lookup, JobShape, EInv, TypeOK
      <4>2. Verdict(job[r], emails[job[r].address]) \in {"insert", "clear", "refused"}
        BY DEF Verdict
      <4> QED
        BY <3>1, <4>1, <4>2 DEF Lookup, Steps
    <3>2. CASE LoadAccount(r)
      <4>1. \A a \in PrimaryOf(job[r].uid) : emails[a] \in Rows
        BY StoredIs DEF PrimaryOf, Of
      <4>2. (IF job[r].op = "destroyEmail" THEN "remove"
             ELSE IF job[r].post.type = "secondary" THEN "match" ELSE "tokens")
              \in {"remove", "match", "tokens"}
        OBVIOUS
      <4> QED
        BY <3>2, <4>1, <4>2 DEF LoadAccount, Steps
    <3>3. CASE MatchSecondary(r)
      <4>1. \A a \in Of(job[r].uid) : emails[a] \in Rows
        BY StoredIs DEF Of
      <4> QED
        BY <3>3, <4>1 DEF MatchSecondary, Steps
    <3> QED
      BY <1>4, <3>1, <3>2, <3>3
  <2> QED
    BY <1>2, <2>1, <2>2
<1>5. ASSUME NEW r \in Jobs, Insert(r)
      PROVE  \A j \in Jobs, u \in Ids : Creating(j, u)' => Creating(j, u) \/ (u > drawn /\ j = r)
  <2>1. job[r] # None /\ job[r].pc = "insert"
    BY <1>5 DEF Insert, At
  <2>2. CASE End(r)
    BY <1>2, <2>1, <2>2
  <2>3. CASE Continue(r, "mail", NewRow(job[r]))
    <3>1. /\ job'[r] = [job[r] EXCEPT !.pc = "mail", !.row = NewRow(job[r])]
          /\ \A q \in Jobs : q # r => job'[q] = job[q]
      BY <2>3 DEF Continue, EInv, TypeOK
    <3>2. job[r] \in JobRecords
      BY <2>1, JobIs
    <3>3. job'[r].op = job[r].op /\ job'[r].row = NewRow(job[r])
      BY <3>1, <3>2 DEF JobRecords
    <3>4. job[r].op = "create" => NewRow(job[r]).uid = drawn + 1
      BY DEF NewRow
    <3> SUFFICES ASSUME NEW j \in Jobs, NEW u \in Ids, Creating(j, u)'
                 PROVE  Creating(j, u) \/ (u > drawn /\ j = r)
      OBVIOUS
    <3>5. CASE j = r
      <4>1. job'[r].op = "create" /\ job'[r].row.uid = u
        BY <3>5 DEF Creating
      <4>2. u = drawn + 1
        BY <3>3, <3>4, <4>1
      <4> QED
        BY <3>5, <4>2, DrawnIs
    <3>6. CASE j # r
      <4>1. job'[j] = job[j]
        BY <3>1, <3>6
      <4> QED
        BY <4>1 DEF Creating
    <3> QED
      BY <3>5, <3>6
  <2> QED
    BY <1>5, <2>2, <2>3 DEF Insert
<1>6. ASSUME NEW r \in Jobs, Fail(r)
      PROVE  \A j \in Jobs, u \in Ids : Creating(j, u)' => Creating(j, u)
  BY <1>2, <1>6 DEF Fail
<1>7. ASSUME UNCHANGED job PROVE \A j \in Jobs, u \in Ids : Creating(j, u)' => Creating(j, u)
  BY <1>7 DEF Creating
<1>8. ASSUME NEW uid, Signin(uid) \/ Resend(uid) PROVE UNCHANGED job
  BY <1>8 DEF Signin, Resend
<1>9. Tick => UNCHANGED job
  BY DEF Tick
<1> QED
  BY <1>1, <1>3, <1>4, <1>5, <1>6, <1>7, <1>8, <1>9 DEF ENext, Step

LEMMA CountsGrow ==
  ASSUME EInv, ENext
  PROVE  drawn <= drawn' /\ faults <= faults'
<1>1. ASSUME NEW r \in Jobs, Start(r) PROVE UNCHANGED <<drawn, faults>>
  BY <1>1 DEF Start, StartCreate, StartAdd, StartSetPrimary, StartVerify, StartDestroyEmail,
     StartDestroyAccount, Bounce, Begin
<1>2. ASSUME NEW r \in Jobs, Insert(r) PROVE drawn <= drawn' /\ faults <= faults'
  BY <1>2, DrawnIs DEF Insert
<1>3. ASSUME NEW r \in Jobs, Step(r), ~Insert(r) PROVE UNCHANGED <<drawn, faults>>
  BY <1>3 DEF Step, Lookup, LookupOwn, Clear, Mail, MailFails, Undo, Remind, LoadAccount,
     MatchSecondary, VerifyTokens, VerifyEmail, Announce, RemoveEmail, Promote, Erase, Other
<1>4. ASSUME NEW r \in Jobs, Fail(r) PROVE drawn <= drawn' /\ faults <= faults'
  BY <1>4, DrawnIs DEF Fail
<1>5. ASSUME NEW uid, Signin(uid) \/ Resend(uid) PROVE UNCHANGED <<drawn, faults>>
  BY <1>5 DEF Signin, Resend, Other
<1>6. Tick => UNCHANGED <<drawn, faults>>
  BY DEF Tick
<1> QED
  BY <1>1, <1>2, <1>3, <1>4, <1>5, <1>6, DrawnIs DEF ENext

\* The requests that make reminders and events, or take them back.
LEMMA QuietReminders ==
  ASSUME ENext
  PROVE  \/ UNCHANGED <<reminders, announced>>
         \/ \E r \in Jobs : Fail(r) \/ Announce(r) \/ Remind(r)
<1>1. ASSUME NEW r \in Jobs, Start(r) PROVE UNCHANGED <<reminders, announced>>
  BY <1>1 DEF Start, StartCreate, StartAdd, StartSetPrimary, StartVerify, StartDestroyEmail,
     StartDestroyAccount, Bounce, Begin
<1>2. ASSUME NEW r \in Jobs, Step(r), ~Announce(r), ~Remind(r) PROVE UNCHANGED <<reminders, announced>>
  BY <1>2 DEF Step, Lookup, LookupOwn, Clear, Insert, Mail, MailFails, Undo, LoadAccount,
     MatchSecondary, VerifyTokens, VerifyEmail, RemoveEmail, Promote, Erase, tables
<1>3. ASSUME NEW uid, Signin(uid) \/ Resend(uid) PROVE UNCHANGED <<reminders, announced>>
  BY <1>3 DEF Signin, Resend
<1>4. Tick => UNCHANGED <<reminders, announced>>
  BY DEF Tick, tables
<1> QED
  BY <1>1, <1>2, <1>3, <1>4 DEF ENext

LEMMA RequestKeeps ==
  ASSUME EInv, EInv', RInv, ENext, UNCHANGED rvars
  PROVE  RInv'
<1>1. PICK q : \A j \in Jobs, u \in Ids : Creating(j, u)' => Creating(j, u) \/ (u > drawn /\ j = q)
  BY NewCreating
<1>2. drawn <= drawn'
  BY CountsGrow
<1>3. ASSUME \A k \in Keys : reminders'[k] \subseteq reminders[k] PROVE RInv'
  BY <1>1, <1>2, <1>3, NoReminder
<1>4. ASSUME NEW r \in Jobs, At(r, "remind"), NEW keys, End(r), UNCHANGED drawn,
             reminders' = Enrolled(job[r].row.uid, clock, keys)
      PROVE  RInv'
  <2>1. PICK uid : uid = job[r].row.uid
    OBVIOUS
  <2>2. job[r].op = "create"
    BY <1>4, JobIs DEF JobShape, Ops, At
  <2>3. Creating(r, uid)
    BY <1>4, <2>1, <2>2 DEF Creating, At
  <2> QED
    BY <1>4, <2>1, <2>3, EnrollKeeps
<1>5. ASSUME NEW uid, NEW keys, reminders' = Discharged(uid, keys) PROVE RInv'
  BY <1>3, <1>5 DEF Discharged
<1>6. ASSUME NEW r \in Jobs, Remind(r) PROVE RInv'
  BY <1>4, <1>6 DEF Remind, Other
<1>7. ASSUME NEW r \in Jobs, Announce(r) PROVE RInv'
  <2>1. PICK uid : uid = job[r].uid
    OBVIOUS
  <2> QED
    BY <1>5, <1>7, <2>1 DEF Announce
<1>8. ASSUME NEW r \in Jobs, Fail(r) PROVE RInv'
  <2>1. End(r) /\ UNCHANGED drawn
    BY <1>8 DEF Fail
  <2>2. PICK uid : uid = job[r].uid
    OBVIOUS
  <2> QED
    BY <1>3, <1>4, <1>5, <1>8, <2>1, <2>2 DEF Fail
<1> QED
  BY <1>3, <1>6, <1>7, <1>8, QuietReminders

-----------------------------------------------------------------------------
(* The script.                                                             *)

LEMMA ScriptTypes ==
  ASSUME RInv
  PROVE  /\ phase.key \in Keys \cup {0} /\ 0 \notin Keys
         /\ phase.name \in {"idle", "pop", "work", "send"}
         /\ phase = [name |-> phase.name, key |-> phase.key]
         /\ phase.name # "idle" => phase.key \in Keys
         /\ hand # None => hand \in Hands /\ hand.reminder \in Reminders
         /\ Held = IF hand = None THEN {} ELSE {hand.reminder}
<1>1. phase \in Phases
  BY DEF RInv, RTypeOK
<1>2. 0 \notin Keys
  BY ConstantsAssumption
<1>3. hand # None => hand \in Hands /\ hand.reminder \in Reminders
  BY DEF RInv, RTypeOK, Hands
<1> QED
  BY <1>1, <1>2, <1>3 DEF Phases, RInv, ScriptOK, Held

LEMMA ToStep ==
  ASSUME NEW name \in {"pop", "work", "send"}, NEW key \in Keys, To(name, key)
  PROVE  phase' \in Phases /\ phase'.name = name /\ phase'.key = key /\ phase' # Idle
BY ConstantsAssumption DEF To, Phases, Idle

\* The script makes no reminder, and mails none other than by a send that is
\* reported as failed.
LEMMA NothingSent ==
  ASSUME EInv', RInv, UNCHANGED <<job, drawn>>,
         mailed' \in [Keys -> [Ids -> Nat]], doubted' \in [Keys -> [Ids -> Nat]],
         \A k \in Keys, u \in Ids :
           mailed[k][u] = doubted[k][u] => mailed'[k][u] = doubted'[k][u],
         RemindedOnce',
         phase' \in Phases, batch' \in [Keys -> SUBSET Reminders], failed' \subseteq Reminders,
         hand' \in Hands \cup {None}, sent' \subseteq Ids, refusals' \in 0..MaxRefusals,
         \A k \in Keys : Waiting(k)' \subseteq Waiting(k),
         ScriptOK'
  PROVE  RInv'
<1>1. RTypeOK'
  BY DEF RInv, RTypeOK, EInv
<1>2. \A k \in Keys : \A e \in Waiting(k) : e.uid \in Ids
  BY ScriptTypes DEF Waiting, RInv, RTypeOK, TypeOK, Reminders
<1>3. RemindersOK'
  BY <1>2 DEF RInv, RemindersOK, Creating, Unborn
<1> QED
  BY <1>1, <1>3 DEF RInv

LEMMA NothingMailed ==
  ASSUME EInv', RInv, UNCHANGED <<job, drawn, mailed, doubted>>,
         phase' \in Phases, batch' \in [Keys -> SUBSET Reminders], failed' \subseteq Reminders,
         hand' \in Hands \cup {None}, sent' \subseteq Ids, refusals' \in 0..MaxRefusals,
         \A k \in Keys : Waiting(k)' \subseteq Waiting(k),
         ScriptOK'
  PROVE  RInv'
<1>1. mailed' \in [Keys -> [Ids -> Nat]] /\ doubted' \in [Keys -> [Ids -> Nat]] /\ RemindedOnce'
  BY DEF RInv, RTypeOK, RemindedOnce
<1> QED
  BY <1>1, NothingSent

LEMMA RunKeeps ==
  ASSUME EInv, EInv', RInv, Run
  PROVE  RInv'
<1>1. /\ phase.name = "idle" /\ phase.key = 0 /\ To("pop", 1) /\ sent' = {}
      /\ UNCHANGED <<job, drawn, reminders, batch, failed, hand, mailed, doubted, refusals>>
  BY DEF Run, Idle, evars
<1>2. phase' \in Phases /\ phase'.name = "pop" /\ phase'.key = 1 /\ 1 \in Keys
  BY <1>1, ToStep, IntervalAssumption
<1>3. failed = {} /\ hand = None /\ Held = {} /\ Held' = {}
  BY <1>1 DEF RInv, ScriptOK, Held
<1>4. \A k \in Keys : Waiting(k)' \subseteq Waiting(k)
  BY <1>1, <1>3 DEF Waiting
<1>5. ScriptOK'
  BY <1>1, <1>2, <1>3 DEF RInv, ScriptOK
<1> QED
  BY <1>1, <1>2, <1>4, <1>5, NothingMailed DEF RInv, RTypeOK

LEMMA PopKeeps ==
  ASSUME EInv, EInv', RInv, Pop
  PROVE  RInv'
<1> DEFINE k == phase.key
<1>1. /\ phase.name = "pop" /\ batch' = [batch EXCEPT ![k] = Due(k)]
      /\ reminders' = [reminders EXCEPT ![k] = @ \ Due(k)]
      /\ UNCHANGED <<job, drawn, failed, hand, sent, mailed, doubted, refusals>>
  BY DEF Pop, Others
<1>2. k \in Keys /\ failed = {} /\ hand = None /\ Held = {} /\ Held' = {}
  BY <1>1, ScriptTypes DEF RInv, ScriptOK, Held
<1>3. phase' \in Phases /\ phase'.name \in {"pop", "work"} /\ phase'.key \in Keys
  <2>1. CASE More(k) /\ To("pop", k + 1)
    <3>1. PICK n \in Keys : n = k + 1
      BY <2>1 DEF More
    <3> QED
      BY <2>1, <3>1, ToStep
  <2>2. CASE To("work", 1)
    BY <2>2, ToStep, IntervalAssumption
  <2> QED
    BY <1>2, <2>1, <2>2 DEF Pop
<1>4. Due(k) \subseteq reminders[k] /\ reminders[k] \subseteq Reminders
  BY <1>2 DEF Due, RInv, RTypeOK, TypeOK
<1>5. /\ batch' \in [Keys -> SUBSET Reminders]
      /\ batch'[k] = Due(k) /\ reminders'[k] = reminders[k] \ Due(k)
      /\ \A l \in Keys : l # k => batch'[l] = batch[l] /\ reminders'[l] = reminders[l]
  <2> HIDE DEF k
  <2> QED
    BY <1>1, <1>2, <1>4 DEF RInv, RTypeOK, TypeOK
<1>6. \A l \in Keys : Waiting(l)' \subseteq Waiting(l)
  <2> HIDE DEF k
  <2>1. \A l \in Keys : reminders'[l] \cup batch'[l] \subseteq reminders[l] \cup batch[l]
    BY <1>4, <1>5
  <2> QED
    BY <1>1, <1>2, <2>1 DEF Waiting
<1>7. \A l \in Keys : batch'[l] \cap reminders'[l] = {}
  <2> HIDE DEF k
  <2> QED
    BY <1>5 DEF RInv, ScriptOK
<1>8. ScriptOK'
  <2>1. phase'.name # "idle" /\ phase'.key # 0 /\ phase'.name # "send"
    BY <1>3, ConstantsAssumption
  <2>2. failed' = {} /\ hand' = None
    BY <1>1, <1>2
  <2> QED
    BY <1>2, <1>7, <2>1, <2>2 DEF ScriptOK
<1> QED
  BY <1>1, <1>3, <1>5, <1>6, <1>8, NothingMailed DEF RInv, RTypeOK

LEMMA TakeIs ==
  ASSUME RInv, NEW e, Take(e), NEW k, k = phase.key
  PROVE  /\ k \in Keys /\ phase.name = "work" /\ hand = None /\ Held = {}
         /\ e \in batch[k] /\ e \in Reminders /\ e \in Waiting(k)
         /\ batch' \in [Keys -> SUBSET Reminders] /\ batch'[k] = batch[k] \ {e}
         /\ \A l \in Keys : l # k => batch'[l] = batch[l]
<1>1. phase.name = "work" /\ e \in batch[k] /\ batch' = [batch EXCEPT ![k] = @ \ {e}]
  BY DEF Take
<1>2. k \in Keys /\ hand = None /\ Held = {}
  BY <1>1, ScriptTypes DEF RInv, ScriptOK
<1> QED
  BY <1>1, <1>2 DEF RInv, RTypeOK, Waiting

LEMMA SkipKeeps ==
  ASSUME EInv, EInv', RInv, NEW e, Skip(e)
  PROVE  RInv'
<1>1. PICK k : k = phase.key
  OBVIOUS
<1>2. /\ Take(e) /\ failed' = failed \cup {e}
      /\ UNCHANGED <<job, drawn, reminders, phase, hand, sent, mailed, doubted, refusals>>
  BY DEF Skip, evars
<1>3. /\ k \in Keys /\ phase.name = "work" /\ hand = None /\ Held = {}
      /\ e \in batch[k] /\ e \in Reminders
      /\ batch' \in [Keys -> SUBSET Reminders] /\ batch'[k] = batch[k] \ {e}
      /\ \A l \in Keys : l # k => batch'[l] = batch[l]
  BY <1>1, <1>2, TakeIs
<1>4. Held' = {}
  BY <1>2, <1>3 DEF Held
<1>5. \A l \in Keys : Waiting(l)' \subseteq Waiting(l)
  BY <1>1, <1>2, <1>3, <1>4 DEF Waiting
<1>6. ScriptOK'
  BY <1>1, <1>2, <1>3, <1>4 DEF RInv, ScriptOK
<1> QED
  BY <1>2, <1>3, <1>5, <1>6, NothingMailed DEF RInv, RTypeOK

LEMMA ReadKeeps ==
  ASSUME EInv, EInv', RInv, NEW e, Read(e)
  PROVE  RInv'
<1>1. PICK k : k = phase.key
  OBVIOUS
<1>2. /\ Take(e)
      /\ UNCHANGED <<job, drawn, reminders, failed, sent, mailed, doubted, refusals>>
      /\ \/ UNCHANGED <<phase, hand>>
         \/ \E a \in PrimaryOf(e.uid) :
              hand' = [reminder |-> e, row |-> emails[a]] /\ To("send", phase.key)
  BY DEF Read, evars
<1>3. /\ k \in Keys /\ phase.name = "work" /\ hand = None /\ Held = {}
      /\ e \in batch[k] /\ e \in Reminders
      /\ batch' \in [Keys -> SUBSET Reminders] /\ batch'[k] = batch[k] \ {e}
      /\ \A l \in Keys : l # k => batch'[l] = batch[l]
  BY <1>1, <1>2, TakeIs
<1>4. CASE UNCHANGED <<phase, hand>>
  <2>1. Held' = {}
    BY <1>3, <1>4 DEF Held
  <2>2. \A l \in Keys : Waiting(l)' \subseteq Waiting(l)
    BY <1>1, <1>2, <1>3, <1>4, <2>1 DEF Waiting
  <2>3. ScriptOK'
    BY <1>1, <1>2, <1>3, <1>4, <2>1 DEF RInv, ScriptOK
  <2> QED
    BY <1>2, <1>3, <1>4, <2>2, <2>3, NothingMailed DEF RInv, RTypeOK
<1>5. ASSUME NEW a \in PrimaryOf(e.uid), hand' = [reminder |-> e, row |-> emails[a]],
             To("send", k)
      PROVE  RInv'
  <2>1. phase' \in Phases /\ phase'.name = "send" /\ phase'.key = k
    BY <1>3, <1>5, ToStep
  <2>2. emails[a] \in Rows
    BY StoredIs DEF PrimaryOf, Of
  <2>3. hand' \in Hands /\ hand'.reminder = e /\ hand' # None
    BY <1>3, <1>5, <2>2, HandAssumption DEF Hands
  <2>4. Held' = {e}
    BY <2>3 DEF Held
  <2>5. \A l \in Keys : Waiting(l)' \subseteq Waiting(l)
    BY <1>1, <1>2, <1>3, <2>1, <2>4 DEF Waiting
  <2>6. e \notin reminders[k] /\ e \notin failed
    BY <1>1, <1>3 DEF RInv, ScriptOK
  <2>7. ScriptOK'
    BY <1>1, <1>2, <1>3, <2>1, <2>3, <2>4, <2>6, ScriptTypes DEF RInv, ScriptOK
  <2> QED
    BY <1>2, <1>3, <2>1, <2>3, <2>5, <2>7, NothingMailed DEF RInv, RTypeOK
<1> QED
  BY <1>1, <1>2, <1>4, <1>5

LEMMA HandIs ==
  ASSUME RInv, phase.name = "send", NEW k, k = phase.key, NEW e, e = hand.reminder
  PROVE  /\ k \in Keys /\ hand # None /\ e \in Reminders /\ Held = {e} /\ e \in Waiting(k)
         /\ e \notin reminders[k] /\ e \notin batch[k] /\ e \notin failed
<1>1. k \in Keys /\ hand # None /\ e \in Reminders /\ Held = {e}
  BY ScriptTypes DEF RInv, ScriptOK
<1>2. e \notin reminders[k] /\ e \notin batch[k] /\ e \notin failed
  BY <1>1 DEF RInv, ScriptOK
<1> QED
  BY <1>1, <1>2 DEF Waiting

\* One more reminder is counted.
LEMMA CountedOnce ==
  ASSUME NEW c \in [Keys -> [Ids -> Nat]], NEW k \in Keys, NEW uid \in Ids, NEW d,
         d = [c EXCEPT ![k][uid] = @ + 1]
  PROVE  /\ d \in [Keys -> [Ids -> Nat]] /\ d[k][uid] = c[k][uid] + 1
         /\ \A l \in Keys, u \in Ids : l # k \/ u # uid => d[l][u] = c[l][u]
<1> DEFINE n == c[k][uid] + 1
           f == [c[k] EXCEPT ![uid] = n]
<1>1. c[k] \in [Ids -> Nat] /\ n \in Nat
  OBVIOUS
<1>2. d = [c EXCEPT ![k] = f]
  OBVIOUS
<1> HIDE DEF n
<1>3. f \in [Ids -> Nat] /\ f[uid] = n /\ \A u \in Ids : u # uid => f[u] = c[k][u]
  BY <1>1
<1> HIDE DEF f
<1> QED
  BY <1>1, <1>2, <1>3 DEF n

LEMMA SendKeeps ==
  ASSUME EInv, EInv', RInv, Send
  PROVE  RInv'
<1>1. PICK k, e, uid : k = phase.key /\ e = hand.reminder /\ uid = e.uid
  OBVIOUS
<1>2. /\ phase.name = "send" /\ sent' = sent \cup {uid} /\ hand' = None /\ To("work", k)
      /\ mailed' = [mailed EXCEPT ![k][uid] = @ + 1]
      /\ UNCHANGED <<job, drawn, reminders, batch, failed, doubted, refusals>>
  BY <1>1 DEF Send, evars
<1>3. /\ k \in Keys /\ hand # None /\ e \in Reminders /\ Held = {e} /\ e \in Waiting(k)
      /\ e \notin reminders[k] /\ e \notin batch[k] /\ e \notin failed
  BY <1>1, <1>2, HandIs
<1>4. uid \in Ids /\ uid <= drawn /\ uid \in Nat /\ mailed[k][uid] = doubted[k][uid]
  BY <1>1, <1>3, ConstantsAssumption DEF Reminders, RInv, RemindersOK, Ids
<1>5. phase' \in Phases /\ phase'.name = "work" /\ phase'.key = k /\ Held' = {}
  BY <1>2, <1>3, ToStep DEF Held
<1>6. /\ mailed' \in [Keys -> [Ids -> Nat]] /\ doubted' = doubted
      /\ doubted \in [Keys -> [Ids -> Nat]]
      /\ mailed'[k][uid] = mailed[k][uid] + 1
      /\ \A l \in Keys, u \in Ids : l # k \/ u # uid => mailed'[l][u] = mailed[l][u]
  BY <1>2, <1>3, <1>4, CountedOnce DEF RInv, RTypeOK
<1>7. \A l \in Keys : Waiting(l)' \subseteq Waiting(l)
  BY <1>1, <1>2, <1>5 DEF Waiting
<1>8. \A d \in Waiting(k)' : d.uid # uid
  <2>1. e \notin Waiting(k)'
    BY <1>1, <1>2, <1>3, <1>5 DEF Waiting
  <2> QED
    BY <1>1, <1>3, <1>7, <2>1 DEF RInv, RemindersOK
<1>9. \A l \in Keys : \A d \in Waiting(l) : d.uid \in Ids
  BY ScriptTypes DEF Waiting, RInv, RTypeOK, TypeOK, Reminders
<1>10. RTypeOK'
  BY <1>2, <1>4, <1>5, <1>6 DEF RInv, RTypeOK, EInv
<1>11. ScriptOK'
  BY <1>1, <1>2, <1>3, <1>5, ScriptTypes DEF RInv, ScriptOK
<1>12. RemindersOK'
  <2>1. \A l \in Keys : \A d, f \in Waiting(l)' : d.uid = f.uid => d = f
    BY <1>7 DEF RInv, RemindersOK
  <2>2. \A l \in Keys : \A d \in Waiting(l)' : mailed'[l][d.uid] = doubted'[l][d.uid] /\ d.uid <= drawn'
    BY <1>2, <1>6, <1>7, <1>8, <1>9 DEF RInv, RemindersOK
  <2>3. \A l \in Keys, u \in Ids : u > drawn' => mailed'[l][u] = doubted'[l][u]
    BY <1>2, <1>4, <1>6, DrawnIs DEF RInv, RemindersOK
  <2>4. ASSUME NEW j \in Jobs, NEW u \in Ids, Creating(j, u)', NEW l \in Keys PROVE Unborn(l, u)'
    <3>1. Creating(j, u)
      BY <1>2, <2>4 DEF Creating
    <3>2. \A m \in Keys : Unborn(m, u)
      BY <3>1 DEF RInv, RemindersOK
    <3>3. u # uid
      BY <1>1, <1>3, <3>2 DEF Unborn
    <3> QED
      BY <1>6, <1>7, <3>2, <3>3 DEF Unborn
  <2>5. \A i, j \in Jobs, u \in Ids : Creating(i, u)' /\ Creating(j, u)' => i = j
    BY <1>2 DEF RInv, RemindersOK, Creating
  <2> QED
    BY <2>1, <2>2, <2>3, <2>4, <2>5 DEF RemindersOK
<1>13. RemindedOnce'
  <2> SUFFICES ASSUME NEW l \in Keys, NEW u \in Ids PROVE mailed'[l][u] <= 1 + doubted'[l][u]
    BY DEF RemindedOnce
  <2>1. CASE l = k /\ u = uid
    BY <1>3, <1>4, <1>6, <2>1
  <2>2. CASE l # k \/ u # uid
    BY <1>6, <2>2 DEF RInv, RemindedOnce
  <2> QED
    BY <2>1, <2>2
<1> QED
  BY <1>10, <1>11, <1>12, <1>13 DEF RInv

LEMMA SendFailsKeeps ==
  ASSUME EInv, EInv', RInv, SendFails
  PROVE  RInv'
<1>1. PICK k, e : k = phase.key /\ e = hand.reminder
  OBVIOUS
<1>2. /\ phase.name = "send" /\ failed' = failed \cup {e} /\ hand' = None /\ To("work", k)
      /\ refusals' = refusals + 1 /\ refusals < MaxRefusals
      /\ UNCHANGED <<job, drawn, reminders, batch, sent>>
  BY <1>1 DEF SendFails, evars
<1>3. /\ k \in Keys /\ hand # None /\ e \in Reminders /\ Held = {e}
      /\ e \notin reminders[k] /\ e \notin batch[k] /\ e \notin failed
  BY <1>1, <1>2, HandIs
<1>4. phase' \in Phases /\ phase'.name = "work" /\ phase'.key = k /\ Held' = {}
  BY <1>2, <1>3, ToStep DEF Held
<1>5. \A l \in Keys : Waiting(l)' \subseteq Waiting(l)
  BY <1>1, <1>2, <1>3, <1>4 DEF Waiting
<1>6. ScriptOK'
  BY <1>1, <1>2, <1>3, <1>4, ScriptTypes DEF RInv, ScriptOK
<1>7. refusals' \in 0..MaxRefusals
  BY <1>2, IntervalAssumption DEF RInv, RTypeOK
<1>8. CASE UNCHANGED <<mailed, doubted>>
  BY <1>2, <1>3, <1>4, <1>5, <1>6, <1>7, <1>8, NothingMailed DEF RInv, RTypeOK
<1>9. CASE \E uid \in Ids : /\ mailed' = [mailed EXCEPT ![k][uid] = @ + 1]
                           /\ doubted' = [doubted EXCEPT ![k][uid] = @ + 1]
  <2>1. PICK uid \in Ids : /\ mailed' = [mailed EXCEPT ![k][uid] = @ + 1]
                          /\ doubted' = [doubted EXCEPT ![k][uid] = @ + 1]
    BY <1>9
  <2>2. mailed \in [Keys -> [Ids -> Nat]] /\ doubted \in [Keys -> [Ids -> Nat]]
    BY DEF RInv, RTypeOK
  <2>3. /\ mailed' \in [Keys -> [Ids -> Nat]] /\ mailed'[k][uid] = mailed[k][uid] + 1
        /\ \A l \in Keys, u \in Ids : l # k \/ u # uid => mailed'[l][u] = mailed[l][u]
    BY <1>3, <2>1, <2>2, CountedOnce
  <2>4. /\ doubted' \in [Keys -> [Ids -> Nat]] /\ doubted'[k][uid] = doubted[k][uid] + 1
        /\ \A l \in Keys, u \in Ids : l # k \/ u # uid => doubted'[l][u] = doubted[l][u]
    BY <1>3, <2>1, <2>2, CountedOnce
  <2>5. ASSUME NEW l \in Keys, NEW u \in Ids
        PROVE  /\ mailed[l][u] = doubted[l][u] => mailed'[l][u] = doubted'[l][u]
               /\ mailed'[l][u] <= 1 + doubted'[l][u]
    <3>1. mailed[l][u] \in Nat /\ doubted[l][u] \in Nat /\ mailed[l][u] <= 1 + doubted[l][u]
      BY <2>2 DEF RInv, RemindedOnce
    <3>2. CASE l = k /\ u = uid
      BY <2>3, <2>4, <3>1, <3>2
    <3>3. CASE l # k \/ u # uid
      BY <2>3, <2>4, <3>1, <3>3
    <3> QED
      BY <3>2, <3>3
  <2>6. RemindedOnce'
    BY <2>5 DEF RemindedOnce
  <2> QED
    BY <1>2, <1>3, <1>4, <1>5, <1>6, <1>7, <2>3, <2>4, <2>5, <2>6, NothingSent DEF RInv, RTypeOK
<1>10. e.uid \in Ids
  BY <1>3 DEF Reminders
<1> QED
  BY <1>1, <1>8, <1>9, <1>10 DEF SendFails

LEMMA ReinstateKeeps ==
  ASSUME EInv, EInv', RInv, Reinstate
  PROVE  RInv'
<1>1. PICK k : k = phase.key
  OBVIOUS
<1>2. /\ phase.name = "work" /\ batch[k] = {} /\ failed' = {}
      /\ reminders' = [reminders EXCEPT ![k] = @ \cup failed]
      /\ IF More(k) THEN To("work", k + 1) ELSE phase' = Idle
      /\ UNCHANGED <<job, drawn, batch, hand, sent, mailed, doubted, refusals>>
  BY <1>1 DEF Reinstate, Others
<1>3. k \in Keys /\ hand = None /\ Held = {} /\ Held' = {}
  BY <1>1, <1>2, ScriptTypes DEF RInv, ScriptOK, Held
<1>4. phase' \in Phases /\ phase'.name # "send" /\ (phase'.name = "idle" <=> phase'.key = 0)
  <2>1. CASE More(k) /\ To("work", k + 1)
    <3>1. PICK n \in Keys : n = k + 1
      BY <2>1 DEF More
    <3>2. phase' \in Phases /\ phase'.name = "work" /\ phase'.key = n
      BY <2>1, <3>1, ToStep
    <3> QED
      BY <3>1, <3>2, ConstantsAssumption
  <2>2. CASE phase' = Idle
    BY <2>2 DEF Idle, Phases
  <2> QED
    BY <1>2, <2>1, <2>2
<1>5. /\ reminders'[k] = reminders[k] \cup failed
      /\ \A l \in Keys : l # k => reminders'[l] = reminders[l]
  BY <1>2, <1>3 DEF RInv, RTypeOK, TypeOK
<1>6. \A l \in Keys : Waiting(l)' \subseteq Waiting(l)
  BY <1>1, <1>2, <1>3, <1>5 DEF Waiting
<1>7. \A l \in Keys : batch'[l] \cap reminders'[l] = {}
  BY <1>2, <1>5 DEF RInv, ScriptOK
<1>8. ScriptOK'
  BY <1>2, <1>3, <1>4, <1>7 DEF ScriptOK
<1> QED
  BY <1>2, <1>3, <1>4, <1>6, <1>8, NothingMailed DEF RInv, RTypeOK

LEMMA CrashKeeps ==
  ASSUME EInv, EInv', RInv, Crash
  PROVE  RInv'
<1>1. /\ phase' = Idle /\ batch' = [k \in Keys |-> {}] /\ failed' = {} /\ hand' = None
      /\ UNCHANGED <<job, drawn, reminders, sent, mailed, doubted, refusals>>
  BY DEF Crash, tables
<1>2. Held' = {} /\ phase' \in Phases /\ phase'.name = "idle" /\ phase'.key = 0
  BY <1>1 DEF Held, Idle, Phases
<1>3. \A k \in Keys : Waiting(k)' \subseteq Waiting(k)
  BY <1>1, <1>2 DEF Waiting
<1>4. ScriptOK'
  BY <1>1, <1>2 DEF ScriptOK
<1> QED
  BY <1>1, <1>2, <1>3, <1>4, NothingMailed DEF RInv, RTypeOK

LEMMA ScriptKeeps ==
  ASSUME EInv, RInv, Script
  PROVE  EInv' /\ RInv'
<1>1. EInv'
  <2>1. UNCHANGED <<emails, signins, mail, announced, job, drawn, clock>>
    BY DEF Script, Run, Pop, Skip, Read, Send, SendFails, Reinstate, Crash, evars, Others, tables
  <2>2. faults' \in 0..MaxFaults /\ faults <= faults'
    BY DrawnIs, ConstantsAssumption DEF Script, Run, Pop, Skip, Read, Send, SendFails, Reinstate,
       Crash, evars, Others, EInv, TypeOK
  <2>3. reminders' \in [Keys -> SUBSET Reminders]
    <3>1. CASE Pop
      BY <3>1 DEF Pop, EInv, TypeOK
    <3>2. CASE Reinstate
      BY <3>2 DEF Reinstate, RInv, RTypeOK, EInv, TypeOK
    <3>3. CASE UNCHANGED reminders
      BY <3>3 DEF EInv, TypeOK
    <3> QED
      BY <3>1, <3>2, <3>3 DEF Script, Run, Skip, Read, Send, SendFails, Crash, evars, tables
  <2> QED
    BY <2>1, <2>2, <2>3, BesideKeeps DEF EInv, TypeOK
<1>2. ASSUME NEW e, Skip(e) \/ Read(e) PROVE RInv'
  BY <1>1, <1>2, SkipKeeps, ReadKeeps
<1> QED
  BY <1>1, <1>2, RunKeeps, PopKeeps, SendKeeps, SendFailsKeeps, ReinstateKeeps, CrashKeeps DEF Script

-----------------------------------------------------------------------------
(* The invariant.                                                          *)

LEMMA InvHolds == Spec => [](EInv /\ RInv)
<1>1. Init => EInv /\ RInv
  <2> SUFFICES ASSUME Init PROVE EInv /\ RInv
    OBVIOUS
  <2>1. EInv
    BY EInitHolds DEF Init
  <2>2. Held = {} /\ \A k \in Keys : Waiting(k) = {}
    BY DEF Init, EInit, Held, Waiting
  <2>3. RTypeOK
    BY <2>1, IntervalAssumption DEF Init, RTypeOK, EInv, Idle, Phases
  <2>4. ScriptOK
    BY <2>2, ConstantsAssumption DEF Init, EInit, ScriptOK, Idle
  <2>5. RemindersOK /\ RemindedOnce
    BY <2>2 DEF Init, EInit, RemindersOK, RemindedOnce, Creating
  <2> QED
    BY <2>1, <2>3, <2>4, <2>5 DEF RInv
<1>2. EInv /\ RInv /\ [Next]_vars => EInv' /\ RInv'
  <2> SUFFICES ASSUME EInv, RInv, [Next]_vars PROVE EInv' /\ RInv'
    OBVIOUS
  <2>1. CASE ENext /\ UNCHANGED rvars
    BY <2>1, EStep, RequestKeeps
  <2>2. CASE Script
    BY <2>2, ScriptKeeps
  <2>3. CASE UNCHANGED vars
    <3>1. EInv'
      BY <2>3, DrawnIs, BesideKeeps DEF vars, evars, EInv, TypeOK
    <3>2. PICK r : r \notin Jobs
      BY NoSetContainsEverything
    <3>3. \A j \in Jobs, u \in Ids : Creating(j, u)' => Creating(j, u)
      BY <2>3 DEF vars, evars, Creating
    <3> QED
      BY <2>3, <3>1, <3>2, <3>3, DrawnIs, NoReminder DEF vars, evars
  <2> QED
    BY <2>1, <2>2, <2>3 DEF Next
<1> QED
  BY <1>1, <1>2, PTL DEF Spec

\* What the model says of its variables holds throughout.
THEOREM ReminderTypes == Spec => []RTypeOK
BY InvHolds, PTL DEF RInv

\* An address is verified only by a link that was sent to it, or by one with its
\* own code that was sent to the primary address of its account, unless it was
\* made the primary one before (emails.js /recovery_email/verify_code).
THEOREM OwnOrPrimaryLinksVerify == Spec => []VerifiedByOwnOrPrimaryLink
BY InvHolds, PTL DEF EInv

\* Once all is quiet, every account whose first address is verified was announced,
\* unless a call failed or the post that verified the address was one for a
\* second address (emails.js /recovery_email/verify_code).
THEOREM QuietMeansVerifiedAnnounced == Spec => []VerifiedAreAnnounced
<1>1. EInv => VerifiedAreAnnounced
  BY DEF EInv, AllConfirmed, Confirmed, At, VerifiedAreAnnounced, Original
<1> QED
  BY <1>1, InvHolds, PTL

\* An account gets each of its reminders at most once, and once more for every
\* send that reached it although it was reported as failed
\* (scripts/verification-reminders.js run).
THEOREM EachRemindedOnce == Spec => []RemindedOnce
BY InvHolds, PTL DEF RInv

-----------------------------------------------------------------------------
(* What MCAccountEmails!PromisedSerially says of requests that come one at *)
(* a time holds whatever overlaps, but for the overlaps named here.        *)

\* A request that is about to clear away what it takes to be unverified; and
\* the account that it takes that from.
Discards(r) ==
  \/ r.pc \in {"clear", "undo"}
  \/ r.op = "add" /\ r.pc = "mail"
  \/ r.op = "erase" /\ r.row # None
Target(r) == IF r.pc = "clear" THEN r.row.uid ELSE r.uid
Loses(r, a) == (r.pc = "clear" /\ r.row.primary) \/ r.op = "erase" \/ a = r.address

\* No address is verified of an account that another request is about to clear
\* something away from.
VerifiesApart ==
  \A j, k \in Jobs :
    At(k, "apply") /\ job[j] # None /\ Discards(job[j]) => Target(job[j]) # job[k].uid

\* No address is made the primary one that was removed since it was looked up
\* and added again.
PromotesVerified ==
  \A j \in Jobs : At(j, "promote") =>
    \A a \in Of(job[j].uid) : a = job[j].address => emails[a].verified

\* What a request clears away is unverified; and an address is added only to an
\* account whose first address is verified.
JobKept(r) ==
  /\ r.op = "add" => \A a \in Of(r.uid) : Original(emails[a]) => emails[a].verified
  /\ Discards(r) => \A a \in Of(Target(r)) : Loses(r, a) => ~emails[a].verified
KeptInv ==
  /\ \A a \in Stored : ~emails[a].early
  /\ \A a, b \in Stored :
       emails[a].uid = emails[b].uid /\ ~Original(emails[a]) /\ Original(emails[b])
         => emails[b].verified
  /\ \A j \in Jobs : job[j] # None => JobKept(job[j])

\* Rows are taken away, or made primary or not.
RowsStay ==
  \A a \in Stored' :
    /\ a \in Stored
    /\ emails'[a].id = emails[a].id /\ emails'[a].uid = emails[a].uid
    /\ emails'[a].verified = emails[a].verified /\ emails'[a].early = emails[a].early

LEMMA JobKeptStays ==
  ASSUME RowsStay, NEW r, JobKept(r)
  PROVE  JobKept(r)'
BY DEF RowsStay, JobKept, Of, Original

LEMMA KeptStays ==
  ASSUME KeptInv, RowsStay, NEW r, Moves(r), NEW b, b = job'[r],
         r \in Jobs /\ b # None => JobKept(b)
  PROVE  KeptInv'
<1>1. ASSUME NEW q \in Jobs, job'[q] # None, NEW d, d = job'[q] PROVE JobKept(d)'
  <2>1. JobKept(d)
    BY <1>1 DEF KeptInv, Moves
  <2> QED
    BY <2>1, JobKeptStays
<1>2. \A q \in Jobs : job'[q] # None => JobKept(job[q])'
  BY <1>1 DEF JobKept, Of
<1>3. \A a \in Stored' : ~emails'[a].early
  BY DEF KeptInv, RowsStay
<1>4. \A a, c \in Stored' :
        emails'[a].uid = emails'[c].uid /\ ~Original(emails'[a]) /\ Original(emails'[c])
          => emails'[c].verified
  BY DEF KeptInv, RowsStay, Original
<1> QED
  BY <1>2, <1>3, <1>4 DEF KeptInv

\* An account whose primary address is unverified has no verified address.
LEMMA NoneVerified ==
  ASSUME EInv, KeptInv, NEW a \in Stored, emails[a].primary, ~emails[a].verified,
         NEW u, u = emails[a].uid
  PROVE  \A b \in Of(u) : ~emails[b].verified
<1>1. Original(emails[a])
  BY DEF EInv, RowsOK, KeptInv
<1>2. ASSUME NEW b \in Of(u) PROVE ~emails[b].verified
  <2>1. b \in Stored /\ emails[b].uid = u
    BY DEF Of
  <2>2. Original(emails[b])
    BY <1>1, <2>1 DEF KeptInv
  <2>3. b = a
    BY <1>1, <2>1, <2>2 DEF EInv, RowsOK, Original
  <2> QED
    BY <2>3
<1> QED
  BY <1>2

\* A request that begins clears nothing away, or what it has just read.
LEMMA StartsAreKept ==
  ASSUME EInv, KeptInv, EInv', NEW r \in Jobs, Start(r)
  PROVE  KeptInv' /\ UNCHANGED emails
<1>0. /\ job \in [Jobs -> JobRecords \cup {None}] /\ job' \in [Jobs -> JobRecords \cup {None}]
  BY DEF EInv, TypeOK
<1>1. ASSUME NEW b, Begin(r, b), JobKept(b) PROVE KeptInv' /\ UNCHANGED emails
  <2>1. job'[r] = b /\ Moves(r) /\ UNCHANGED emails
    BY <1>0, <1>1 DEF Begin, Moves
  <2> QED
    BY <1>1, <2>1, KeptStays DEF RowsStay, Stored
<1>2. ASSUME NEW b, b.op # "add", ~Discards(b) PROVE JobKept(b)
  BY <1>2 DEF JobKept
<1>3. ASSUME StartCreate(r) \/ StartSetPrimary(r) \/ StartVerify(r)
             \/ StartDestroyEmail(r) \/ StartDestroyAccount(r)
      PROVE  KeptInv' /\ UNCHANGED emails
  <2>1. \E b : Begin(r, b) /\ b.op # "add" /\ ~Discards(b)
    <3>1. StartCreate(r) => \E b : Begin(r, b) /\ b.op # "add" /\ ~Discards(b)
      BY DEF StartCreate, Request, Discards
    <3>2. StartSetPrimary(r) => \E b : Begin(r, b) /\ b.op # "add" /\ ~Discards(b)
      BY DEF StartSetPrimary, Request, Discards
    <3>3. StartVerify(r) => \E b : Begin(r, b) /\ b.op # "add" /\ ~Discards(b)
      BY DEF StartVerify, Request, Discards
    <3>4. StartDestroyEmail(r) => \E b : Begin(r, b) /\ b.op # "add" /\ ~Discards(b)
      BY DEF StartDestroyEmail, Request, Discards
    <3>5. StartDestroyAccount(r) => \E b : Begin(r, b) /\ b.op # "add" /\ ~Discards(b)
      BY DEF StartDestroyAccount, Request, Discards
    <3> QED
      BY <1>3, <3>1, <3>2, <3>3, <3>4, <3>5
  <2> QED
    BY <1>1, <1>2, <2>1
<1>4. ASSUME StartAdd(r) PROVE KeptInv' /\ UNCHANGED emails
  <2>1. PICK uid \in Accounts, a \in Addresses :
          IsVerified(uid) /\ Begin(r, Request("add", "lookup", a, uid))
    BY <1>4 DEF StartAdd
  <2>2. PICK c \in Of(uid) : emails[c].verified
    BY <2>1 DEF IsVerified, PrimaryOf
  <2>3. \A d \in Of(uid) : Original(emails[d]) => emails[d].verified
    <3> SUFFICES ASSUME NEW d \in Of(uid), Original(emails[d]) PROVE emails[d].verified
      OBVIOUS
    <3>1. c \in Stored /\ d \in Stored /\ emails[c].uid = emails[d].uid
      BY DEF Of
    <3>2. CASE Original(emails[c])
      BY <2>2, <3>1, <3>2 DEF EInv, RowsOK, Original
    <3>3. CASE ~Original(emails[c])
      BY <3>1, <3>3 DEF KeptInv
    <3> QED
      BY <3>2, <3>3
  <2> DEFINE b == Request("add", "lookup", a, uid)
  <2>4. b.op = "add" /\ b.pc = "lookup" /\ b.uid = uid
    BY DEF Request
  <2> HIDE DEF b
  <2>5. JobKept(b)
    BY <2>3, <2>4 DEF JobKept, Discards
  <2> QED
    BY <1>1, <2>1, <2>5 DEF b
<1>5. ASSUME Bounce(r) PROVE KeptInv' /\ UNCHANGED emails
  <2>0. PICK m \in mail : \E a \in PrimaryOf(emails[m.to].uid) :
          /\ ShouldErase(emails[a])
          /\ Begin(r, [Request("erase", "erase", m.to, emails[a].uid) EXCEPT !.row = emails[a]])
    BY <1>5 DEF Bounce
  <2>1. PICK a \in PrimaryOf(emails[m.to].uid) :
          /\ ShouldErase(emails[a])
          /\ Begin(r, [Request("erase", "erase", m.to, emails[a].uid) EXCEPT !.row = emails[a]])
    BY <2>0
  <2>2. a \in Stored /\ emails[a].primary /\ ~emails[a].verified
    BY <2>1 DEF PrimaryOf, Of, ShouldErase
  <2>3. PICK u : u = emails[a].uid
    OBVIOUS
  <2>4. \A c \in Of(u) : ~emails[c].verified
    BY <2>2, <2>3, NoneVerified
  <2> DEFINE b == [Request("erase", "erase", m.to, emails[a].uid) EXCEPT !.row = emails[a]]
  <2>5. b.op = "erase" /\ b.pc = "erase" /\ b.uid = u
    BY <2>3 DEF Request
  <2> HIDE DEF b
  <2>6. JobKept(b)
    BY <2>4, <2>5 DEF JobKept, Target
  <2> QED
    BY <1>1, <2>1, <2>6 DEF b
<1> QED
  BY <1>3, <1>4, <1>5 DEF Start

\* A request that goes on to clear something away has just found it unverified,
\* or was about to do so before.
LEMMA CallsAreKept ==
  ASSUME EInv, KeptInv, PromotesVerified, NEW r \in Jobs, Step(r), ~Insert(r), ~VerifyEmail(r)
  PROVE  KeptInv'
<1>1. job[r] # None /\ JobShape(job[r]) /\ JobKept(job[r])
  <2>1. job[r] # None
    BY DEF Step, Lookup, LookupOwn, Clear, Insert, Mail, MailFails, Undo, Remind, LoadAccount,
       MatchSecondary, VerifyTokens, VerifyEmail, Announce, RemoveEmail, Promote, Erase, At
  <2> QED
    BY <2>1, JobIs DEF KeptInv
<1>2. RowsStay
  <2>1. CASE UNCHANGED emails
    BY <2>1 DEF RowsStay, Stored
  <2>2. CASE Clear(r) \/ Undo(r) \/ RemoveEmail(r) \/ Erase(r)
    <3>1. emails' \in [Addresses -> Rows \cup {None}]
          /\ \A a \in Addresses : emails'[a] = emails[a] \/ emails'[a] = None
      BY <2>2, DeletedRows DEF Clear, Undo, RemoveEmail, Erase
    <3> QED
      BY <3>1 DEF RowsStay, Stored
  <2>3. CASE Promote(r)
    <3>1. \A a \in Of(job[r].uid) : a = job[r].address => emails[a].verified
      BY <2>3 DEF Promote, PromotesVerified
    <3>2. \A a \in Addresses : emails[a] \in Rows \cup {None}
      BY DEF EInv, TypeOK
    <3>3. ASSUME NEW a \in Of(job[r].uid),
                 emails'[a] = [emails[a] EXCEPT !.primary = (a = job[r].address),
                                 !.early = @ \/ (a = job[r].address /\ ~emails[a].verified)]
          PROVE  /\ emails'[a].id = emails[a].id /\ emails'[a].uid = emails[a].uid
                 /\ emails'[a].verified = emails[a].verified
                 /\ emails'[a].early = emails[a].early
      <4>1. emails[a] \in Rows /\ emails[a].early \in BOOLEAN
        BY StoredIs, RowIs DEF Of
      <4>2. emails'[a].id = emails[a].id /\ emails'[a].uid = emails[a].uid
            /\ emails'[a].verified = emails[a].verified
            /\ emails'[a].early = (emails[a].early \/ (a = job[r].address /\ ~emails[a].verified))
        BY <3>3, <4>1 DEF Rows
      <4> QED
        BY <3>1, <4>1, <4>2
    <3> QED
      BY <2>3, <3>3 DEF Promote, RowsStay, Stored, Of
  <2> QED
    BY <2>1, <2>2, <2>3 DEF Step, Lookup, LookupOwn, Mail, MailFails, Remind, LoadAccount,
       MatchSecondary, VerifyTokens, Announce, tables
<1>3. ASSUME NEW b, b = job'[r], Moves(r), b # None => JobKept(b) PROVE KeptInv'
  BY <1>2, <1>3, KeptStays
<1>4. CASE End(r)
  <2>1. Moves(r) /\ job'[r] = None
    BY <1>4, EndStep
  <2> QED
    BY <1>3, <2>1
<1>5. ASSUME NEW pc \in Steps, NEW row \in Rows \cup {None},
             (Goto(r, pc) /\ row = job[r].row) \/ Continue(r, pc, row),
             pc \notin {"clear", "undo"}, pc = "mail" => job[r].op # "add",
             job[r].op # "erase"
      PROVE  KeptInv'
  <2>1. PICK b : b = job'[r]
    OBVIOUS
  <2>2. Moves(r) /\ b.op = job[r].op /\ b.pc = pc /\ b.uid = job[r].uid
    BY <1>1, <1>5, <2>1, GotoStep, ContinueStep
  <2>3. JobKept(b)
    BY <1>1, <1>5, <2>2 DEF JobKept, Discards
  <2> QED
    BY <1>3, <2>1, <2>2, <2>3
<1>6. job[r].row \in Rows \cup {None} /\ job[r].op \in Ops
  BY <1>1, JobIs
<1>7. CASE LookupOwn(r) \/ Clear(r) \/ Mail(r) \/ VerifyTokens(r)
  <2>1. job[r].op # "erase"
    BY <1>1, <1>7 DEF LookupOwn, Clear, Mail, VerifyTokens, At, JobShape
  <2>2. \/ End(r)
        \/ \E pc \in Steps : Goto(r, pc) /\ pc \notin {"clear", "undo", "mail"}
    BY <1>7 DEF LookupOwn, Clear, Mail, VerifyTokens, Steps
  <2> QED
    BY <1>4, <1>5, <1>6, <2>1, <2>2
<1>8. CASE MailFails(r)
  <2>1. CASE End(r)
    BY <1>4, <2>1
  <2>2. CASE Goto(r, "undo") /\ job[r].op # "create"
    <3>1. job[r].pc = "mail" /\ job[r].op = "add"
      BY <1>1, <1>6, <1>8, <2>2 DEF MailFails, At, JobShape, Ops
    <3>2. PICK b : b = job'[r]
      OBVIOUS
    <3>3. Moves(r) /\ b.op = job[r].op /\ b.pc = "undo" /\ b.uid = job[r].uid
          /\ b.address = job[r].address
      BY <1>1, <2>2, <3>2, GotoStep DEF Steps
    <3>4. JobKept(b)
      BY <1>1, <3>1, <3>3 DEF JobKept, Discards, Target, Loses
    <3> QED
      BY <1>3, <3>2, <3>3, <3>4
  <2> QED
    BY <1>8, <2>1, <2>2 DEF MailFails
<1>9. CASE LoadAccount(r) \/ MatchSecondary(r)
  <2>1. job[r].op \in {"verify", "destroyEmail"}
    BY <1>1, <1>6, <1>9 DEF LoadAccount, MatchSecondary, At, JobShape, Ops
  <2>2. \A u : \A a \in Of(u) : emails[a] \in Rows
    BY StoredIs DEF Of
  <2>3. \/ End(r)
        \/ \E pc \in Steps, row \in Rows \cup {None} :
             Continue(r, pc, row) /\ pc \notin {"clear", "undo", "mail"}
    <3>1. (IF job[r].op = "destroyEmail" THEN "remove"
           ELSE IF job[r].post.type = "secondary" THEN "match" ELSE "tokens")
            \in {"remove", "match", "tokens"}
      OBVIOUS
    <3> QED
      BY <1>9, <2>2, <3>1 DEF LoadAccount, MatchSecondary, PrimaryOf, Steps
  <2> QED
    BY <1>4, <1>5, <2>1, <2>3
<1>10. CASE Lookup(r)
  <2> DEFINE a == job[r].address
             row == emails[a]
  <2>1. a \in Addresses /\ row \in Rows \cup {None} /\ job[r].op \in {"create", "add"}
    BY <1>1, <1>10, JobIs DEF Lookup, JobShape, EInv, TypeOK
  <2>2. CASE End(r)
    BY <1>4, <2>2
  <2>3. CASE Continue(r, "insert", row)
    BY <1>5, <2>1, <2>3 DEF Steps
  <2>4. CASE Continue(r, "clear", row) /\ Verdict(job[r], row) = "clear"
    <3>1. row # None /\ ~row.verified
      BY <2>4 DEF Verdict, MayClear
    <3>2. PICK b : b = job'[r]
      OBVIOUS
    <3>3. Moves(r) /\ b.op = job[r].op /\ b.pc = "clear" /\ b.uid = job[r].uid
          /\ b.address = a /\ b.row = row
      BY <1>1, <2>1, <2>4, <3>2, ContinueStep DEF Steps
    <3>4. a \in Stored
      BY <2>1, <3>1 DEF Stored
    <3>5. PICK u : u = row.uid
      OBVIOUS
    <3>6. row.primary => \A c \in Of(u) : ~emails[c].verified
      BY <3>1, <3>4, <3>5, NoneVerified
    <3>7. JobKept(b)
      <4>1. b.op = "add" => \A c \in Of(b.uid) : Original(emails[c]) => emails[c].verified
        BY <1>1, <3>3 DEF JobKept
      <4>2. Target(b) = u
        BY <3>3, <3>5 DEF Target
      <4>3. ASSUME NEW c \in Of(u), Loses(b, c) PROVE ~emails[c].verified
        BY <2>1, <3>1, <3>3, <3>6, <4>3 DEF Loses
      <4> QED
        BY <4>1, <4>2, <4>3 DEF JobKept
    <3> QED
      BY <1>3, <3>2, <3>3, <3>7
  <2>5. Verdict(job[r], row) \in {"insert", "clear", "refused"}
    BY DEF Verdict
  <2> QED
    BY <1>10, <2>2, <2>3, <2>4, <2>5 DEF Lookup
<1>11. CASE Undo(r) \/ Remind(r) \/ Announce(r) \/ RemoveEmail(r) \/ Promote(r) \/ Erase(r)
  BY <1>4, <1>11 DEF Undo, Remind, Announce, RemoveEmail, Promote, Erase
<1> QED
  BY <1>7, <1>8, <1>9, <1>10, <1>11 DEF Step

\* A new row is unverified, and so what its request may take back; and it is the
\* first of its account, or that account's first address is verified.
LEMMA InsertIsKept ==
  ASSUME EInv, KeptInv, NEW r \in Jobs, Insert(r)
  PROVE  KeptInv'
<1>1. job[r] # None /\ job[r].pc = "insert" /\ JobShape(job[r]) /\ JobFacts(r) /\ JobKept(job[r])
      /\ job[r].op \in {"create", "add"} /\ job[r].address \in Addresses /\ job[r].uid <= drawn
  <2>1. job[r] # None /\ job[r].pc = "insert"
    BY DEF Insert, At
  <2> QED
    BY <2>1, JobIs DEF JobShape, JobFacts, KeptInv, Ops
<1>2. CASE End(r) /\ UNCHANGED emails
  <2>1. Moves(r) /\ job'[r] = None /\ RowsStay
    BY <1>2, EndStep DEF RowsStay, Stored
  <2> QED
    BY <2>1, KeptStays
<1>3. ASSUME emails[job[r].address] = None, drawn < MaxIds, NEW row, row = NewRow(job[r]),
             emails' = [emails EXCEPT ![job[r].address] = row], Continue(r, "mail", row)
      PROVE  KeptInv'
  <2>1. /\ row \in Rows /\ row # None /\ row.id = drawn + 1 /\ ~row.verified /\ ~row.early
        /\ row.uid = IF job[r].op = "create" THEN drawn + 1 ELSE job[r].uid
        /\ Original(row) <=> job[r].op = "create"
    <3>1. PICK d : d = drawn + 1
      OBVIOUS
    <3> QED
      BY <1>1, <1>3, <3>1, NewRowIs DEF Original
  <2>2. PICK w, b : w = job[r].address /\ b = job'[r]
    OBVIOUS
  <2>3. /\ b.op = job[r].op /\ b.pc = "mail" /\ b.address = w /\ b.uid = job[r].uid
        /\ \A q \in Jobs : q # r => job'[q] = job[q]
    <3>1. job[r] \in JobRecords
      BY <1>1, JobIs
    <3>2. job'[r] = [job[r] EXCEPT !.pc = "mail", !.row = row]
          /\ \A q \in Jobs : q # r => job'[q] = job[q]
      BY <1>3 DEF Continue, EInv, TypeOK
    <3> QED
      BY <2>2, <3>1, <3>2 DEF JobRecords
  <2>4. /\ w \in Addresses /\ w \notin Stored
        /\ Stored' = Stored \cup {w} /\ emails'[w] = row
        /\ \A a \in Stored : emails'[a] = emails[a]
    <3>1. w \in Addresses /\ w \notin Stored /\ emails \in [Addresses -> Rows \cup {None}]
      BY <1>1, <1>3, <2>2 DEF Stored, EInv, TypeOK
    <3> QED
      BY <1>3, <2>1, <2>2, <3>1 DEF Stored
  <2>5. \A a \in Stored : emails[a].uid \in Nat /\ emails[a].uid <= drawn /\ emails[a].uid # drawn + 1
    BY StoredIs, RowIs, DrawnIs DEF EInv, RowsOK, Drawn
  <2>6. ASSUME NEW a \in Stored', NEW c \in Stored', emails'[a].uid = emails'[c].uid,
               ~Original(emails'[a]), Original(emails'[c])
        PROVE  emails'[c].verified
    <3>1. CASE c = w
      BY <2>1, <2>4, <2>5, <2>6, <3>1
    <3>2. CASE a = w /\ c # w
      <4>1. job[r].op = "add" /\ c \in Of(job[r].uid) /\ Original(emails[c])
        BY <1>1, <2>1, <2>4, <2>6, <3>2 DEF Of
      <4> QED
        BY <1>1, <2>4, <3>2, <4>1 DEF JobKept
    <3>3. CASE a # w /\ c # w
      BY <2>4, <2>6, <3>3 DEF KeptInv
    <3> QED
      BY <3>1, <3>2, <3>3
  <2>7. ASSUME NEW q \in Jobs, job'[q] # None, NEW d, d = job'[q] PROVE JobKept(d)'
    <3>1. d.op = "add" => d.uid # drawn + 1 /\ \A a \in Of(d.uid) : Original(emails[a]) => emails[a].verified
      <4>1. CASE q = r
        BY <1>1, <2>2, <2>3, <2>7, <4>1, DrawnIs, JobIs, ConstantsAssumption DEF JobKept, Ids
      <4>2. CASE q # r
        <5>1. job[q] # None /\ d = job[q]
          BY <2>3, <2>7, <4>2
        <5>2. d.uid <= drawn /\ d.uid \in Ids \cup {0}
          BY <5>1, JobIs DEF JobFacts
        <5> QED
          BY <5>1, <5>2, DrawnIs, ConstantsAssumption DEF KeptInv, JobKept, Ids
      <4> QED
        BY <4>1, <4>2
    <3>2. \A a \in Of(d.uid)' : d.op = "add" /\ Original(emails'[a]) => emails'[a].verified
      <4> SUFFICES ASSUME NEW a \in Stored', emails'[a].uid = d.uid, d.op = "add",
                          Original(emails'[a])
                   PROVE  emails'[a].verified
        BY DEF Of
      <4>1. a # w
        BY <1>1, <2>1, <2>4, <3>1
      <4> QED
        BY <2>4, <3>1, <4>1 DEF Of
    <3>3. ASSUME Discards(d), NEW a \in Stored', emails'[a].uid = Target(d), Loses(d, a)
          PROVE  ~emails'[a].verified
      <4>1. CASE a = w
        BY <2>1, <2>4, <4>1
      <4>2. CASE a # w /\ q = r
        BY <1>1, <2>2, <2>3, <2>7, <3>3, <4>2 DEF Loses
      <4>3. CASE a # w /\ q # r
        <5>1. job[q] # None /\ d = job[q]
          BY <2>3, <2>7, <4>3
        <5>2. a \in Of(Target(d)) /\ emails'[a] = emails[a]
          BY <2>4, <3>3, <4>3 DEF Of
        <5> QED
          BY <3>3, <5>1, <5>2 DEF KeptInv, JobKept
      <4> QED
        BY <4>1, <4>2, <4>3
    <3> QED
      BY <3>2, <3>3 DEF JobKept, Of
  <2>8. \A q \in Jobs : job'[q] # None => JobKept(job[q])'
    BY <2>7 DEF JobKept, Of
  <2>9. \A a \in Stored' : ~emails'[a].early
    BY <2>1, <2>4 DEF KeptInv
  <2> QED
    BY <2>6, <2>8, <2>9 DEF KeptInv
<1> QED
  BY <1>2, <1>3 DEF Insert

\* What a link verifies is of no account that somebody is clearing away from.
LEMMA VerifyIsKept ==
  ASSUME EInv, KeptInv, VerifiesApart, NEW r \in Jobs, VerifyEmail(r)
  PROVE  KeptInv'
<1>1. At(r, "apply") /\ job[r] # None /\ job[r].pc = "apply" /\ job[r].op = "verify"
  <2>1. At(r, "apply") /\ job[r] # None /\ job[r].pc = "apply"
    BY DEF VerifyEmail, At
  <2> QED
    BY <2>1, JobIs DEF JobShape, Ops
<1>2. PICK u : u = job[r].uid
  OBVIOUS
<1>3. \A a \in Stored :
        /\ a \in Stored' /\ emails'[a] # None
        /\ emails'[a].id = emails[a].id /\ emails'[a].uid = emails[a].uid
        /\ emails'[a].early = emails[a].early
        /\ emails[a].verified => emails'[a].verified
        /\ emails[a].uid # u => emails'[a].verified = emails[a].verified
  <2> SUFFICES ASSUME NEW a \in Stored
               PROVE  /\ a \in Stored' /\ emails'[a] # None
                      /\ emails'[a].id = emails[a].id /\ emails'[a].uid = emails[a].uid
                      /\ emails'[a].early = emails[a].early
                      /\ emails[a].verified => emails'[a].verified
                      /\ emails[a].uid # u => emails'[a].verified = emails[a].verified
    OBVIOUS
  <2>1. a \in Addresses /\ emails[a] \in Rows /\ emails[a] # None
    BY StoredIs
  <2>2. CASE emails'[a] = emails[a]
    BY <2>1, <2>2 DEF Stored
  <2>3. CASE /\ emails'[a] = [emails[a] EXCEPT !.verified = TRUE, !.by = job[r].post]
             /\ a \in Of(u)
    <3> DEFINE row == [emails[a] EXCEPT !.verified = TRUE, !.by = job[r].post]
    <3>1. row \in Rows /\ row.id = emails[a].id /\ row.uid = emails[a].uid
          /\ row.early = emails[a].early /\ row.verified
      <4>1. job[r].post \in Posts \cup {None}
        BY <1>1, JobIs DEF JobRecords
      <4> QED
        BY <2>1, <4>1 DEF Rows
    <3>2. row # None
      BY <3>1, RecordAssumption
    <3> HIDE DEF row
    <3>3. emails'[a] = row /\ emails[a].uid = u
      BY <2>3 DEF row, Of
    <3> QED
      BY <2>1, <3>1, <3>2, <3>3 DEF Stored
  <2> QED
    BY <1>2, <2>1, <2>2, <2>3 DEF VerifyEmail
<1>4. Stored' \subseteq Stored
  BY DEF VerifyEmail, Stored, Of
<1>5. /\ \A q \in Jobs : q # r => job'[q] = job[q]
      /\ job'[r] # None => job'[r].op = "verify" /\ job'[r].pc = "announce"
  <2>1. CASE End(r)
    BY <2>1, EndStep DEF Moves
  <2>2. CASE Goto(r, "announce")
    BY <1>1, <2>2, GotoStep DEF Moves, Steps
  <2> QED
    BY <2>1, <2>2 DEF VerifyEmail
<1>6. ASSUME NEW q \in Jobs, job'[q] # None, NEW d, d = job'[q] PROVE JobKept(d)'
  <2>1. CASE q = r
    BY <1>5, <1>6, <2>1 DEF JobKept, Discards
  <2>2. CASE q # r
    <3>1. job[q] # None /\ d = job[q] /\ JobKept(d)
      BY <1>5, <1>6, <2>2 DEF KeptInv
    <3>2. \A a \in Stored' : emails'[a].uid = d.uid /\ d.op = "add" /\ Original(emails'[a])
                              => emails'[a].verified
      BY <1>3, <1>4, <3>1 DEF JobKept, Of, Original
    <3>3. Discards(d) => Target(d) # u
      BY <1>1, <1>2, <3>1 DEF VerifiesApart
    <3>4. \A a \in Stored' : Discards(d) /\ emails'[a].uid = Target(d) /\ Loses(d, a)
                              => ~emails'[a].verified
      BY <1>3, <1>4, <3>1, <3>3 DEF JobKept, Of
    <3> QED
      BY <3>2, <3>4 DEF JobKept, Of
  <2> QED
    BY <2>1, <2>2
<1>7. \A q \in Jobs : job'[q] # None => JobKept(job[q])'
  BY <1>6 DEF JobKept, Of
<1>8. \A a \in Stored' : ~emails'[a].early
  BY <1>3, <1>4 DEF KeptInv
<1>9. \A a, b \in Stored' :
        emails'[a].uid = emails'[b].uid /\ ~Original(emails'[a]) /\ Original(emails'[b])
          => emails'[b].verified
  BY <1>3, <1>4 DEF KeptInv, Original
<1> QED
  BY <1>7, <1>8, <1>9 DEF KeptInv

LEMMA KeptStep ==
  ASSUME EInv, KeptInv, EInv', VerifiesApart, PromotesVerified, [Next]_vars
  PROVE  KeptInv'
<1>1. ASSUME UNCHANGED <<emails, job>> PROVE KeptInv'
  <2>1. PICK r : r \notin Jobs
    BY NoSetContainsEverything
  <2>2. Moves(r) /\ RowsStay
    BY <1>1 DEF Moves, RowsStay, Stored, EInv, TypeOK
  <2>3. PICK b : b = job'[r]
    OBVIOUS
  <2> QED
    BY <2>1, <2>2, <2>3, KeptStays
<1>2. ASSUME NEW r \in Jobs, Fail(r) PROVE KeptInv'
  <2>1. Moves(r) /\ job'[r] = None /\ RowsStay
    BY <1>2, EndStep DEF Fail, RowsStay, Stored
  <2> QED
    BY <2>1, KeptStays
<1>3. ASSUME NEW r \in Jobs, Start(r) \/ Step(r) PROVE KeptInv'
  BY <1>3, StartsAreKept, CallsAreKept, InsertIsKept, VerifyIsKept
<1>4. CASE Tick
  BY <1>1, <1>4 DEF Tick, tables
<1>5. ASSUME NEW uid, Signin(uid) \/ Resend(uid) PROVE KeptInv'
  BY <1>1, <1>5 DEF Signin, Resend
<1>6. CASE Script
  <2>1. UNCHANGED <<emails, job>>
    BY <1>6 DEF Script, Run, Pop, Skip, Read, Send, SendFails, Reinstate, Crash, evars, Others,
       tables
  <2> QED
    BY <1>1, <2>1
<1>7. CASE UNCHANGED vars
  BY <1>1, <1>7 DEF vars, evars
<1> QED
  BY <1>2, <1>3, <1>4, <1>5, <1>6, <1>7 DEF Next, ENext

\* A row is taken away by a request that clears it away, or that may.
LEMMA VerifiedIsKept ==
  ASSUME EInv, KeptInv, EInv', [Next]_vars
  PROVE  KeepsVerified
<1> SUFFICES ASSUME NEW a \in Stored, emails[a].verified,
                    ~(emails'[a] # None /\ emails'[a].id = emails[a].id /\ emails'[a].verified)
             PROVE  \E j \in Jobs :
                      /\ job'[j] # job[j]
                      /\ job[j].op \in {"destroyEmail", "erase"}
                      /\ job[j].uid = emails[a].uid
                      /\ job[j].row = None \/ job[j].op = "destroyEmail"
  BY DEF KeepsVerified
<1>1. emails[a] \in Rows /\ emails[a] # None /\ a \in Addresses
  BY StoredIs
<1>2. emails' # emails
  BY <1>1
<1>3. PICK r \in Jobs : Step(r)
  <2>1. ASSUME NEW r \in Jobs, Start(r) PROVE UNCHANGED emails
    BY <2>1, StartsAreKept
  <2>2. ASSUME NEW r \in Jobs, Fail(r) PROVE UNCHANGED emails
    BY <2>2 DEF Fail
  <2>3. ASSUME NEW uid, Signin(uid) \/ Resend(uid) PROVE UNCHANGED emails
    BY <2>3 DEF Signin, Resend
  <2>4. Script => UNCHANGED emails
    BY DEF Script, Run, Pop, Skip, Read, Send, SendFails, Reinstate, Crash, evars, Others, tables
  <2>5. Tick => UNCHANGED emails
    BY DEF Tick, tables
  <2>6. UNCHANGED vars => UNCHANGED emails
    BY DEF vars, evars
  <2> QED
    BY <1>2, <2>1, <2>2, <2>3, <2>4, <2>5, <2>6 DEF Next, ENext
<1>4. \/ Insert(r) \/ VerifyEmail(r) \/ Promote(r)
      \/ Clear(r) \/ Undo(r) \/ RemoveEmail(r) \/ Erase(r)
  BY <1>2, <1>3 DEF Step, Lookup, LookupOwn, Mail, MailFails, Remind, LoadAccount,
     MatchSecondary, VerifyTokens, Announce, tables
<1>5. job[r] # None /\ JobShape(job[r]) /\ JobKept(job[r]) /\ job[r].op \in Ops
  <2>1. job[r] # None
    BY <1>4 DEF Insert, VerifyEmail, Promote, Clear, Undo, RemoveEmail, Erase, At
  <2> QED
    BY <2>1, JobIs DEF KeptInv
<1>6. ~Insert(r)
  <2> SUFFICES ASSUME Insert(r) PROVE FALSE
    OBVIOUS
  <2>1. emails \in [Addresses -> Rows \cup {None}]
    BY DEF EInv, TypeOK
  <2>2. emails'[a] = emails[a]
    BY <1>1, <2>1 DEF Insert
  <2> QED
    BY <1>1, <2>2
<1>7. ~VerifyEmail(r)
  <2> SUFFICES ASSUME VerifyEmail(r), emails' # emails PROVE FALSE
    BY <1>2
  <2>1. \/ emails'[a] = emails[a]
        \/ ~emails[a].verified
    BY <1>1 DEF VerifyEmail
  <2> QED
    BY <1>1, <2>1
<1>8. ~Promote(r)
  <2> SUFFICES ASSUME Promote(r) PROVE FALSE
    OBVIOUS
  <2>1. CASE emails'[a] = emails[a]
    BY <1>1, <2>1
  <2>2. ASSUME emails'[a] = [emails[a] EXCEPT !.primary = (a = job[r].address),
                               !.early = @ \/ (a = job[r].address /\ ~emails[a].verified)]
        PROVE  FALSE
    <3>1. PICK p \in BOOLEAN, e \in BOOLEAN :
            emails'[a] = [emails[a] EXCEPT !.primary = p, !.early = e]
      BY <2>2
    <3>2. PICK row : row = [emails[a] EXCEPT !.primary = p, !.early = e]
      OBVIOUS
    <3>3. row \in Rows /\ row.id = emails[a].id /\ row.verified = emails[a].verified
      BY <1>1, <3>2 DEF Rows
    <3>4. row # None
      BY <3>3, RecordAssumption
    <3> QED
      BY <3>1, <3>2, <3>3, <3>4
  <2> QED
    BY <1>1, <2>1, <2>2 DEF Promote
<1>9. PICK u : u = emails[a].uid
  OBVIOUS
<1>10. a \in Of(u)
  BY <1>9 DEF Of
<1>11. CASE Clear(r)
  <2>1. Discards(job[r]) /\ Target(job[r]) = job[r].row.uid
    BY <1>11 DEF Clear, At, Discards, Target
  <2>2. job[r].row.uid = u /\ Loses(job[r], a)
    <3>1. CASE job[r].row.primary /\ DeleteAccount(job[r].row.uid)
      BY <1>1, <1>9, <1>11, <3>1 DEF DeleteAccount, Of, Loses, Clear, At
    <3>2. CASE DeleteEmail(job[r].row.uid, job[r].address)
      <4>1. emails \in [Addresses -> Rows \cup {None}]
        BY DEF EInv, TypeOK
      <4> QED
        BY <1>1, <1>9, <3>2, <4>1 DEF DeleteEmail, MayDelete, Of, Loses
    <3> QED
      BY <1>11, <3>1, <3>2 DEF Clear
  <2> QED
    BY <1>5, <1>10, <2>1, <2>2 DEF JobKept
<1>12. CASE Undo(r)
  <2>1. Discards(job[r]) /\ Target(job[r]) = job[r].uid
    BY <1>12 DEF Undo, At, Discards, Target
  <2>2. job[r].uid = u /\ Loses(job[r], a)
    <3>1. emails \in [Addresses -> Rows \cup {None}]
      BY DEF EInv, TypeOK
    <3> QED
      BY <1>1, <1>9, <1>12, <3>1 DEF Undo, DeleteEmail, MayDelete, Of, Loses
  <2> QED
    BY <1>5, <1>10, <2>1, <2>2 DEF JobKept
<1>13. CASE RemoveEmail(r)
  <2>1. job[r].op = "destroyEmail" /\ job'[r] # job[r]
    BY <1>5, <1>13, EndStep DEF RemoveEmail, At, JobShape, Ops
  <2>2. job[r].uid = u
    <3>1. emails \in [Addresses -> Rows \cup {None}]
      BY DEF EInv, TypeOK
    <3> QED
      BY <1>1, <1>9, <1>13, <3>1 DEF RemoveEmail, DeleteEmail, MayDelete, Of
  <2> QED
    BY <1>9, <2>1, <2>2
<1>14. CASE Erase(r)
  <2>1. job[r].op = "erase" /\ job'[r] # job[r]
    BY <1>5, <1>14, EndStep DEF Erase, At, JobShape, Ops
  <2>2. job[r].uid = u
    BY <1>1, <1>9, <1>14 DEF Erase, DeleteAccount, Of
  <2>3. job[r].row = None
    <3> SUFFICES ASSUME job[r].row # None PROVE FALSE
      OBVIOUS
    <3>1. Discards(job[r]) /\ Target(job[r]) = u /\ Loses(job[r], a)
      BY <1>14, <2>1, <2>2 DEF Erase, At, Discards, Target, Loses
    <3> QED
      BY <1>5, <1>10, <3>1 DEF JobKept
  <2> QED
    BY <1>9, <2>1, <2>2, <2>3
<1> QED
  BY <1>4, <1>6, <1>7, <1>8, <1>11, <1>12, <1>13, <1>14

\* A verified address is given up only by a request of its own account, whatever
\* overlaps and fails, as long as none is verified or promoted on the strength of
\* what another request is changing (account.js and emails.js
\* deleteAccountIfUnverified, bounces.js deleteAccountIfUnverifiedNew,
\* db.setPrimaryEmail).
THEOREM VerifiedIsKeptApart ==
  Spec /\ []VerifiesApart /\ []PromotesVerified => [][KeepsVerified]_vars
<1>1. Init => KeptInv
  BY DEF Init, EInit, KeptInv, Stored
<1>2. EInv /\ KeptInv /\ EInv' /\ VerifiesApart /\ PromotesVerified /\ [Next]_vars => KeptInv'
  BY KeptStep
<1>3. EInv /\ KeptInv /\ EInv' /\ [Next]_vars => [KeepsVerified]_vars
  BY VerifiedIsKept
<1> QED
  BY <1>1, <1>2, <1>3, InvHolds, PTL DEF Spec

\* The reminders that the script has, and all there are.
InScript == (UNION {batch[k] : k \in Keys}) \cup failed \cup Held
Outstanding == InScript \cup (UNION {reminders[k] : k \in Keys})

\* No account is announced while another request is creating it, or while the
\* script has a reminder of it.
AnnouncesApart ==
  \A j \in Jobs : At(j, "announce") =>
    /\ \A i \in Jobs : ~Creating(i, job[j].uid)
    /\ \A e \in InScript : e.uid # job[j].uid

\* Nobody has, or will make, a reminder of an account that was announced.
StopInv ==
  faults = 0 => \A uid \in announced :
    /\ uid <= drawn
    /\ \A i \in Jobs : ~Creating(i, uid)
    /\ \A e \in Outstanding : e.uid # uid

LEMMA StopStays ==
  ASSUME EInv, EInv', StopInv, UNCHANGED announced, drawn <= drawn', faults <= faults',
         \A j \in Jobs, u \in Ids : Creating(j, u)' => Creating(j, u) \/ u > drawn,
         \A e \in Outstanding' : e \in Outstanding \/ \E j \in Jobs : Creating(j, e.uid)
  PROVE  StopInv'
<1> SUFFICES ASSUME faults' = 0, NEW uid \in announced
             PROVE  /\ uid <= drawn'
                    /\ \A i \in Jobs : ~Creating(i, uid)'
                    /\ \A e \in Outstanding' : e.uid # uid
  BY DEF StopInv, Creating
<1>1. faults = 0
  BY DrawnIs
<1>2. uid \in Ids /\ uid \in Nat
  BY ConstantsAssumption DEF EInv, TypeOK, Ids
<1>3. uid <= drawn /\ (\A i \in Jobs : ~Creating(i, uid)) /\ \A e \in Outstanding : e.uid # uid
  BY <1>1 DEF StopInv
<1>4. uid <= drawn'
  <2>1. drawn \in Nat /\ drawn' \in Nat
    BY ConstantsAssumption DEF EInv, TypeOK
  <2> QED
    BY <1>2, <1>3, <2>1
<1>5. ~(uid > drawn)
  BY <1>2, <1>3, DrawnIs
<1> QED
  BY <1>2, <1>3, <1>4, <1>5

LEMMA OutstandingIs ==
  ASSUME NEW e
  PROVE  /\ e \in Outstanding <=> \/ \E k \in Keys : e \in batch[k] \/ e \in reminders[k]
                                \/ e \in failed \cup Held
         /\ e \in Outstanding' <=> \/ \E k \in Keys : e \in batch'[k] \/ e \in reminders'[k]
                                 \/ e \in failed' \cup Held'
<1>1. ASSUME NEW f PROVE e \in UNION {f[k] : k \in Keys} <=> \E k \in Keys : e \in f[k]
  OBVIOUS
<1>2. e \in Outstanding <=> \/ e \in UNION {batch[k] : k \in Keys}
                           \/ e \in UNION {reminders[k] : k \in Keys}
                           \/ e \in failed \cup Held
  BY DEF Outstanding, InScript
<1>3. e \in Outstanding' <=> \/ e \in UNION {batch'[k] : k \in Keys}
                            \/ e \in UNION {reminders'[k] : k \in Keys}
                            \/ e \in failed' \cup Held'
  BY DEF Outstanding, InScript
<1> QED
  BY <1>1, <1>2, <1>3

\* The script makes no reminders.
LEMMA ScriptMoves ==
  ASSUME EInv, RInv, Script
  PROVE  Outstanding' \subseteq Outstanding
<1> DEFINE K == phase.key
<1>1. CASE Run \/ Crash
  BY <1>1 DEF Run, Crash, evars, tables, Outstanding, InScript, Held
<1>2. CASE Pop
  <2>1. /\ phase.name = "pop" /\ batch' = [batch EXCEPT ![K] = Due(K)]
        /\ reminders' = [reminders EXCEPT ![K] = @ \ Due(K)]
        /\ UNCHANGED <<failed, hand>>
    BY <1>2 DEF Pop
  <2>2. K \in Keys /\ Due(K) \subseteq reminders[K]
    BY <2>1, ScriptTypes DEF Due
  <2>3. \A k \in Keys : batch'[k] \subseteq batch[k] \cup reminders[k] /\ reminders'[k] \subseteq reminders[k]
    BY <2>1, <2>2 DEF RInv, RTypeOK, TypeOK
  <2> QED
    BY <2>1, <2>3 DEF Outstanding, InScript, Held
<1>3. ASSUME NEW e, Skip(e) \/ Read(e) PROVE Outstanding' \subseteq Outstanding
  <2>1. PICK k : k = phase.key
    OBVIOUS
  <2>2. Take(e) /\ UNCHANGED reminders
    BY <1>3 DEF Skip, Read, evars
  <2>3. /\ k \in Keys /\ Held = {} /\ hand = None /\ e \in batch[k]
        /\ \A l \in Keys : batch'[l] \subseteq batch[l]
    BY <2>1, <2>2, TakeIs
  <2>4. failed' \cup Held' \subseteq failed \cup {e}
    BY <1>3, <2>3 DEF Skip, Read, Held
  <2> SUFFICES ASSUME NEW d \in Outstanding' PROVE d \in Outstanding
    OBVIOUS
  <2> QED
    BY <2>2, <2>3, <2>4, OutstandingIs
<1>4. CASE Send \/ SendFails
  <2>1. UNCHANGED <<batch, reminders>> /\ phase.name = "send" /\ hand' = None
        /\ failed' \subseteq failed \cup {hand.reminder}
    BY <1>4 DEF Send, SendFails, evars
  <2>2. Held = {hand.reminder} /\ Held' = {}
    BY <2>1, ScriptTypes DEF RInv, ScriptOK, Held
  <2> QED
    BY <2>1, <2>2 DEF Outstanding, InScript
<1>5. CASE Reinstate
  <2>1. /\ phase.name = "work" /\ reminders' = [reminders EXCEPT ![K] = @ \cup failed]
        /\ failed' = {} /\ UNCHANGED <<batch, hand>>
    BY <1>5 DEF Reinstate
  <2>2. \A k \in Keys : reminders'[k] \subseteq reminders[k] \cup failed
    BY <2>1 DEF RInv, RTypeOK, TypeOK
  <2>3. Held' = Held
    BY <2>1 DEF Held
  <2> SUFFICES ASSUME NEW d \in Outstanding' PROVE d \in Outstanding
    OBVIOUS
  <2> QED
    BY <2>1, <2>2, <2>3, OutstandingIs
<1> QED
  BY <1>1, <1>2, <1>3, <1>4, <1>5 DEF Script

\* The `verified` event takes the reminders of its account away.
LEMMA AnnounceStops ==
  ASSUME EInv, EInv', StopInv, AnnouncesApart, UNCHANGED rvars, NEW r \in Jobs, Announce(r)
  PROVE  StopInv'
<1>1. PICK u : u = job[r].uid
  OBVIOUS
<1>2. /\ At(r, "announce") /\ job[r] # None /\ announced' = announced \cup {u}
      /\ reminders' = Discharged(u, Keys) /\ UNCHANGED <<drawn, faults>>
  BY <1>1 DEF Announce, At, Other
<1>3. u <= drawn
  BY <1>1, <1>2, JobIs DEF JobFacts
<1>4. \A j \in Jobs : job'[j] = None \/ job'[j] = job[j]
  BY EndStep DEF Announce, Moves
<1>5. \A j \in Jobs : \A v : Creating(j, v)' => Creating(j, v)
  BY <1>4 DEF Creating
<1>6. InScript' = InScript
  BY DEF rvars, InScript, Held
<1>7. \A k \in Keys : reminders'[k] \subseteq reminders[k] /\ \A e \in reminders'[k] : e.uid # u
  BY <1>2 DEF Discharged
<1>8. (\A i \in Jobs : ~Creating(i, u)) /\ \A e \in InScript : e.uid # u
  BY <1>1, <1>2 DEF AnnouncesApart, Creating
<1>9. Outstanding' \subseteq Outstanding /\ \A e \in Outstanding' : e.uid # u
  BY <1>6, <1>7, <1>8 DEF Outstanding
<1> SUFFICES ASSUME faults' = 0, NEW uid \in announced'
             PROVE  /\ uid <= drawn'
                    /\ \A i \in Jobs : ~Creating(i, uid)'
                    /\ \A e \in Outstanding' : e.uid # uid
  BY DEF StopInv, Creating
<1>10. CASE uid = u
  BY <1>2, <1>3, <1>5, <1>8, <1>9, <1>10
<1>11. CASE uid \in announced
  BY <1>2, <1>5, <1>9, <1>11 DEF StopInv
<1> QED
  BY <1>2, <1>10, <1>11

LEMMA StopStep ==
  ASSUME EInv, RInv, EInv', StopInv, AnnouncesApart, [Next]_vars
  PROVE  StopInv'
<1>1. drawn <= drawn' /\ faults <= faults'
  <2>1. ENext => drawn <= drawn' /\ faults <= faults'
    BY CountsGrow
  <2>2. Script => drawn <= drawn' /\ faults <= faults'
    BY DrawnIs DEF Script, Run, Pop, Skip, Read, Send, SendFails, Reinstate, Crash, evars, Others
  <2> QED
    BY <2>1, <2>2, DrawnIs DEF Next, vars, evars
<1>2. CASE Script
  <2>1. Outstanding' \subseteq Outstanding /\ UNCHANGED <<job, announced>>
    BY <1>2, ScriptMoves DEF Script, Run, Pop, Skip, Read, Send, SendFails, Reinstate, Crash,
       evars, Others, tables
  <2> QED
    BY <1>1, <2>1, StopStays DEF Creating
<1>3. CASE UNCHANGED vars
  <2>1. Outstanding' = Outstanding /\ UNCHANGED <<job, announced>>
    BY <1>3 DEF vars, evars, rvars, Outstanding, InScript, Held
  <2> QED
    BY <1>1, <2>1, StopStays DEF Creating
<1>4. ASSUME ENext, UNCHANGED rvars PROVE StopInv'
  <2>1. \A j \in Jobs, u \in Ids : Creating(j, u)' => Creating(j, u) \/ u > drawn
    BY <1>4, NewCreating
  <2>2. ASSUME NEW r \in Jobs, Fail(r) PROVE StopInv'
    BY <2>2, DrawnIs DEF Fail, StopInv
  <2>3. ASSUME NEW r \in Jobs, Announce(r) PROVE StopInv'
    BY <1>4, <2>3, AnnounceStops
  <2>4. ASSUME NEW r \in Jobs, Remind(r) PROVE StopInv'
    <3>1. PICK uid, new : uid = job[r].row.uid /\ new = [uid |-> uid, at |-> clock]
      OBVIOUS
    <3>2. /\ job[r] # None /\ job[r].pc = "remind" /\ UNCHANGED announced
          /\ reminders' = Enrolled(uid, clock, Keys)
      BY <2>4, <3>1 DEF Remind, At
    <3>3. job[r].op = "create"
      BY <3>2, JobIs DEF JobShape, Ops
    <3>4. Creating(r, uid) /\ new.uid = uid
      BY <3>1, <3>2, <3>3 DEF Creating
    <3>5. \A k \in Keys : reminders'[k] \subseteq reminders[k] \cup {new}
      BY <3>1, <3>2 DEF Enrolled
    <3>6. \A e \in Outstanding' : e \in Outstanding \/ e = new
      BY <1>4, <3>5 DEF Outstanding, InScript, Held, rvars
    <3>7. \A e \in Outstanding' : e \in Outstanding \/ \E j \in Jobs : Creating(j, e.uid)
      BY <3>4, <3>6
    <3> QED
      BY <1>1, <2>1, <3>2, <3>7, StopStays
  <2>5. CASE UNCHANGED <<reminders, announced>>
    <3>1. Outstanding' = Outstanding
      BY <1>4, <2>5 DEF rvars, Outstanding, InScript, Held
    <3> QED
      BY <1>1, <2>1, <2>5, <3>1, StopStays
  <2>6. \/ UNCHANGED <<reminders, announced>>
        \/ \E r \in Jobs : Fail(r) \/ Announce(r) \/ Remind(r)
    BY <1>4, QuietReminders
  <2> QED
    BY <2>2, <2>3, <2>4, <2>5, <2>6
<1> QED
  BY <1>2, <1>3, <1>4 DEF Next

\* Reminders stop at verification, whatever overlaps, as long as no account is
\* announced while /account/create or the script is at work on it
\* (verification-reminders.js delete).
THEOREM RemindersStopApart ==
  Spec /\ []AnnouncesApart => []RemindersStopAtVerification
<1>1. Init => StopInv
  BY DEF Init, EInit, StopInv
<1>2. EInv /\ RInv /\ EInv' /\ StopInv /\ AnnouncesApart /\ [Next]_vars => StopInv'
  BY StopStep
<1>3. StopInv => RemindersStopAtVerification
  BY DEF StopInv, RemindersStopAtVerification, Outstanding
<1> QED
  BY <1>1, <1>2, <1>3, InvHolds, PTL DEF Spec
=============================================================================
