------------------------ MODULE VerificationReminders ------------------------
(***************************************************************************)
(* The script that reminds people of unverified accounts, beside the       *)
(* requests of AccountEmails.  It pops from each sorted set the reminders  *)
(* that are due, mails them, and puts back those it skipped or could not   *)
(* mail.                                                                   *)
(***************************************************************************)
EXTENDS AccountEmails, FiniteSets

CONSTANTS
  Interval,    \* key -> ticks after which its reminder is due
  MaxRefusals  \* bound: how many reminders the mailer fails to send

ASSUME IntervalAssumption ==
  /\ 1 \in Keys
  /\ Interval \in [Keys -> Nat]
  /\ MaxRefusals \in Nat

VARIABLES
  phase,    \* where the script is
  batch,    \* key -> the reminders popped and not yet dealt with
  failed,   \* the reminders of the current key that are to be reinstated
  hand,     \* the reminder being mailed, with the record read for it
  sent,     \* the accounts mailed by this run of the script
  mailed,   \* history: key -> account -> how many reminders were mailed
  doubted,  \* history: how many of these by a send that was reported as failed
  refusals  \* how many reminders the mailer failed to send

rvars == <<phase, batch, failed, hand, sent, mailed, doubted, refusals>>
vars == <<evars, rvars>>

\* The script pops one key after another, and then works through them; a
\* phase of key 0 is that of a script that does not run.
Phases == [name : {"idle", "pop", "work", "send"}, key : Keys \cup {0}]
Idle == [name |-> "idle", key |-> 0]
Hands == [reminder : Reminders, row : Rows]

ASSUME HandAssumption == None \notin Hands

RTypeOK ==
  /\ TypeOK
  /\ phase \in Phases
  /\ batch \in [Keys -> SUBSET Reminders]
  /\ failed \subseteq Reminders
  /\ hand \in Hands \cup {None}
  /\ sent \subseteq Ids
  /\ mailed \in [Keys -> [Ids -> Nat]]
  /\ doubted \in [Keys -> [Ids -> Nat]]
  /\ refusals \in 0..MaxRefusals

Init ==
  /\ EInit
  /\ phase = Idle
  /\ batch = [k \in Keys |-> {}]
  /\ failed = {}
  /\ hand = None
  /\ sent = {}
  /\ mailed = [k \in Keys |-> [u \in Ids |-> 0]]
  /\ doubted = mailed
  /\ refusals = 0

-----------------------------------------------------------------------------
(* The script.                                                             *)

More(k) == k + 1 \in Keys
To(name, key) == phase' = [name |-> name, key |-> key]
Others == <<emails, signins, announced, job, clock, drawn, faults>>

Run ==
  /\ phase = Idle
  /\ To("pop", 1)
  /\ sent' = {}
  /\ UNCHANGED <<evars, batch, failed, hand, mailed, doubted, refusals>>

\* Mutant: the reminders are read and stay.
MutantPop ==
  LET k == phase.key
  IN  /\ phase.name = "pop"
      /\ batch' = [batch EXCEPT ![k] = {e \in reminders[k] : clock - e.at >= Interval[k]}]
      /\ IF More(k) THEN To("pop", k + 1) ELSE To("work", 1)
      /\ UNCHANGED <<Others, reminders, mail, failed, hand, sent, mailed, doubted, refusals>>

\* zpoprangebyscore: reads and removes.
Due(k) == {e \in reminders[k] : clock - e.at >= Interval[k]}
Pop ==
  LET k == phase.key
  IN  /\ phase.name = "pop"
      /\ batch' = [batch EXCEPT ![k] = Due(k)]
      /\ reminders' = [reminders EXCEPT ![k] = @ \ Due(k)]
      /\ IF More(k) THEN To("pop", k + 1) ELSE To("work", 1)
      /\ UNCHANGED <<Others, mail, failed, hand, sent, mailed, doubted, refusals>>

\* The oldest of the batch comes first.
Take(e) ==
  /\ phase.name = "work"
  /\ e \in batch[phase.key]
  /\ \A f \in batch[phase.key] : e.at <= f.at
  /\ batch' = [batch EXCEPT ![phase.key] = @ \ {e}]

\* One reminder per account in a run.
Skip(e) ==
  /\ Take(e)
  /\ e.uid \in sent
  /\ failed' = failed \cup {e}
  /\ UNCHANGED <<evars, phase, hand, sent, mailed, doubted, refusals>>

\* db.account: a deleted account is forgotten; whether it is verified is not
\* looked at.
Read(e) ==
  /\ Take(e)
  /\ e.uid \notin sent
  /\ \/ /\ PrimaryOf(e.uid) = {}
        /\ UNCHANGED <<phase, hand>>
     \/ \E a \in PrimaryOf(e.uid) :
          /\ hand' = [reminder |-> e, row |-> emails[a]]
          /\ To("send", phase.key)
  /\ UNCHANGED <<evars, failed, sent, mailed, doubted, refusals>>

Send ==
  /\ phase.name = "send"
  /\ mailed' = [mailed EXCEPT ![phase.key][hand.reminder.uid] = @ + 1]
  /\ sent' = sent \cup {hand.reminder.uid}
  /\ hand' = None
  /\ To("work", phase.key)
  /\ UNCHANGED <<evars, batch, failed, doubted, refusals>>

\* The same if the account could not be read; a send that is reported as failed
\* may have been delivered all the same.
SendFails ==
  /\ phase.name = "send"
  /\ refusals < MaxRefusals
  /\ refusals' = refusals + 1
  /\ failed' = failed \cup {hand.reminder}
  /\ hand' = None
  /\ To("work", phase.key)
  /\ \/ UNCHANGED <<mailed, doubted>>
     \/ /\ mailed' = [mailed EXCEPT ![phase.key][hand.reminder.uid] = @ + 1]
        /\ doubted' = [doubted EXCEPT ![phase.key][hand.reminder.uid] = @ + 1]
  /\ UNCHANGED <<evars, batch, sent>>

\* Mutant: a single reminder is not put back.
MutantReinstate ==
  LET k == phase.key
  IN  /\ phase.name = "work"
      /\ batch[k] = {}
      /\ reminders' = [reminders EXCEPT ![k] =
           IF Cardinality(failed) > 1 THEN @ \cup failed ELSE @]
      /\ failed' = {}
      /\ IF More(k) THEN To("work", k + 1) ELSE phase' = Idle
      /\ UNCHANGED <<Others, mail, batch, hand, sent, mailed, doubted, refusals>>

\* Once a key is done: zadd of what failed, and on to the next.
Reinstate ==
  LET k == phase.key
  IN  /\ phase.name = "work"
      /\ batch[k] = {}
      /\ reminders' = [reminders EXCEPT ![k] = @ \cup failed]
      /\ failed' = {}
      /\ IF More(k) THEN To("work", k + 1) ELSE phase' = Idle
      /\ UNCHANGED <<Others, mail, batch, hand, sent, mailed, doubted, refusals>>

\* The script dies, or a call of it fails outside the try block.
Crash ==
  /\ faults < MaxFaults
  /\ phase # Idle
  /\ faults' = faults + 1
  /\ phase' = Idle
  /\ batch' = [k \in Keys |-> {}]
  /\ failed' = {}
  /\ hand' = None
  /\ UNCHANGED <<tables, job, clock, drawn, sent, mailed, doubted, refusals>>

Script ==
  \/ Run \/ Pop \/ Send \/ SendFails \/ Reinstate \/ Crash
  \/ \E e \in UNION {batch[k] : k \in Keys} : Skip(e) \/ Read(e)

-----------------------------------------------------------------------------
Next == (ENext /\ UNCHANGED rvars) \/ Script
Spec == Init /\ [][Next]_vars

\* "It's expected that it will be invoked at regular intervals" by cron, and
\* time passes.
FairSpec == Spec /\ WF_vars(Script /\ faults' = faults) /\ WF_vars(Tick /\ UNCHANGED rvars)

-----------------------------------------------------------------------------
(* Properties.                                                             *)

\* An account gets each of its reminders at most once, and once more for every
\* send that was reported as failed and reached it all the same, however often
\* the script fails, puts reminders back and starts again
\* (scripts/verification-reminders.js run).
RemindedOnce ==
  \A k \in Keys, uid \in Ids : mailed[k][uid] <= 1 + doubted[k][uid]

\* verification-reminders.js: reminder records are removed when an account is
\* verified.  So none is stored once the request that verified it has ended.
\* This holds only if neither the script nor /account/create is at work on the
\* account meanwhile: both may store a reminder afterwards.
RemindersStopAtVerification ==
  faults = 0 => \A uid \in announced, k \in Keys :
    \A e \in reminders[k] : e.uid # uid

\* Reminders that become due are mailed in the end, unless the account is
\* verified or deleted before, or the script dies.
EveryoneIsReminded ==
  \A uid \in Ids, k \in Keys :
    (\E e \in reminders[k] : e.uid = uid /\ e.at + Interval[k] <= MaxClock)
      ~> \/ mailed[k][uid] > 0 \/ uid \notin Accounts \/ IsVerified(uid)
         \/ faults > 0
=============================================================================
