---------------------------- MODULE MailDelivery ----------------------------
(***************************************************************************)
(* Mail leaves through one of several services, unless its recipients have *)
(* bounced too often, and what bounces comes back through a queue of SQS,  *)
(* where it is recorded for the next mail.  One account with a primary     *)
(* address and others.  The services, SQS and the database are not in this *)
(* repository.                                                             *)
(***************************************************************************)
EXTENDS Naturals, FiniteSets, SequencesExt

CONSTANTS
  Addresses, Primary,
  Types,     \* kinds of bounces
  Rules,     \* smtp.bounces: the tiers for each kind, from a count of 0 on
  Services,  \* sendgrid, socketlabs and ses, by the email service or directly
  Sends,     \* mails
  Handlers,  \* notifications being handled
  Notes,     \* notifications in the queue
  Fetches,   \* calls of receiveMessage
  None,      \* nothing
  MaxClock,  \* bound: how far the clock goes
  MaxFaults, \* bound: how many calls fail
  MaxBounces \* bound: how many bounces of an address are recorded

ASSUME MailAssumption ==
  /\ IsFiniteSet(Addresses) /\ Primary \in Addresses
  /\ Rules \in [Types -> Seq(Nat)]
  /\ MaxClock \in Nat /\ MaxFaults \in Nat /\ MaxBounces \in Nat
  /\ None \notin Addresses \cup Services \cup Notes

VARIABLES
  bounces,   \* MySQL: the bounces of each address, the latest first
  send,      \* what each mail is at
  queue,     \* SQS: the notifications that are not deleted
  handler,   \* which notification is being handled
  fetch,     \* calls of receiveMessage, which may call back more than once
  clock, faults,
  delivered, \* history: <<mail, address>> that a service accepted
  told,      \* history: notifications deleted, and not for want of a format
  kept,      \* history: notifications whose bounce was recorded
  lost       \* history: those whose recording failed

mail == <<bounces, send, delivered>>
sqs == <<queue, handler, fetch, told, kept, lost>>
vars == <<mail, sqs, clock, faults>>

Times == 0..MaxClock
Bounces == [type : Types, at : Times]
Kinds == {"all", "one", "secondary"}
SendRecords ==
  [kind : Kinds,
   pc : {"check", "route", "deliver", "sent", "failed"},
   asked : UNION {[1..n -> Addresses] : n \in 0..Cardinality(Addresses)},  \* still to check
   open : SUBSET Addresses,   \* those that are not gated
   parts : SUBSET (Services \X SUBSET Addresses)]  \* what is yet to be answered
NoteRecords == [addr : Addresses, type : Types, sane : BOOLEAN]
HandlerRecords == [note : Notes, record : NoteRecords, pc : 1..2]

\* What is not there is told from what is.
ASSUME RecordAssumption == None \notin SendRecords \cup HandlerRecords

TypeOK ==
  /\ bounces \in [Addresses -> Seq(Bounces)]
  /\ \A a \in Addresses : Len(bounces[a]) <= MaxBounces
  /\ send \in [Sends -> SendRecords \cup {None}]
  /\ DOMAIN queue \subseteq Notes /\ \A m \in DOMAIN queue : queue[m] \in NoteRecords
  /\ handler \in [Handlers -> HandlerRecords \cup {None}]
  /\ fetch \in [Fetches -> {"none", "waiting", "timer"}]
  /\ clock \in Times /\ faults \in 0..MaxFaults
  /\ delivered \subseteq Sends \X Addresses
  /\ told \cup kept \cup lost \subseteq Notes

Init ==
  /\ bounces = [a \in Addresses |-> <<>>]
  /\ send = [s \in Sends |-> None]
  /\ queue = [m \in {} |-> None]
  /\ handler = [h \in Handlers |-> None]
  /\ \E f \in Fetches : fetch = [g \in Fetches |-> IF g = f THEN "waiting" ELSE "none"]
  /\ clock = 0 /\ faults = 0
  /\ delivered = {} /\ told = {} /\ kept = {} /\ lost = {}

Fault == faults < MaxFaults /\ faults' = faults + 1

-----------------------------------------------------------------------------
(* The bounce rules.                                                       *)

\* What db.emailBounces returns, the latest first.
Found(a) == bounces[a]
\* Mutant: the bounces of all kinds count together.
MutantCount(found, n) == n - 1
\* How many bounces of its kind applyRules has counted when it comes to the nth.
Count(found, n) == Cardinality({k \in 1..(n - 1) : found[k].type = found[n].type})

\* applyRules throws.
Gated(a) ==
  LET found == Found(a)
  IN  \E n \in DOMAIN found :
        LET b == found[n]  tiers == Rules[b.type]  count == Count(found, n)
        IN  count < Len(tiers) /\ b.at + tiers[count + 1] > clock

\* What the configuration says: more than n bounces of a kind within the tier
\* for n are too many.
TooMany(a) ==
  \E t \in Types : \E n \in DOMAIN Rules[t] :
    Cardinality({k \in DOMAIN bounces[a] :
      bounces[a][k].type = t /\ bounces[a][k].at + Rules[t][n] > clock}) >= n

-----------------------------------------------------------------------------
(* Sending.                                                                *)

\* A mail to the primary address and the verified ones, in the order they are
\* stored, to the primary one only, or to one that is to be verified.
Start(s, kind, list) ==
  /\ send[s] = None
  /\ IF kind = "all" THEN Primary \in ToSet(list) /\ IsInjective(list)
     ELSE list = <<Primary>>
  /\ send' = [send EXCEPT ![s] =
       [kind |-> kind, pc |-> "check", asked |-> list, open |-> {}, parts |-> {}]]
  /\ UNCHANGED <<bounces, delivered, sqs, clock, faults>>

\* getSafeMailer, one address after the other.
Check(s) ==
  LET a == Head(send[s].asked)
      open == IF Gated(a) THEN send[s].open ELSE send[s].open \cup {a}
      rest == Tail(send[s].asked)
  IN  /\ send[s] # None /\ send[s].pc = "check"
      /\ send' = [send EXCEPT ![s].open = open, ![s].asked = rest,
           ![s].pc = CASE rest # <<>> -> "check"
                       [] rest = <<>> /\ open = {} -> "failed"
                       [] OTHER -> "route"]
      /\ UNCHANGED <<bounces, delivered, sqs, clock, faults>>

\* The database does not answer: the address counts as gated.
CheckFails(s) ==
  LET rest == Tail(send[s].asked)
  IN  /\ send[s] # None /\ send[s].pc = "check"
      /\ Fault
      /\ send' = [send EXCEPT ![s].asked = rest,
           ![s].pc = CASE rest # <<>> -> "check"
                       [] rest = <<>> /\ send[s].open = {} -> "failed"
                       [] OTHER -> "route"]
      /\ UNCHANGED <<bounces, delivered, sqs, clock>>

\* The mail that verifies an address goes there once the primary one is open.
Recipients(s, a) ==
  IF send[s].kind = "secondary" THEN {a} ELSE send[s].open

\* upsertServicesMap: one mail for each service.
Parts(R, route) == {<<v, {a \in R : route[a] = v}>> : v \in {route[a] : a \in R}}

\* selectEmailServices: the live configuration, or failing that the static one,
\* leads each address to some service, by percentages and expressions.
Route(s, a, route) ==
  /\ send[s] # None /\ send[s].pc = "route"
  /\ send[s].kind = "secondary" => a # Primary
  /\ send[s].kind # "secondary" => a = Primary
  /\ send' = [send EXCEPT ![s].pc = "deliver", ![s].parts = Parts(Recipients(s, a), route)]
  /\ UNCHANGED <<bounces, delivered, sqs, clock, faults>>

\* The services answer in any order; the first that fails fails the mail, while
\* the others go on.
Deliver(s, p) ==
  LET left == send[s].parts \ {p}
  IN  /\ send[s] # None /\ p \in send[s].parts
      /\ delivered' = delivered \cup ({s} \X p[2])
      /\ send' = [send EXCEPT ![s].parts = left,
           ![s].pc = IF left = {} /\ @ = "deliver" THEN "sent" ELSE @]
      /\ UNCHANGED <<bounces, sqs, clock, faults>>
DeliverFails(s, p) ==
  /\ send[s] # None /\ p \in send[s].parts
  /\ Fault
  /\ send' = [send EXCEPT ![s].parts = @ \ {p}, ![s].pc = "failed"]
  /\ UNCHANGED <<bounces, delivered, sqs, clock>>

-----------------------------------------------------------------------------
(* The queue.                                                              *)

\* A mail bounces, or its recipient complains; the notification may be one that
\* cannot be parsed.
Bounce(s, a, m, type, sane) ==
  /\ <<s, a>> \in delivered
  /\ m \notin DOMAIN queue \cup told /\ \A h \in Handlers : handler[h] # None => handler[h].note # m
  /\ queue' = [k \in DOMAIN queue \cup {m} |->
       IF k = m THEN [addr |-> a, type |-> type, sane |-> sane] ELSE queue[k]]
  /\ UNCHANGED <<mail, handler, fetch, told, kept, lost, clock, faults>>

\* A message is emitted, or deleted if it makes no sense, and the next are
\* fetched; here a call returns one message or none.  After an error the call
\* that the timer will make adds to this one.
Receive(f, g, m, h) ==
  /\ fetch[f] # "none"
  /\ IF fetch[f] = "waiting" THEN g = f ELSE fetch[g] = "none"
  /\ fetch' = [fetch EXCEPT ![g] = "waiting"]
  /\ IF m = None THEN UNCHANGED <<queue, handler>>
     ELSE /\ m \in DOMAIN queue
          /\ handler[h] = None
          /\ IF queue[m].sane
             THEN handler' = [handler EXCEPT ![h] = [note |-> m, record |-> queue[m], pc |-> 1]]
                  /\ queue' = queue
             ELSE queue' = [k \in DOMAIN queue \ {m} |-> queue[k]] /\ handler' = handler
  /\ UNCHANGED <<mail, told, kept, lost, clock, faults>>

\* Mutant: after an error nobody asks again.
MutantNoTimer(f) ==
  /\ fetch[f] \in {"waiting", "timer"}
  /\ Fault
  /\ fetch' = [fetch EXCEPT ![f] = "none"]
  /\ UNCHANGED <<mail, queue, handler, told, kept, lost, clock>>

\* "This aws lib will call the callback more than once with different errors."
ReceiveError(f) ==
  /\ fetch[f] \in {"waiting", "timer"}
  /\ Fault
  /\ fetch' = [fetch EXCEPT ![f] = "timer"]
  /\ UNCHANGED <<mail, queue, handler, told, kept, lost, clock>>
FetchAgain(f) ==
  /\ fetch[f] = "timer"
  /\ fetch' = [fetch EXCEPT ![f] = "waiting"]
  /\ UNCHANGED <<mail, queue, handler, told, kept, lost, clock, faults>>

\* handleBounce: the bounce is recorded, beside the erasure of a new account,
\* which is in AccountEmails; a failure is logged; then the message is deleted.
\* Mutant: the message is deleted first, so that it is handled once.
MutantRecordThenDelete == <<"delete", "record">>
RecordThenDelete == <<"record", "delete">>
At(h, step) == handler[h] # None /\ RecordThenDelete[handler[h].pc] = step
Step(h) == handler' = [handler EXCEPT ![h] = IF @.pc = 1 THEN [@ EXCEPT !.pc = 2] ELSE None]

Record(h) ==
  LET r == handler[h]  a == r.record.addr
  IN  /\ At(h, "record")
      /\ Len(bounces[a]) < MaxBounces
      /\ bounces' = [bounces EXCEPT ![a] = Cons([type |-> r.record.type, at |-> clock], @)]
      /\ kept' = kept \cup {r.note}
      /\ Step(h)
      /\ UNCHANGED <<send, delivered, queue, fetch, told, lost, clock, faults>>
RecordFails(h) ==
  /\ At(h, "record")
  /\ Fault
  /\ lost' = lost \cup {handler[h].note}
  /\ Step(h)
  /\ UNCHANGED <<mail, queue, fetch, told, kept, clock>>
Delete(h) ==
  LET m == handler[h].note
  IN  /\ At(h, "delete")
      /\ queue' = [k \in DOMAIN queue \ {m} |-> queue[k]]
      /\ told' = told \cup {m}
      /\ Step(h)
      /\ UNCHANGED <<mail, fetch, kept, lost, clock, faults>>

\* The process that handles notifications stops and starts again.
Crash(f) ==
  /\ Fault
  /\ handler' = [h \in Handlers |-> None]
  /\ fetch' = [g \in Fetches |-> IF g = f THEN "waiting" ELSE "none"]
  /\ UNCHANGED <<mail, queue, told, kept, lost, clock>>

Tick ==
  /\ clock < MaxClock
  /\ clock' = clock + 1
  /\ UNCHANGED <<mail, sqs, faults>>

Lists == UNION {[1..n -> Addresses] : n \in 1..Cardinality(Addresses)}
Next ==
  \/ \E s \in Sends :
       \/ \E kind \in Kinds, list \in Lists : Start(s, kind, list)
       \/ Check(s) \/ CheckFails(s)
       \/ \E a \in Addresses, route \in [Addresses -> Services] : Route(s, a, route)
       \/ send[s] # None /\ \E p \in send[s].parts : Deliver(s, p) \/ DeliverFails(s, p)
       \/ \E a \in Addresses, m \in Notes, t \in Types, b \in BOOLEAN : Bounce(s, a, m, t, b)
  \/ \E f \in Fetches :
       \/ \E g \in Fetches, m \in Notes \cup {None}, h \in Handlers : Receive(f, g, m, h)
       \/ ReceiveError(f) \/ FetchAgain(f) \/ Crash(f)
  \/ \E h \in Handlers : Record(h) \/ RecordFails(h) \/ Delete(h)
  \/ Tick

\* A call of SQS calls back, timers fire, and the database answers.
Fairness ==
  /\ \A f \in Fetches : WF_vars(FetchAgain(f))
  /\ \A m \in Notes : SF_vars(\E f, g \in Fetches, h \in Handlers : Receive(f, g, m, h))
  /\ \A h \in Handlers : WF_vars(Record(h) \/ RecordFails(h) \/ Delete(h))
Spec == Init /\ [][Next]_vars /\ Fairness

-----------------------------------------------------------------------------
(* Properties.                                                             *)

\* The loop of applyRules, which relies on the order of what it is given, gates
\* exactly the addresses with more bounces than the tiers allow, when it reads
\* them while others are recorded (bounces.js applyRules).
GatedAreTooMany == \A a \in Addresses : Gated(a) <=> TooMany(a)

\* Mail goes only to addresses that were not gated, "to protect our sender
\* score" (senders/index.js:60), but for an address that is to be verified.
OnlyOpenAreMailed ==
  \A d \in delivered : send[d[1]].kind # "secondary" => d[2] \in send[d[1]].open

\* A mail that is reported as sent was accepted for each of its recipients, by
\* whichever services they were routed to (senders/email.js send, P.all).
SentReachesAll ==
  \A s \in Sends : send[s] # None /\ send[s].pc = "sent" =>
    IF send[s].kind = "secondary" THEN \E a \in Addresses \ {Primary} : <<s, a>> \in delivered
    ELSE {s} \X send[s].open \subseteq delivered

\* So mail reaches those whose bounces the rules allow, and nobody else.
MailIsForTheOpen == GatedAreTooMany /\ OnlyOpenAreMailed /\ SentReachesAll

\* A notification leaves the queue once its bounce is recorded, or the database
\* has failed, however often it is received and wherever the process stops
\* (email/bounces.js handleBounce, sqs.js fetch).
NoBounceIsForgotten == told \subseteq kept \cup lost

\* Every notification is handled in the end (sqs.js, email/bounces.js).
NotesAreHandled == \A m \in Notes : m \in DOMAIN queue ~> m \notin DOMAIN queue
=============================================================================
