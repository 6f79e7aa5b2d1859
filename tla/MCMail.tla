------------------------------- MODULE MCMail -------------------------------
(***************************************************************************)
(* Instances of MailDelivery for TLC.  A run examines several workloads,   *)
(* one of which is chosen at the start.                                    *)
(***************************************************************************)
EXTENDS MailDelivery, TLC

CONSTANTS a1, a2, hard, soft, ses, sendgrid, s1, s2, m1, m2, h1, h2, f1, f2, Workloads

VARIABLE workload

mcvars == <<vars, workload>>

MCRules == [t \in Types |-> IF t = hard THEN <<1, 3>> ELSE <<2>>]

Plain == [kinds |-> {}, addresses |-> {a1}, mails |-> 1, notes |-> {}, types |-> {hard},
          clock |-> 0, faults |-> 0, bounces |-> 0, insane |-> FALSE, fetching |-> 1,
          sent |-> {}]

\* Mails; mails that bounce, one after the other; the queue.
MailWorkloads ==
  [mails |-> [Plain EXCEPT !.kinds = Kinds, !.addresses = Addresses, !.mails = 2, !.faults = 1],
   rules |-> [Plain EXCEPT !.kinds = {"one"}, !.notes = Notes, !.types = Types, !.clock = 3,
                           !.bounces = 3, !.sent = {s1}],
   gates |-> [Plain EXCEPT !.kinds = Kinds, !.addresses = Addresses, !.notes = {m1},
                           !.clock = 1, !.bounces = 1, !.sent = {s1}, !.mails = 1],
   queue |-> [Plain EXCEPT !.notes = Notes, !.faults = 2, !.bounces = 8, !.fetching = 2,
                           !.insane = TRUE, !.sent = {s1}]]

W == Workloads[workload]
Within ==
  /\ clock' <= W.clock
  /\ faults' <= W.faults
  /\ \A a \in Addresses : Len(bounces'[a]) <= W.bounces
  /\ DOMAIN queue' \subseteq W.notes
  /\ \A m \in DOMAIN queue' : queue'[m].type \in W.types /\ (queue'[m].sane \/ W.insane)
  /\ Cardinality({f \in Fetches : fetch'[f] # "none"}) <= W.fetching
  /\ \A s \in Sends : send'[s] # None /\ send[s] = None =>
       /\ send'[s].kind \in W.kinds
       /\ ToSet(send'[s].asked) \subseteq W.addresses
       /\ Cardinality({t \in Sends \ W.sent : send'[t] # None}) <= W.mails

\* A mail that was sent before.
Sent == [kind |-> "all", pc |-> "sent", asked |-> <<>>, open |-> W.addresses, parts |-> {}]
MCInit ==
  /\ workload \in DOMAIN Workloads
  /\ bounces = [a \in Addresses |-> <<>>]
  /\ send = [s \in Sends |-> IF s \in W.sent THEN Sent ELSE None]
  /\ queue = [m \in {} |-> None]
  /\ handler = [h \in Handlers |-> None]
  /\ fetch = [f \in Fetches |-> IF f = f1 THEN "waiting" ELSE "none"]
  /\ clock = 0 /\ faults = 0
  /\ delivered = W.sent \X W.addresses
  /\ told = {} /\ kept = {} /\ lost = {}
MCNext == Next /\ Within /\ UNCHANGED workload
\* Fairness of MailDelivery, within the bounds of the workload.
Fairly(A) == A /\ Within /\ UNCHANGED workload
MCFairness ==
  /\ \A f \in Fetches : WF_mcvars(Fairly(FetchAgain(f)))
  /\ \A m \in Notes :
       SF_mcvars(Fairly(\E f, g \in Fetches, h \in Handlers : Receive(f, g, m, h)))
  /\ \A h \in Handlers : WF_mcvars(Fairly(Record(h) \/ RecordFails(h) \/ Delete(h)))
MCSpec == MCInit /\ [][MCNext]_mcvars /\ MCFairness
=============================================================================
