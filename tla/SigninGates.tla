---------------------------- MODULE SigninGates ----------------------------
(***************************************************************************)
(* What stands before a password: the customs server may block a sign-in,  *)
(* and may let an unblock code that was mailed to the user lift the block. *)
(* Sign-in codes, which an SMS carries to another device, are consumed in  *)
(* the same way.  Customs and the database are other services.             *)
(***************************************************************************)
EXTENDS Naturals

CONSTANTS
  Requests,  \* requests under way
  Codes,     \* unblock codes and sign-in codes
  Flows,     \* flows of the metrics
  None,      \* nothing
  Lifetime,  \* signinUnblock.codeLifetime
  MaxClock,  \* bound: how far the clock goes
  MaxFaults  \* bound: how many calls fail

ASSUME GateAssumption ==
  /\ Lifetime \in Nat /\ MaxClock \in Nat /\ MaxFaults \in Nat
  /\ None \notin Codes \cup Flows

VARIABLES
  unblock,  \* MySQL: unblock code -> when it was created
  signin,   \* MySQL: sign-in code -> the flow it was created in, or None
  gate,     \* sign-ins on their way through checkCustomsAndLoadAccount
  clock,
  faults,   \* how many calls failed
  uses      \* history: how often each code was accepted since it was created

gatevars == <<unblock, signin, gate, uses>>
gvars == <<gatevars, clock, faults>>

Times == 0..MaxClock
Functions(S, T) == UNION {[U -> T] : U \in SUBSET S}
Gates == [pc : {"customs", "account", "consume", "load", "passed", "refused"},
          code : Codes \cup {None}]

ASSUME GatesAssumption == None \notin Gates

GTypeOK ==
  /\ unblock \in Functions(Codes, Times)
  /\ signin \in Functions(Codes, Flows \cup {None})
  /\ gate \in [Requests -> Gates \cup {None}]
  /\ clock \in Times
  /\ faults \in 0..MaxFaults
  /\ uses \in [Codes -> 0..2]

GInit ==
  /\ unblock = [c \in {} |-> 0]
  /\ signin = [c \in {} |-> None]
  /\ gate = [r \in Requests |-> None]
  /\ clock = 0
  /\ faults = 0
  /\ uses = [c \in Codes |-> 0]

-----------------------------------------------------------------------------
(* The codes.  One value is not used for both kinds at a time, for `uses`.  *)

Known == DOMAIN unblock \cup DOMAIN signin
Without(f, c) == [d \in DOMAIN f \ {c} |-> f[d]]
Used(c) == uses' = [uses EXCEPT ![c] = @ + 1]

\* A code that exists is drawn again.
CreateUnblockCode(c) ==
  /\ c \notin Known
  /\ unblock' = [d \in DOMAIN unblock \cup {c} |-> IF d = c THEN clock ELSE unblock[d]]

SendUnblockCode(c) ==
  /\ CreateUnblockCode(c)
  /\ uses' = [uses EXCEPT ![c] = 0]
  /\ UNCHANGED <<signin, gate, clock, faults>>

\* "This wasn't me."
RejectUnblockCode(c) ==
  /\ c \in DOMAIN unblock
  /\ unblock' = Without(unblock, c)
  /\ Used(c)
  /\ UNCHANGED <<signin, gate, clock, faults>>

\* createSigninCode calls itself without the flow if the code d it drew first
\* exists.
CreateSigninCode(f, c, d) ==
  /\ c \notin Known
  /\ d \in DOMAIN signin \cup {c}
  /\ signin' = [e \in DOMAIN signin \cup {c} |->
       IF e # c THEN signin[e] ELSE IF d = c THEN f ELSE None]

\* The SMS may then fail to be sent.
SendSms(f, c, d) ==
  /\ CreateSigninCode(f, c, d)
  /\ uses' = [uses EXCEPT ![c] = 0]
  /\ UNCHANGED <<unblock, gate, clock, faults>>

ConsumeSigninCode(c) ==
  /\ c \in DOMAIN signin
  /\ signin' = Without(signin, c)
  /\ Used(c)
  /\ UNCHANGED <<unblock, gate, clock, faults>>

-----------------------------------------------------------------------------
(* checkCustomsAndLoadAccount.                                             *)

AtGate(r, pc) == gate[r] # None /\ gate[r].pc = pc
Move(r, pc) == gate' = [gate EXCEPT ![r].pc = pc]
Enter(r, c) ==
  /\ gate[r] = None
  /\ gate' = [gate EXCEPT ![r] = [pc |-> "customs", code |-> c]]
  /\ UNCHANGED <<unblock, signin, uses>>
Leave(r) ==
  /\ gate' = [gate EXCEPT ![r] = None]
  /\ UNCHANGED <<unblock, signin, uses>>

\* Customs lets it pass, or blocks it, for good or unless there is a code, which
\* is also what happens to the forced addresses; or does not answer.
Allowed(r) ==
  /\ AtGate(r, "customs")
  /\ Move(r, "load")
  /\ UNCHANGED <<unblock, signin, clock, faults, uses>>
Blocked(r) ==
  /\ AtGate(r, "customs")
  /\ Move(r, "refused")
  /\ UNCHANGED <<unblock, signin, clock, faults, uses>>
Unblockable(r) ==
  /\ AtGate(r, "customs")
  /\ Move(r, IF gate[r].code = None THEN "refused" ELSE "account")
  /\ UNCHANGED <<unblock, signin, clock, faults, uses>>

\* The account is read, for the uid the code goes with, or afterwards.
Account(r) ==
  /\ AtGate(r, "account") \/ AtGate(r, "load")
  /\ \/ Move(r, IF gate[r].pc = "load" THEN "passed" ELSE "consume")
     \/ Move(r, "refused")
  /\ UNCHANGED <<unblock, signin, clock, faults, uses>>

\* Mutant: the code is looked up, but only a rejection deletes it.
MutantConsume(r) ==
  LET c == gate[r].code
  IN  /\ AtGate(r, "consume")
      /\ IF c \in DOMAIN unblock /\ clock - unblock[c] <= Lifetime
         THEN unblock' = unblock /\ Used(c) /\ Move(r, "passed")
         ELSE Move(r, "refused") /\ UNCHANGED <<unblock, uses>>
      /\ UNCHANGED <<signin, clock, faults>>

\* A code that is too old is consumed as well.
Consume(r) ==
  LET c == gate[r].code
  IN  /\ AtGate(r, "consume")
      /\ unblock' = Without(unblock, c)
      /\ IF c \in DOMAIN unblock /\ clock - unblock[c] <= Lifetime
         THEN Used(c) /\ Move(r, "passed")
         ELSE Move(r, "refused") /\ uses' = uses
      /\ UNCHANGED <<signin, clock, faults>>

GateFails(r) ==
  /\ gate[r] # None /\ gate[r].pc \in {"customs", "account", "consume", "load"}
  /\ faults < MaxFaults
  /\ faults' = faults + 1
  /\ Move(r, "refused")
  /\ UNCHANGED <<unblock, signin, clock, uses>>

Tick ==
  /\ clock < MaxClock
  /\ clock' = clock + 1
  /\ UNCHANGED <<gatevars, faults>>

GNext ==
  \/ \E c \in Codes : SendUnblockCode(c) \/ RejectUnblockCode(c) \/ ConsumeSigninCode(c)
                      \/ \E f \in Flows, d \in Codes : SendSms(f, c, d)
  \/ \E r \in Requests : Allowed(r) \/ Blocked(r) \/ Unblockable(r)
                         \/ Account(r) \/ Consume(r) \/ GateFails(r)
  \/ Tick

-----------------------------------------------------------------------------
(* Properties.                                                             *)

\* A code is accepted once: an unblock code lets one blocked request through or
\* is rejected by the user, and a sign-in code signs in one device, however many
\* requests present it at a time (consumeUnblockCode, consumeSigninCode).
CodesAreAcceptedOnce == \A c \in Codes : uses[c] <= 1
=============================================================================
