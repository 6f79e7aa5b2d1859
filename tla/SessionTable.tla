---------------------------- MODULE SessionTable ----------------------------
(***************************************************************************)
(* What the session operations of db.js promise about the sessions of one  *)
(* account.  A session has a time of last access.  MySQL stores one, a     *)
(* newer one is kept in a cache which may be lost at any time.  The cache  *)
(* is one value per account, with all of its sessions, and yet an access   *)
(* through one session never shows in another.                             *)
(***************************************************************************)
CONSTANTS
  Ids,   \* the ids of session tokens
  Times

VARIABLE table  \* id of a live session -> times of last access: stored, seen

TypeOK ==
  /\ DOMAIN table \subseteq Ids
  /\ \A i \in DOMAIN table : table[i] \in [stored : Times, seen : Times]

\* The account may have sessions already.
Init == TypeOK

\* A session is created.
Open(i, at) ==
  /\ i \notin DOMAIN table
  /\ \E s \in Times :
       table' = [x \in DOMAIN table \cup {i} |->
         IF x = i THEN [stored |-> at, seen |-> s] ELSE table[x]]

\* A request of session i is noted, in the cache or in MySQL.
Use(i, at) ==
  /\ i \in DOMAIN table
  /\ \/ table' = [table EXCEPT ![i].seen = at]
     \/ table' = [table EXCEPT ![i].stored = at]
     \/ table' = [table EXCEPT ![i] = [stored |-> at, seen |-> at]]

\* The cache loses what it had about sessions S.
Lapse(S) ==
  table' = [i \in DOMAIN table |->
    IF i \in S THEN [table[i] EXCEPT !.seen = table[i].stored] ELSE table[i]]

Close(S) ==
  table' = [i \in DOMAIN table \ S |-> table[i]]

Next ==
  \/ \E i \in Ids, at \in Times : Open(i, at) \/ Use(i, at)
  \/ \E S \in SUBSET Ids : Lapse(S) \/ Close(S)

Spec == Init /\ [][Next]_table
=============================================================================
