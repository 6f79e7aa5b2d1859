------------------------------ MODULE TokenPurge ------------------------------
(***************************************************************************)
(* The end of an access token's life: its expiry, what token.verify says   *)
(* of it while its row is still there, and the script                      *)
(* bin/purge_expired_tokens.js, which deletes the rows in batches by one   *)
(* of two strategies.                                                      *)
(*                                                                         *)
(* The script may run many times, with different options, beside requests  *)
(* that issue and destroy tokens.  GET_LOCK keeps its runs apart for as    *)
(* long as the pooled connection that holds the lock lives.  An action is  *)
(* one SQL statement with the code up to the next one.                     *)
(***************************************************************************)
EXTENDS Naturals, FiniteSets

CONSTANTS
  Clients,
  Lifetimes,     \* the ttl values that clients ask for
  Purgers,       \* command lines of the script
  ById,          \* those with --by-id
  Ignored,       \* purger -> the clients named by --pocket-id
  TokenCount,    \* purger -> --token-count
  BatchSize,     \* purger -> --delete-batch-size
  Epoch,         \* expiration.accessTokenExpiryEpoch
  None,
  MaxTokens,     \* bound: how many tokens are issued
  MaxTime,       \* bound on the clock
  MaxCrashes     \* bound: how many runs are killed or lose their lock

ASSUME PurgeAssumption ==
  /\ Lifetimes \subseteq Nat
  /\ ById \subseteq Purgers
  /\ Ignored \in [Purgers -> SUBSET Clients]
  /\ TokenCount \in [Purgers -> Nat \ {0}]
  /\ BatchSize \in [Purgers -> Nat \ {0}]
  /\ Epoch \in Nat
  /\ None \notin Purgers
  /\ MaxTokens \in Nat
  /\ MaxTime \in Nat
  /\ MaxCrashes \in Nat

VARIABLES
  now,            \* the clock of the database
  tokens,         \* rows of table tokens
  issued,         \* how many tokens were issued
  lastPurgeTime,  \* row last-purge-time of table dbMetadata
  lock,           \* who holds purge_expired_tokens.lock
  pc,             \* purger -> the statement it is about to issue
  chosen,         \* purger -> tokensForDeletion
  last,           \* purger -> its variable lastPurgeTime
  deleted,        \* purger -> deletedItems
  crashes         \* how many runs were killed or lost their lock

vars == <<now, tokens, issued, lastPurgeTime, lock, pc, chosen, last, deleted,
          crashes>>

Rows == [id : Nat, client : Clients, expiresAt : Nat]

TypeOK ==
  /\ now \in Nat
  /\ tokens \subseteq Rows
  /\ issued \in Nat
  /\ lastPurgeTime \in Nat
  /\ lock \in Purgers \cup {None}
  /\ pc \in [Purgers -> {"idle", "select", "delete", "replace"}]
  /\ chosen \in [Purgers -> SUBSET Rows]
  /\ last \in [Purgers -> Nat]
  /\ deleted \in [Purgers -> Nat]
  /\ crashes \in Nat

\* Time 0 stands for OLDEST_POSSIBLE_TOKEN_EXPIRY, which is what a purger takes
\* for the time of the last purge when none is recorded.
Init ==
  /\ now = 0
  /\ tokens = {}
  /\ issued = 0
  /\ lastPurgeTime = 0
  /\ lock = None
  /\ pc = [p \in Purgers |-> "idle"]
  /\ chosen = [p \in Purgers |-> {}]
  /\ last = [p \in Purgers |-> 0]
  /\ deleted = [p \in Purgers |-> 0]
  /\ crashes = 0

-----------------------------------------------------------------------------
(* Requests.                                                               *)

Tick ==
  /\ now < MaxTime
  /\ now' = now + 1
  /\ UNCHANGED <<tokens, issued, lastPurgeTime, lock, pc, chosen, last, deleted,
                 crashes>>

\* generateAccessToken
Issue(c, ttl) ==
  /\ issued < MaxTokens
  /\ issued' = issued + 1
  /\ tokens' = tokens \cup {[id |-> issued + 1, client |-> c,
                             expiresAt |-> now + ttl]}
  /\ UNCHANGED <<now, lastPurgeTime, lock, pc, chosen, last, deleted, crashes>>

\* removeAccessToken, for whatever reason
Destroy(t) ==
  /\ tokens' = tokens \ {t}
  /\ UNCHANGED <<now, issued, lastPurgeTime, lock, pc, chosen, last, deleted, crashes>>

\* Mutant: the epoch is compared with the clock, not with the token's expiry.
MutantVerify(t) == t.expiresAt < now => now >= Epoch

\* Whether token.verify accepts the token of row t.
Verify(t) == t.expiresAt < now => t.expiresAt < Epoch

-----------------------------------------------------------------------------
(* The script.                                                             *)

\* How many rows a statement of p may touch.
Limit(p) == IF TokenCount[p] <= BatchSize[p] THEN TokenCount[p] ELSE BatchSize[p]

\* LIMIT n
Limited(rows, n) ==
  {b \in SUBSET rows : /\ Cardinality(b) <= n
                       /\ Cardinality(b) = n \/ b = rows}

\* The script ends, by process.exit: p's connection and its lock go with it.
Exit(p) ==
  /\ pc' = [pc EXCEPT ![p] = "idle"]
  /\ chosen' = [chosen EXCEPT ![p] = {}]
  /\ lock' = IF lock = p THEN None ELSE lock

\* getLock succeeds (a script that does not get the lock does nothing), and
\* purgeExpiredTokensById reads last-purge-time.
Start(p) ==
  /\ pc[p] = "idle"
  /\ lock = None
  /\ lock' = p
  /\ pc' = [pc EXCEPT ![p] = IF p \in ById THEN "select" ELSE "delete"]
  /\ last' = [last EXCEPT ![p] = lastPurgeTime]
  /\ deleted' = [deleted EXCEPT ![p] = 0]
  /\ UNCHANGED <<now, tokens, issued, lastPurgeTime, chosen, crashes>>

\* Mutant: the clients are ignored after LIMIT has been applied.
MutantDeleteAfterLimit(p) ==
  /\ p \notin ById
  /\ pc[p] = "delete"
  /\ \E b \in Limited({t \in tokens : t.expiresAt < now}, Limit(p)) :
       LET affected == {t \in b : t.client \notin Ignored[p]}
       IN /\ tokens' = tokens \ affected
          /\ deleted' = [deleted EXCEPT ![p] = @ + Cardinality(affected)]
          /\ IF affected = {} \/ deleted'[p] >= TokenCount[p]
             THEN Exit(p)
             ELSE UNCHANGED <<pc, chosen, lock>>
  /\ UNCHANGED <<now, issued, lastPurgeTime, last, crashes>>

\* purgeExpiredTokens: one DELETE ... LIMIT, and the loop around it.
DeleteExpired(p) ==
  /\ p \notin ById
  /\ pc[p] = "delete"
  /\ \E b \in Limited({t \in tokens : t.client \notin Ignored[p] /\ t.expiresAt < now},
                      Limit(p)) :
       /\ tokens' = tokens \ b
       /\ deleted' = [deleted EXCEPT ![p] = @ + Cardinality(b)]
       /\ IF b = {} \/ deleted'[p] >= TokenCount[p]
          THEN Exit(p)
          ELSE UNCHANGED <<pc, chosen, lock>>
  /\ UNCHANGED <<now, issued, lastPurgeTime, last, crashes>>

\* The rows that QUERY_EXPIRED_TOKENS may return to p: the oldest ones that
\* expired since `last`, at most Limit(p), in the order of expiresAt.
Oldest(p) ==
  LET expired == {t \in tokens : last[p] <= t.expiresAt /\ t.expiresAt <= now}
  IN {b \in Limited(expired, Limit(p)) :
        \A s \in b, t \in expired \ b : s.expiresAt <= t.expiresAt}

\* Mutant: last-purge-time is stored as soon as the batch is known.
MutantSelectById(p) ==
  /\ p \in ById
  /\ pc[p] = "select"
  /\ \E b \in Oldest(p) : \E l \in {last[p]} \cup {t.expiresAt : t \in b} :
       LET candidates == {t \in b : t.client \notin Ignored[p]}
       IN /\ \A t \in b : t.expiresAt <= l
          /\ last' = [last EXCEPT ![p] = l]
          /\ lastPurgeTime' = l
          /\ IF candidates = {}
             THEN Exit(p)
             ELSE /\ pc' = [pc EXCEPT ![p] = "delete"]
                  /\ chosen' = [chosen EXCEPT ![p] = candidates]
                  /\ UNCHANGED lock
  /\ UNCHANGED <<now, tokens, issued, deleted, crashes>>

\* purgeExpiredTokensById selects a batch and moves its own `last` to the end
\* of the batch.  If every row of the batch is to be ignored it bails out, and
\* what it moved is lost.
SelectById(p) ==
  /\ p \in ById
  /\ pc[p] = "select"
  /\ \E b \in Oldest(p) : \E l \in {last[p]} \cup {t.expiresAt : t \in b} :
       LET candidates == {t \in b : t.client \notin Ignored[p]}
       IN /\ \A t \in b : t.expiresAt <= l
          /\ last' = [last EXCEPT ![p] = l]
          /\ IF candidates = {}
             THEN Exit(p)
             ELSE /\ pc' = [pc EXCEPT ![p] = "delete"]
                  /\ chosen' = [chosen EXCEPT ![p] = candidates]
                  /\ UNCHANGED lock
  /\ UNCHANGED <<now, tokens, issued, lastPurgeTime, deleted, crashes>>

\* It deletes those of them that are still there.
DeleteById(p) ==
  /\ p \in ById
  /\ pc[p] = "delete"
  /\ LET affected == {t \in chosen[p] \cap tokens :
                        t.client \notin Ignored[p] /\ t.expiresAt <= now}
     IN /\ tokens' = tokens \ affected
        /\ deleted' = [deleted EXCEPT ![p] = @ + Cardinality(affected)]
        /\ IF affected = {}
           THEN Exit(p)
           ELSE /\ pc' = [pc EXCEPT ![p] = "replace"]
                /\ chosen' = [chosen EXCEPT ![p] = {}]
                /\ UNCHANGED lock
  /\ UNCHANGED <<now, issued, lastPurgeTime, last, crashes>>

\* It stores its `last`, and begins again unless it has deleted enough.
ReplaceLastPurgeTime(p) ==
  /\ pc[p] = "replace"
  /\ lastPurgeTime' = last[p]
  /\ IF deleted[p] >= TokenCount[p]
     THEN Exit(p)
     ELSE pc' = [pc EXCEPT ![p] = "select"] /\ UNCHANGED <<chosen, lock>>
  /\ UNCHANGED <<now, tokens, issued, last, deleted, crashes>>

\* The script fails or is killed.
Crash(p) ==
  /\ pc[p] # "idle"
  /\ crashes < MaxCrashes
  /\ crashes' = crashes + 1
  /\ Exit(p)
  /\ UNCHANGED <<now, tokens, issued, lastPurgeTime, last, deleted>>

\* The server closes the idle connection that holds the lock; p does not know.
LoseLock ==
  /\ lock # None
  /\ crashes < MaxCrashes
  /\ crashes' = crashes + 1
  /\ lock' = None
  /\ UNCHANGED <<now, tokens, issued, lastPurgeTime, pc, chosen, last, deleted>>

-----------------------------------------------------------------------------
Purge(p) ==
  DeleteExpired(p) \/ SelectById(p) \/ DeleteById(p) \/ ReplaceLastPurgeTime(p)

Next ==
  \/ Tick
  \/ \E c \in Clients, ttl \in Lifetimes : Issue(c, ttl)
  \/ \E t \in tokens : Destroy(t)
  \/ \E p \in Purgers : Start(p) \/ Purge(p) \/ Crash(p)
  \/ LoseLock

Spec == Init /\ [][Next]_vars

\* The script is run over and over (a cron job), is killed only so often, and
\* is otherwise left to finish.
FairSpec ==
  /\ Spec
  /\ WF_vars(Tick)
  /\ \A p \in Purgers : WF_vars(Start(p)) /\ WF_vars(Purge(p))

-----------------------------------------------------------------------------
(* Properties.                                                             *)

\* The clients whose tokens some run of the script leaves alone.
EverIgnored == UNION {Ignored[p] : p \in Purgers}

\* No expired token is skipped for good.  purgeExpiredTokensById never looks at
\* a token that expired before last-purge-time, so no row that is to be purged
\* may be left there: whatever is issued, destroyed, crashes or overlaps
\* between its SELECT, its DELETE and its REPLACE.
NothingSkipped ==
  \A t \in tokens : t.expiresAt < lastPurgeTime => t.client \in EverIgnored

Accepted == {t.id : t \in {u \in tokens : Verify(u)}}

\* Once token.verify (POST /verify and the bearer tokens of the server's own
\* routes) has refused a token, for being expired or for being gone, it never
\* accepts it again, though an expired token from before Epoch is accepted until
\* it is purged.  This is not said of /introspect, which does not ask
\* token.verify: it answers active for an access token with expiresAt < now, so
\* for exactly those that have expired.
RefusedForGood == [][\A i \in 1..issued : i \in Accepted' => i \in Accepted]_vars

\* bin/purge_expired_tokens.js is "a command line tool that can be used to purge
\* expired tokens": again and again there comes a time when no expired token is
\* left but those that some run ignores.
ExpiredIsPurged ==
  []<>(\A t \in tokens : t.expiresAt < now => t.client \in EverIgnored)
=============================================================================
