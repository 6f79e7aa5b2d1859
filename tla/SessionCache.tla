---------------------------- MODULE SessionCache ----------------------------
(***************************************************************************)
(* The sessions of one account: rows of a table that an HTTP service keeps *)
(* in MySQL, and one value in Redis, with the time of last access of every *)
(* session of the account.  A request calls one store after the other, in  *)
(* an order that differs from operation to operation.  The value in Redis  *)
(* is replaced by redis.update, which reads it, computes the new value,    *)
(* and fails if somebody wrote it meanwhile.                               *)
(***************************************************************************)
EXTENDS Naturals

CONSTANTS
  Ids,        \* ids of session tokens
  DeviceIds,  \* ids of devices
  Jobs,       \* requests under way
  None,       \* nothing
  Garbage,    \* a value in Redis that is no JSON
  MaxAge,     \* tokenLifetimes.sessionTokenWithoutDevice
  PruneAge,   \* tokenPruning.maxAge
  MaxClock,   \* bound: how far the clock goes
  MaxFaults   \* bound: how many calls fail

ASSUME SessionAssumption ==
  /\ MaxAge \in Nat /\ PruneAge \in Nat /\ MaxClock \in Nat /\ MaxFaults \in Nat
  /\ None \notin Ids
  /\ \A S \in SUBSET Ids : Garbage \notin [S -> Nat]

VARIABLES
  rows,     \* MySQL: id -> when the session was created and last accessed
  devs,     \* MySQL: id of a device -> its session, or None
  cache,    \* Redis: id -> time of last access; <<>> is no value
  job,      \* what each request is doing
  clock,
  faults,   \* how many calls failed
  excused   \* history: ids whose entry in Redis a failure or an overlap left

tables == <<rows, devs, cache>>
svars == <<tables, job, clock, faults, excused>>

Times == 0..MaxClock
Caches == {Garbage} \cup UNION {[S -> Times] : S \in SUBSET Ids}
Empty == [i \in {} |-> 0]

Ops == {"create", "touch", "update", "close", "drop", "prune", "list", "wipe"}
JobRecords ==
  [op : Ops,
   pc : {"read", "write", "row", "list", "clear", "dropped", "failed"},
   ids : SUBSET Ids,     \* the sessions it is about
   at : Times,           \* when it began
   view : Caches,        \* what WATCH and GET returned
   fresh : BOOLEAN,      \* nobody wrote the value since
   reads : SUBSET {"rows", "cache"}]  \* what db.sessions still reads

ASSUME JobAssumption == None \notin JobRecords

STypeOK ==
  /\ DOMAIN rows \subseteq Ids
  /\ \A i \in DOMAIN rows : rows[i] \in [created : Times, accessed : Times]
  /\ DOMAIN devs \subseteq DeviceIds
  /\ \A d \in DOMAIN devs : devs[d] \in Ids \cup {None}
  /\ cache \in Caches
  /\ job \in [Jobs -> JobRecords \cup {None}]
  /\ clock \in Times
  /\ faults \in 0..MaxFaults
  /\ excused \subseteq Ids

HasDevice(i) == \E d \in DOMAIN devs : devs[d] = i
\* Token.expired, with the lifetime that a session token without device has.
Expired(i) == ~HasDevice(i) /\ rows[i].created + MaxAge <= clock
\* The tokens that pruneSessionTokens asks Redis to forget.
Prunable(S) == {i \in S : rows[i].created + PruneAge <= clock}

SInit ==
  /\ rows = Empty
  /\ devs = [d \in {} |-> None]
  /\ cache = Empty
  /\ job = [j \in Jobs |-> None]
  /\ clock = 0
  /\ faults = 0
  /\ excused = {}

-----------------------------------------------------------------------------
(* How requests begin.                                                     *)

Job(op, pc, S) ==
  [op |-> op, pc |-> pc, ids |-> S, at |-> clock, view |-> Empty,
   fresh |-> FALSE, reads |-> {}]
Busy(i, ops) == \E k \in Jobs : job[k] # None /\ i \in job[k].ids /\ job[k].op \in ops
Spawn(j, r) == job[j] = None /\ job' = [job EXCEPT ![j] = r]

\* The id may be one that was used before: createSessionToken is written for
\* "clashes with zombie tokens left behind in Redis".
StartCreate(j, i) ==
  /\ i \notin DOMAIN rows
  /\ ~Busy(i, {"create"})
  /\ Spawn(j, Job("create", "read", {i}))
  /\ excused' = excused \ {i}
  /\ UNCHANGED <<tables, clock, faults>>

\* A request that was authenticated by session i: it notes the access, writes
\* the session through to MySQL, or signs out.
StartUse(j, i, op) ==
  /\ op \in {"touch", "update", "close"}
  /\ i \in DOMAIN rows
  /\ ~Expired(i)
  /\ Spawn(j, Job(op, "read", {i}))
  /\ UNCHANGED <<tables, clock, faults, excused>>

\* One that was not: its session has expired.
StartPrune(j, i) ==
  /\ i \in DOMAIN rows
  /\ Expired(i)
  /\ Prunable({i}) # {}
  /\ Spawn(j, Job("prune", "read", {i}))
  /\ UNCHANGED <<tables, clock, faults, excused>>

StartList(j) ==
  /\ Spawn(j, [Job("list", "list", {}) EXCEPT !.reads = {"rows", "cache"}])
  /\ UNCHANGED <<tables, clock, faults, excused>>

\* resetAccount and deleteAccount.
StartWipe(j) ==
  /\ Spawn(j, Job("wipe", "clear", {}))
  /\ UNCHANGED <<tables, clock, faults, excused>>

-----------------------------------------------------------------------------
(* redis.update: WATCH and GET, the callback, and MULTI with SET or DEL.   *)

Rest(r, pc) == [r EXCEPT !.pc = pc, !.view = Empty, !.fresh = FALSE]

\* Where a request goes on once Redis is updated, and once that has failed: to
\* create and to prune go on without, to list is to prune on the side.
After(r) ==
  CASE r.op \in {"create", "update", "close"} -> Rest(r, "row")
    [] r.op = "drop" -> Rest(r, "dropped")
    [] r.op = "list" /\ r.reads # {} -> Rest(r, "list")
    [] OTHER -> None
AfterFailure(r) ==
  CASE r.op \in {"create", "list", "prune"} -> After(r)
    [] r.op = "drop" -> Rest(r, "failed")
    [] OTHER -> None

\* What a failure of the update leaves behind: the zombie that the new session
\* was to replace, or the entry of the session that is gone.
Left(r) == IF r.op \in {"create", "drop"} THEN r.ids ELSE {}

\* Somebody wrote the value: whoever watches it will conflict.
Spoilt(r) == IF r # None /\ r.pc = "write" THEN [r EXCEPT !.fresh = FALSE] ELSE r
\* The new value c, and r for request j.  To delete no value is not to write.
Store(j, c, r) ==
  /\ cache' = c
  /\ job' = [k \in Jobs |->
       IF k = j THEN r
       ELSE IF c = Empty /\ cache = Empty THEN job[k] ELSE Spoilt(job[k])]

Watch(j) ==
  /\ job[j] # None /\ job[j].pc = "read"
  /\ job' = [job EXCEPT ![j].view = cache, ![j].fresh = TRUE, ![j].pc = "write"]
  /\ UNCHANGED <<tables, clock, faults, excused>>

\* touchSessionToken sets an entry, the others delete theirs.
Value(r) ==
  IF r.op \in {"touch", "update"}
  THEN [i \in DOMAIN r.view \cup r.ids |-> IF i \in r.ids THEN r.at ELSE r.view[i]]
  ELSE [i \in DOMAIN r.view \ r.ids |-> r.view[i]]

\* Session i is gone, or Redis was told so and MySQL is next.
Closing(i) ==
  \/ i \notin DOMAIN rows
  \/ \E k \in Jobs : job[k] # None /\ job[k].pc = "row" /\ i \in job[k].ids
                     /\ job[k].op \in {"close", "wipe"}
Late(r) == {i \in r.ids : Closing(i) \/ r.at < rows[i].created}

\* Mutant: SET without MULTI, so that no conflict is detected.
MutantWrite(j) ==
  LET r == job[j]
  IN  /\ r # None /\ r.pc = "write"
      /\ r.view # Garbage
      /\ Store(j, Value(r), After(r))
      /\ excused' = excused \cup (IF r.op \in {"touch", "update"} THEN Late(r) ELSE {})
      /\ UNCHANGED <<rows, devs, clock, faults>>

Write(j) ==
  LET r == job[j]
  IN  /\ r # None /\ r.pc = "write"
      /\ r.view # Garbage
      /\ r.fresh
      /\ Store(j, Value(r), After(r))
      /\ excused' = excused \cup (IF r.op \in {"touch", "update"} THEN Late(r) ELSE {})
      /\ UNCHANGED <<rows, devs, clock, faults>>

\* Mutant: signing out carries on, as creating does.
MutantFail(j) ==
  /\ job' = [job EXCEPT ![j] =
       IF job[j].op = "close" THEN After(job[j]) ELSE AfterFailure(job[j])]
  /\ excused' = excused \cup Left(job[j])

Fail(j) ==
  /\ job' = [job EXCEPT ![j] = AfterFailure(job[j])]
  /\ excused' = excused \cup Left(job[j])

\* The value was written meanwhile, or JSON.parse throws.
Conflict(j) ==
  /\ job[j] # None /\ job[j].pc = "write"
  /\ job[j].view = Garbage \/ ~job[j].fresh
  /\ Fail(j)
  /\ UNCHANGED <<tables, clock, faults>>

\* Redis cannot be reached.
RedisFails(j) ==
  /\ job[j] # None /\ job[j].pc \in {"read", "clear"}
  /\ faults < MaxFaults
  /\ faults' = faults + 1
  /\ Fail(j)
  /\ UNCHANGED <<tables, clock>>

\* "We've seen this situation occur once in prod."
Corrupt ==
  /\ faults < MaxFaults
  /\ faults' = faults + 1
  /\ cache' = Garbage
  /\ job' = [k \in Jobs |-> Spoilt(job[k])]
  /\ UNCHANGED <<rows, devs, clock, excused>>

-----------------------------------------------------------------------------
(* MySQL, and what else the operations do.                                 *)

AtRow(j, op) == job[j] # None /\ job[j].pc = "row" /\ job[j].op = op
End(j) == job' = [job EXCEPT ![j] = None]
Removed(S) ==
  /\ rows' = [i \in DOMAIN rows \ S |-> rows[i]]
  /\ devs' = [d \in {e \in DOMAIN devs : devs[e] \notin S} |-> devs[d]]

PutRow(j) ==
  /\ AtRow(j, "create")
  /\ rows' = [i \in DOMAIN rows \cup job[j].ids |->
       IF i \in job[j].ids THEN [created |-> job[j].at, accessed |-> job[j].at]
       ELSE rows[i]]
  /\ End(j)
  /\ UNCHANGED <<devs, cache, clock, faults, excused>>

\* An update of a session that is gone changes nothing.
PostRow(j) ==
  /\ AtRow(j, "update")
  /\ rows' = [i \in DOMAIN rows |->
       IF i \in job[j].ids THEN [rows[i] EXCEPT !.accessed = job[j].at]
       ELSE rows[i]]
  /\ End(j)
  /\ UNCHANGED <<devs, cache, clock, faults, excused>>

\* With the session goes its device.
DeleteRow(j) ==
  /\ AtRow(j, "close")
  /\ Removed(job[j].ids)
  /\ End(j)
  /\ UNCHANGED <<cache, clock, faults, excused>>

\* deleteDevice asks MySQL first, which deletes the session of the device.
DropDevice(j, d) ==
  /\ d \in DOMAIN devs
  /\ Spawn(j, Job("drop", "read", {devs[d]} \ {None}))
  /\ rows' = [i \in DOMAIN rows \ {devs[d]} |-> rows[i]]
  /\ devs' = [e \in DOMAIN devs \ {d} |-> devs[e]]
  /\ UNCHANGED <<cache, clock, faults, excused>>

\* redis.del, for all sessions of the account, and then MySQL.
Clear(j) ==
  /\ job[j] # None /\ job[j].pc = "clear"
  /\ Store(j, Empty, [job[j] EXCEPT !.pc = "row", !.ids = Ids])
  /\ UNCHANGED <<rows, devs, clock, faults, excused>>

DeleteRows(j) ==
  /\ AtRow(j, "wipe")
  /\ Removed(Ids \cup {None})
  /\ End(j)
  /\ UNCHANGED <<cache, clock, faults, excused>>

\* The service behind MySQL fails.
RowFails(j) ==
  /\ job[j] # None /\ job[j].pc = "row"
  /\ faults < MaxFaults
  /\ faults' = faults + 1
  /\ End(j)
  /\ UNCHANGED <<tables, clock, excused>>

\* db.sessions reads MySQL and Redis at the same time.  Sessions that expired
\* are left out, and pruned from Redis.
ListRows(j) ==
  LET r == job[j]
      old == Prunable({i \in DOMAIN rows : Expired(i)})
      left == [r EXCEPT !.reads = @ \ {"rows"}]
  IN  /\ r # None /\ r.pc = "list" /\ "rows" \in r.reads
      /\ job' = [job EXCEPT ![j] =
           IF old # {} THEN [left EXCEPT !.pc = "read", !.ids = old]
           ELSE IF left.reads = {} THEN None ELSE left]
      /\ UNCHANGED <<tables, clock, faults, excused>>

\* A value that cannot be parsed is deleted; if Redis cannot be reached, the
\* times are left out of the answer.
ListCache(j) ==
  LET r == job[j]
      left == [r EXCEPT !.reads = @ \ {"cache"}]
      rest == IF left.reads = {} /\ left.pc = "list" THEN None ELSE left
  IN  /\ r # None /\ r.op = "list" /\ "cache" \in r.reads
      /\ IF cache = Garbage
         THEN Store(j, Empty, IF rest = None THEN None ELSE Spoilt(rest))
         ELSE cache' = cache /\ job' = [job EXCEPT ![j] = rest]
      /\ UNCHANGED <<rows, devs, clock, faults, excused>>

Tick ==
  /\ clock < MaxClock
  /\ clock' = clock + 1
  /\ UNCHANGED <<tables, job, faults, excused>>

SNext ==
  \/ \E j \in Jobs :
       \/ \E i \in Ids : StartCreate(j, i) \/ StartPrune(j, i)
                         \/ \E op \in Ops : StartUse(j, i, op)
       \/ StartList(j) \/ StartWipe(j)
       \/ Watch(j) \/ Write(j) \/ Conflict(j) \/ RedisFails(j) \/ Clear(j)
       \/ PutRow(j) \/ PostRow(j) \/ DeleteRow(j) \/ DeleteRows(j) \/ RowFails(j)
       \/ ListRows(j) \/ ListCache(j)
  \/ Corrupt \/ Tick

-----------------------------------------------------------------------------
(* Properties.                                                             *)

\* A request is about to delete the entry.
Cleaning(i) ==
  \E k \in Jobs : job[k] # None /\ job[k].op \in {"create", "drop"}
                  /\ i \in job[k].ids /\ job[k].pc \in {"read", "write"}

\* Redis knows of no session that MySQL does not, and nothing of a session from
\* before it was created, unless a request touched the session while, or after,
\* it was deleted, or a cleanup failed (db.js deleteSessionToken, deleteDevice,
\* resetAccount, createSessionToken).
CacheFollowsTable ==
  cache # Garbage => \A i \in DOMAIN cache :
    \/ i \in excused \/ Cleaning(i)
    \/ i \in DOMAIN rows /\ rows[i].created <= cache[i]

\* The two stores together are the one table of SessionTable.
Seen(i) ==
  IF cache # Garbage /\ i \in DOMAIN cache THEN cache[i] ELSE rows[i].accessed
Table == INSTANCE SessionTable WITH
  table <- [i \in DOMAIN rows |-> [stored |-> rows[i].accessed, seen |-> Seen(i)]]
=============================================================================
