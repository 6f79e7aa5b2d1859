---------------------------- MODULE DevicesProofs ----------------------------
(***************************************************************************)
(* Theorems about SessionCache and Devices.  The first part is about the   *)
(* two stores of sessions: what a request under way may rely on, which is  *)
(* inductive, and from which it follows that Redis follows MySQL and that  *)
(* both together implement SessionTable.  The second is about devices.     *)
(***************************************************************************)
EXTENDS Devices, TLAPS

-----------------------------------------------------------------------------
(* The invariant of the sessions.                                          *)

\* A value that redis.update may still write was computed from the value in
\* force.
FreshIsCurrent ==
  \A j \in Jobs : job[j] # None /\ job[j].pc = "write" /\ job[j].fresh =>
    job[j].view = cache

OneSession ==
  \A j \in Jobs : job[j] # None /\ job[j].op \in {"create", "touch", "update"} =>
    \E i \in Ids : job[j].ids = {i}

Placed ==
  \A j \in Jobs : job[j] # None =>
    /\ job[j].pc = "list" => job[j].op = "list"
    /\ job[j].pc = "clear" => job[j].op = "wipe"
    /\ job[j].pc = "row" /\ job[j].op = "wipe" => job[j].ids = Ids

\* A session that is being created is in no row, and nobody else creates it.
CreatesAreNew ==
  \A j \in Jobs : job[j] # None /\ job[j].op = "create" =>
    \A i \in job[j].ids :
      /\ i \notin DOMAIN rows
      /\ \A k \in Jobs \ {j} :
           ~(job[k] # None /\ job[k].op = "create" /\ i \in job[k].ids)

\* What Redis was told to forget it has forgotten before MySQL is told.
ClosedIsClean ==
  \A j \in Jobs : job[j] # None /\ job[j].pc = "row" /\ job[j].op \in {"close", "wipe"} =>
    (cache # Garbage =>
       \A i \in job[j].ids \cap DOMAIN cache : i \in excused \/ Cleaning(i))

SessionInv ==
  /\ STypeOK
  /\ FreshIsCurrent
  /\ OneSession
  /\ Placed
  /\ CreatesAreNew
  /\ ClosedIsClean
  /\ CacheFollowsTable

\* The entries that request record r is about to delete.
CleanedBy(r) ==
  IF r # None /\ r.op \in {"create", "drop"} /\ r.pc \in {"read", "write"}
  THEN r.ids ELSE {}

LEMMA CleaningIsBySome ==
  ASSUME NEW i
  PROVE  Cleaning(i) <=> \E k \in Jobs : i \in CleanedBy(job[k])
BY DEF Cleaning, CleanedBy

LEMMA SessionInit == SInit => SessionInv
<1> SUFFICES ASSUME SInit PROVE SessionInv
  OBVIOUS
<1>1. Empty \in Caches /\ DOMAIN Empty = {}
  <2>1. Empty \in [{} -> Times]
    BY DEF Empty
  <2> QED
    BY <2>1 DEF Caches, Empty
<1>2. clock \in Times /\ faults \in 0..MaxFaults
  BY SessionAssumption DEF SInit, Times
<1>3. STypeOK
  BY <1>1, <1>2 DEF SInit, STypeOK
<1>4. FreshIsCurrent /\ OneSession /\ Placed /\ CreatesAreNew /\ ClosedIsClean
  BY DEF SInit, FreshIsCurrent, OneSession, Placed, CreatesAreNew, ClosedIsClean
<1>5. CacheFollowsTable
  BY <1>1 DEF SInit, CacheFollowsTable
<1> QED
  BY <1>3, <1>4, <1>5 DEF SessionInv

\* What the record r that request j goes on with must be for the invariant to
\* survive, if the tables stay as they are.
Sound(j, r) ==
  /\ r \in JobRecords \cup {None}
  /\ r # None =>
       /\ r.pc = "write" /\ r.fresh => r.view = cache
       /\ r.op \in {"create", "touch", "update"} => \E i \in Ids : r.ids = {i}
       /\ r.pc = "list" => r.op = "list"
       /\ r.pc = "clear" => r.op = "wipe"
       /\ r.pc = "row" /\ r.op = "wipe" => r.ids = Ids
       /\ r.op = "create" => \A i \in r.ids :
            /\ i \notin DOMAIN rows
            /\ \A k \in Jobs \ {j} :
                 ~(job[k] # None /\ job[k].op = "create" /\ i \in job[k].ids)

\* A request is about to delete rows whose entries Redis has deleted.
Closes(r) == r # None /\ r.pc = "row" /\ r.op \in {"close", "wipe"}

\* A step of request j that touches neither table.  What it has cleaned up to
\* now, or gives up, is excused.
LEMMA JobStep ==
  ASSUME SessionInv, NEW j \in Jobs, NEW r, Sound(j, r), ~Closes(r),
         job' = [job EXCEPT ![j] = r],
         UNCHANGED tables,
         excused' \subseteq Ids, clock' \in Times, faults' \in 0..MaxFaults,
         excused \cup CleanedBy(job[j]) \subseteq excused' \cup CleanedBy(r)
  PROVE  SessionInv'
<1>1. \A k \in Jobs : job'[k] = IF k = j THEN r ELSE job[k]
  BY DEF SessionInv, STypeOK
<1>2. UNCHANGED <<rows, devs, cache>>
  BY DEF tables
<1>3. STypeOK'
  BY <1>2 DEF SessionInv, STypeOK, Sound
<1>4. FreshIsCurrent'
  BY <1>1, <1>2 DEF SessionInv, FreshIsCurrent, Sound
<1>5. OneSession' /\ Placed'
  BY <1>1 DEF SessionInv, OneSession, Placed, Sound
<1>6. CreatesAreNew'
  BY <1>1, <1>2 DEF SessionInv, CreatesAreNew, Sound
<1>7. ASSUME NEW i, i \in excused \/ Cleaning(i)
      PROVE  i \in excused' \/ Cleaning(i)'
  <2>1. CASE i \in excused \cup CleanedBy(job[j])
    BY <1>1, <2>1 DEF Cleaning, CleanedBy
  <2>2. CASE i \notin excused \cup CleanedBy(job[j])
    <3>1. PICK k \in Jobs : i \in CleanedBy(job[k])
      BY <1>7, <2>2, CleaningIsBySome
    <3>2. k # j /\ job'[k] = job[k]
      BY <1>1, <2>2, <3>1
    <3> QED
      BY <3>1, <3>2 DEF Cleaning, CleanedBy
  <2> QED
    BY <2>1, <2>2
<1>8. ClosedIsClean'
  BY <1>1, <1>2, <1>7 DEF SessionInv, ClosedIsClean, Closes
<1>9. CacheFollowsTable'
  BY <1>2, <1>7 DEF SessionInv, CacheFollowsTable
<1> QED
  BY <1>3, <1>4, <1>5, <1>6, <1>8, <1>9 DEF SessionInv

\* A step of request j that changes rows: new ones are those it creates, and
\* what Redis has of one that goes is excused, or about to be deleted.
LEMMA RowStep ==
  ASSUME SessionInv, NEW j \in Jobs, NEW r, Sound(j, r), ~Closes(r),
         r # None => r.op # "create",
         job' = [job EXCEPT ![j] = r],
         UNCHANGED <<cache, clock, faults, excused>>,
         CleanedBy(job[j]) = {},
         STypeOK',
         \A i \in DOMAIN rows' :
           \/ i \in DOMAIN rows /\ rows'[i].created = rows[i].created
           \/ job[j] # None /\ job[j].op = "create" /\ i \in job[j].ids,
         cache # Garbage =>
           \A i \in DOMAIN rows \ DOMAIN rows' :
             i \in DOMAIN cache => i \in excused \/ Cleaning(i) \/ i \in CleanedBy(r)
  PROVE  SessionInv'
<1>1. \A k \in Jobs : job'[k] = IF k = j THEN r ELSE job[k]
  BY DEF SessionInv, STypeOK
<1>2. FreshIsCurrent'
  BY <1>1 DEF SessionInv, FreshIsCurrent, Sound
<1>3. OneSession' /\ Placed'
  BY <1>1 DEF SessionInv, OneSession, Placed, Sound
<1>4. CreatesAreNew'
  BY <1>1 DEF SessionInv, CreatesAreNew
<1>5. ASSUME NEW i, i \in excused \/ Cleaning(i) \/ i \in CleanedBy(r)
      PROVE  i \in excused' \/ Cleaning(i)'
  <2>1. CASE i \in excused \cup CleanedBy(r)
    BY <1>1, <2>1 DEF Cleaning, CleanedBy
  <2>2. CASE i \notin excused \cup CleanedBy(r)
    <3>1. PICK k \in Jobs : i \in CleanedBy(job[k])
      BY <1>5, <2>2, CleaningIsBySome
    <3>2. k # j /\ job'[k] = job[k]
      BY <1>1, <3>1
    <3> QED
      BY <3>1, <3>2 DEF Cleaning, CleanedBy
  <2> QED
    BY <2>1, <2>2
<1>6. ClosedIsClean'
  BY <1>1, <1>5 DEF SessionInv, ClosedIsClean, Closes
<1>7. CacheFollowsTable'
  <2> SUFFICES ASSUME cache # Garbage, NEW i \in DOMAIN cache
               PROVE  \/ i \in excused' \/ Cleaning(i)'
                      \/ i \in DOMAIN rows' /\ rows'[i].created <= cache[i]
    BY DEF CacheFollowsTable
  <2>1. CASE i \in excused \/ Cleaning(i)
    BY <1>5, <2>1
  <2>2. CASE i \in DOMAIN rows /\ rows[i].created <= cache[i]
    BY <1>5, <2>2 DEF SessionInv, CreatesAreNew
  <2> QED
    BY <2>1, <2>2 DEF SessionInv, CacheFollowsTable
<1> QED
  BY <1>2, <1>3, <1>4, <1>6, <1>7 DEF SessionInv

\* A request that is told that somebody wrote the value is otherwise the same.
LEMMA SpoiltIsAlike ==
  ASSUME NEW r \in JobRecords
  PROVE  /\ Spoilt(r) \in JobRecords
         /\ Spoilt(r).op = r.op /\ Spoilt(r).pc = r.pc /\ Spoilt(r).ids = r.ids
         /\ r.pc = "write" => ~Spoilt(r).fresh
<1>1. CASE Spoilt(r) = r
  BY <1>1, JobAssumption DEF Spoilt, JobRecords
<1>2. CASE Spoilt(r) = [r EXCEPT !.fresh = FALSE]
  BY <1>2 DEF JobRecords
<1> QED
  BY <1>1, <1>2 DEF Spoilt

\* A step that writes the value in Redis, by request j or by none: every entry
\* of the new value is excused, or about to be deleted, or as it should be.
LEMMA CacheStep ==
  ASSUME SessionInv, NEW j, NEW r,
         j \in Jobs => Sound(j, r) /\ (r # None /\ r.pc = "write" => ~r.fresh)
                       /\ (r # None /\ r.op = "create" =>
                             job[j] # None /\ job[j].op = "create" /\ job[j].ids = r.ids),
         job' \in [Jobs -> JobRecords \cup {None}],
         \A k \in Jobs : job'[k] = (IF k = j THEN r ELSE Spoilt(job[k]))
                         \/ (k # j /\ job'[k] = job[k] /\ cache' = cache),
         UNCHANGED <<rows, devs>>,
         cache' \in Caches, excused' \subseteq Ids, clock' \in Times,
         faults' \in 0..MaxFaults,
         cache' # Garbage => \A i \in DOMAIN cache' :
           \/ i \in excused' \/ Cleaning(i)'
           \/ /\ i \in DOMAIN rows /\ rows[i].created <= cache'[i]
              /\ \A k \in Jobs : ~(Closes(job'[k]) /\ i \in job'[k].ids)
  PROVE  SessionInv'
<1>1. ASSUME NEW k \in Jobs, k # j, job'[k] # None
      PROVE  /\ job[k] # None
             /\ job'[k].op = job[k].op /\ job'[k].pc = job[k].pc
             /\ job'[k].ids = job[k].ids
             /\ job[k].pc = "write" => ~job'[k].fresh \/ (cache' = cache /\ job'[k] = job[k])
  <2>1. job[k] \in JobRecords \cup {None}
    BY DEF SessionInv, STypeOK
  <2>2. CASE job'[k] = Spoilt(job[k])
    <3>1. job[k] \in JobRecords
      BY <1>1, <2>1, <2>2 DEF Spoilt
    <3> QED
      BY <1>1, <2>2, <3>1, SpoiltIsAlike, JobAssumption
  <2>3. CASE job'[k] = job[k] /\ cache' = cache
    BY <1>1, <2>3
  <2> QED
    BY <1>1, <2>2, <2>3
<1>2. STypeOK'
  BY DEF SessionInv, STypeOK
<1>3. FreshIsCurrent'
  <2> SUFFICES ASSUME NEW k \in Jobs, job'[k] # None, job'[k].pc = "write", job'[k].fresh
               PROVE  job'[k].view = cache'
    BY DEF FreshIsCurrent
  <2>1. k # j
    OBVIOUS
  <2> QED
    BY <1>1, <2>1 DEF SessionInv, FreshIsCurrent
<1>4. OneSession' /\ Placed'
  BY <1>1 DEF SessionInv, OneSession, Placed, Sound
<1>5. CreatesAreNew'
  <2> SUFFICES ASSUME NEW k \in Jobs, job'[k] # None, job'[k].op = "create",
                      NEW i \in job'[k].ids
               PROVE  /\ i \notin DOMAIN rows
                      /\ \A l \in Jobs \ {k} :
                           ~(job'[l] # None /\ job'[l].op = "create" /\ i \in job'[l].ids)
    BY DEF CreatesAreNew
  <2>1. ASSUME NEW l \in Jobs, job'[l] # None, job'[l].op = "create"
        PROVE  job[l] # None /\ job[l].op = "create" /\ job[l].ids = job'[l].ids
    BY <1>1, <2>1
  <2> QED
    BY <2>1 DEF SessionInv, CreatesAreNew
<1>6. ClosedIsClean' /\ CacheFollowsTable'
  BY DEF ClosedIsClean, CacheFollowsTable, Closes
<1> QED
  BY <1>2, <1>3, <1>4, <1>5, <1>6 DEF SessionInv

-----------------------------------------------------------------------------
(* The steps of the sessions.                                              *)

LEMMA EmptyIsEmpty == Empty \in Caches /\ DOMAIN Empty = {} /\ Empty # Garbage
<1>1. Empty \in [{} -> Times] /\ Empty \in [{} -> Nat]
  BY DEF Empty
<1> QED
  BY <1>1, SessionAssumption DEF Caches, Empty

LEMMA ListJobType ==
  ASSUME clock \in Times
  PROVE  /\ [Job("list", "list", {}) EXCEPT !.reads = {"rows", "cache"}] \in JobRecords
         /\ [Job("list", "list", {}) EXCEPT !.reads = {"rows", "cache"}].op = "list"
         /\ [Job("list", "list", {}) EXCEPT !.reads = {"rows", "cache"}].pc = "list"
<1> DEFINE b == Job("list", "list", {})
<1>1. b \in JobRecords /\ b.op = "list" /\ b.pc = "list"
  BY EmptyIsEmpty DEF Job, JobRecords, Ops
<1> HIDE DEF b
<1>2. /\ [b EXCEPT !.reads = {"rows", "cache"}] \in JobRecords
      /\ [b EXCEPT !.reads = {"rows", "cache"}].op = b.op
      /\ [b EXCEPT !.reads = {"rows", "cache"}].pc = b.pc
  BY <1>1 DEF JobRecords
<1> QED
  BY <1>1, <1>2 DEF b

LEMMA WipeJobType ==
  ASSUME clock \in Times
  PROVE  /\ Job("wipe", "clear", {}) \in JobRecords
         /\ Job("wipe", "clear", {}).op = "wipe" /\ Job("wipe", "clear", {}).pc = "clear"
BY EmptyIsEmpty DEF Job, JobRecords, Ops

LEMMA UseJobType ==
  ASSUME NEW op \in Ops, NEW i \in Ids, clock \in Times
  PROVE  /\ Job(op, "read", {i}) \in JobRecords
         /\ Job(op, "read", {i}).op = op /\ Job(op, "read", {i}).pc = "read"
         /\ Job(op, "read", {i}).ids = {i}
BY EmptyIsEmpty DEF Job, JobRecords

LEMMA RestType ==
  ASSUME NEW r \in JobRecords, NEW pc \in {"row", "list", "dropped", "failed"}
  PROVE  /\ Rest(r, pc) \in JobRecords
         /\ Rest(r, pc).op = r.op /\ Rest(r, pc).pc = pc /\ Rest(r, pc).ids = r.ids
BY EmptyIsEmpty DEF Rest, JobRecords

LEMMA StartKeeps ==
  ASSUME SessionInv, NEW j \in Jobs,
         \/ \E i \in Ids : \/ StartCreate(j, i) \/ StartPrune(j, i)
                           \/ \E op \in Ops : StartUse(j, i, op)
         \/ StartList(j) \/ StartWipe(j)
  PROVE  SessionInv'
<1>1. clock \in Times /\ faults \in 0..MaxFaults /\ excused \subseteq Ids
  BY DEF SessionInv, STypeOK
<1>2. ASSUME NEW i \in Ids, StartCreate(j, i) PROVE SessionInv'
  <2> DEFINE r == Job("create", "read", {i})
  <2>1. /\ r \in JobRecords
        /\ r.op = "create" /\ r.pc = "read" /\ r.ids = {i}
    BY <1>1, UseJobType DEF Ops
  <2>2. job[j] = None /\ job' = [job EXCEPT ![j] = r] /\ excused' = excused \ {i}
        /\ UNCHANGED <<tables, clock, faults>>
    BY <1>2 DEF StartCreate, Spawn
  <2> HIDE DEF r
  <2>3. Sound(j, r) /\ ~Closes(r)
    BY <1>2, <2>1 DEF Sound, StartCreate, Busy, Closes
  <2>4. excused \cup CleanedBy(job[j]) \subseteq excused' \cup CleanedBy(r)
    BY <2>1, <2>2, JobAssumption DEF CleanedBy
  <2> QED
    BY <1>1, <2>2, <2>3, <2>4, JobStep
<1>3. ASSUME NEW i \in Ids, NEW op \in Ops, StartUse(j, i, op) \/ (op = "prune" /\ StartPrune(j, i))
      PROVE  SessionInv'
  <2> DEFINE r == Job(op, "read", {i})
  <2>1. /\ r \in JobRecords
        /\ r.op = op /\ r.pc = "read" /\ r.ids = {i}
    BY <1>1, UseJobType
  <2>2. job[j] = None /\ job' = [job EXCEPT ![j] = r] /\ op # "create"
        /\ UNCHANGED <<tables, clock, faults, excused>>
    BY <1>3 DEF StartUse, StartPrune, Spawn
  <2> HIDE DEF r
  <2>3. Sound(j, r) /\ ~Closes(r)
    BY <2>1, <2>2 DEF Sound, Closes
  <2>4. excused \cup CleanedBy(job[j]) \subseteq excused' \cup CleanedBy(r)
    BY <2>2 DEF CleanedBy
  <2> QED
    BY <1>1, <2>2, <2>3, <2>4, JobStep
<1>4. CASE StartList(j)
  <2> DEFINE r == [Job("list", "list", {}) EXCEPT !.reads = {"rows", "cache"}]
  <2>1. /\ r \in JobRecords
        /\ r.op = "list" /\ r.pc = "list"
    BY <1>1, ListJobType
  <2>2. job[j] = None /\ job' = [job EXCEPT ![j] = r]
        /\ UNCHANGED <<tables, clock, faults, excused>>
    BY <1>4 DEF StartList, Spawn
  <2> HIDE DEF r
  <2>3. Sound(j, r) /\ ~Closes(r)
    BY <2>1, <2>2 DEF Sound, Closes
  <2>4. excused \cup CleanedBy(job[j]) \subseteq excused' \cup CleanedBy(r)
    BY <2>2 DEF CleanedBy
  <2> QED
    BY <1>1, <2>2, <2>3, <2>4, JobStep
<1>5. CASE StartWipe(j)
  <2> DEFINE r == Job("wipe", "clear", {})
  <2>1. /\ r \in JobRecords
        /\ r.op = "wipe" /\ r.pc = "clear"
    BY <1>1, WipeJobType
  <2>2. job[j] = None /\ job' = [job EXCEPT ![j] = r]
        /\ UNCHANGED <<tables, clock, faults, excused>>
    BY <1>5 DEF StartWipe, Spawn
  <2> HIDE DEF r
  <2>3. Sound(j, r) /\ ~Closes(r)
    BY <2>1, <2>2 DEF Sound, Closes
  <2>4. excused \cup CleanedBy(job[j]) \subseteq excused' \cup CleanedBy(r)
    BY <2>2 DEF CleanedBy
  <2> QED
    BY <1>1, <2>2, <2>3, <2>4, JobStep
<1>6. ASSUME NEW i \in Ids, StartPrune(j, i) PROVE SessionInv'
  BY <1>3, <1>6 DEF Ops
<1> QED
  BY <1>2, <1>3, <1>4, <1>5, <1>6

\* A request that gives up is excused for what it was to delete.
LEMMA AfterSound ==
  ASSUME SessionInv, NEW j \in Jobs, job[j] # None,
         NEW r, r = AfterFailure(job[j]) \/ r = None
  PROVE  Sound(j, r) /\ ~Closes(r)
<1> DEFINE b == job[j]
<1>1. b \in JobRecords
  BY DEF SessionInv, STypeOK
<1>2. /\ b.op \in {"create", "touch", "update"} => \E i \in Ids : b.ids = {i}
      /\ b.op = "create" => \A i \in b.ids :
            /\ i \notin DOMAIN rows
            /\ \A k \in Jobs \ {j} :
                 ~(job[k] # None /\ job[k].op = "create" /\ i \in job[k].ids)
  BY DEF SessionInv, OneSession, CreatesAreNew
<1>3. CASE r = None
  BY <1>3 DEF Sound, Closes
<1>4. CASE b.op = "create" /\ r = Rest(b, "row")
  <2>1. r \in JobRecords /\ r.op = b.op /\ r.pc = "row" /\ r.ids = b.ids
    BY <1>1, <1>4, RestType
  <2> QED
    BY <1>2, <1>4, <2>1 DEF Sound, Closes
<1>5. CASE b.op = "drop" /\ r = Rest(b, "failed")
  <2>1. r \in JobRecords /\ r.op = b.op /\ r.pc = "failed"
    BY <1>1, <1>5, RestType
  <2> QED
    BY <1>5, <2>1 DEF Sound, Closes
<1>6. CASE b.op = "list" /\ r = Rest(b, "list")
  <2>1. r \in JobRecords /\ r.op = b.op /\ r.pc = "list"
    BY <1>1, <1>6, RestType
  <2> QED
    BY <1>6, <2>1 DEF Sound, Closes
<1> QED
  BY <1>1, <1>3, <1>4, <1>5, <1>6 DEF AfterFailure, After

LEMMA FailKeeps ==
  ASSUME SessionInv, NEW j \in Jobs, Conflict(j) \/ RedisFails(j) \/ RowFails(j)
  PROVE  SessionInv'
<1> DEFINE b == job[j]
<1>1. b # None /\ b \in JobRecords /\ clock \in Times /\ excused \subseteq Ids
  BY DEF SessionInv, STypeOK, Conflict, RedisFails, RowFails
<1>2. UNCHANGED <<tables, clock>> /\ faults' \in 0..MaxFaults
  BY SessionAssumption DEF Conflict, RedisFails, RowFails, SessionInv, STypeOK
<1>3. CASE Fail(j)
  <2>1. job' = [job EXCEPT ![j] = AfterFailure(b)] /\ excused' = excused \cup Left(b)
    BY <1>3 DEF Fail
  <2>2. excused' \subseteq Ids
    BY <1>1, <2>1 DEF Left, JobRecords
  <2>3. CleanedBy(b) \subseteq Left(b)
    BY DEF CleanedBy, Left
  <2>4. Sound(j, AfterFailure(b)) /\ ~Closes(AfterFailure(b))
    BY <1>1, AfterSound
  <2> QED
    BY <1>1, <1>2, <2>1, <2>2, <2>3, <2>4, JobStep
<1>4. CASE RowFails(j)
  <2>1. job' = [job EXCEPT ![j] = None] /\ UNCHANGED excused /\ CleanedBy(b) = {}
    BY <1>4 DEF RowFails, End, CleanedBy
  <2>2. Sound(j, None) /\ ~Closes(None)
    BY <1>1, AfterSound
  <2> QED
    BY <1>1, <1>2, <2>1, <2>2, JobStep
<1> QED
  BY <1>3, <1>4 DEF Conflict, RedisFails

\* A request that goes on with the same operation.
LEMMA WatchKeeps ==
  ASSUME SessionInv, NEW j \in Jobs, Watch(j)
  PROVE  SessionInv'
<1> DEFINE b == job[j]
           r == [b EXCEPT !.view = cache, !.fresh = TRUE, !.pc = "write"]
<1>1. b # None /\ b.pc = "read" /\ b \in JobRecords /\ cache \in Caches
      /\ clock \in Times /\ excused \subseteq Ids /\ faults \in 0..MaxFaults
  BY DEF SessionInv, STypeOK, Watch
<1>2. job' = [job EXCEPT ![j] = r] /\ UNCHANGED <<tables, clock, faults, excused>>
  BY DEF Watch, SessionInv, STypeOK
<1>3. /\ r \in JobRecords /\ r.op = b.op /\ r.ids = b.ids /\ r.pc = "write"
      /\ r.view = cache
  BY <1>1 DEF JobRecords
<1> HIDE DEF r
<1>4. Sound(j, r) /\ ~Closes(r)
  BY <1>1, <1>3 DEF Sound, Closes, SessionInv, OneSession, CreatesAreNew
<1>5. CleanedBy(b) \subseteq CleanedBy(r)
  BY <1>1, <1>3, JobAssumption DEF CleanedBy
<1> QED
  BY <1>1, <1>2, <1>4, <1>5, JobStep

LEMMA ListRowsKeeps ==
  ASSUME SessionInv, NEW j \in Jobs, ListRows(j)
  PROVE  SessionInv'
<1> DEFINE b == job[j]
           old == Prunable({i \in DOMAIN rows : Expired(i)})
           left == [b EXCEPT !.reads = @ \ {"rows"}]
           moved == [left EXCEPT !.pc = "read", !.ids = old]
<1>1. b # None /\ b.pc = "list" /\ b.op = "list" /\ b \in JobRecords
      /\ clock \in Times /\ excused \subseteq Ids /\ faults \in 0..MaxFaults
  BY DEF SessionInv, STypeOK, Placed, ListRows
<1>2. old \subseteq Ids
  BY DEF Prunable, SessionInv, STypeOK
<1>3. PICK r \in {moved, None, left} : job' = [job EXCEPT ![j] = r]
  BY DEF ListRows
<1>4. UNCHANGED <<tables, clock, faults, excused>>
  BY DEF ListRows
<1> HIDE DEF old
<1>5. /\ left \in JobRecords /\ left.op = "list" /\ left.pc = "list"
      /\ moved \in JobRecords /\ moved.op = "list" /\ moved.pc = "read"
  BY <1>1, <1>2 DEF JobRecords
<1>6. Sound(j, r) /\ ~Closes(r)
  BY <1>3, <1>5 DEF Sound, Closes
<1>7. CleanedBy(b) = {}
  BY <1>1 DEF CleanedBy
<1> QED
  BY <1>1, <1>3, <1>4, <1>6, <1>7, JobStep

\* The statements of MySQL.
LEMMA RowKeeps ==
  ASSUME SessionInv, NEW j \in Jobs,
         PutRow(j) \/ PostRow(j) \/ DeleteRow(j) \/ DeleteRows(j)
  PROVE  SessionInv'
<1> DEFINE b == job[j]
<1>1. b # None /\ b.pc = "row" /\ b \in JobRecords /\ b.at \in Times /\ b.ids \subseteq Ids
  BY DEF SessionInv, STypeOK, PutRow, PostRow, DeleteRow, DeleteRows, AtRow, JobRecords
<1>2. job' = [job EXCEPT ![j] = None] /\ UNCHANGED <<cache, clock, faults, excused>>
  BY DEF PutRow, PostRow, DeleteRow, DeleteRows, End
<1>3. Sound(j, None) /\ ~Closes(None) /\ CleanedBy(b) = {} /\ CleanedBy(None) = {}
  BY <1>1 DEF Sound, Closes, CleanedBy
<1>4. STypeOK'
  <2>1. job' \in [Jobs -> JobRecords \cup {None}]
    BY <1>2 DEF SessionInv, STypeOK
  <2>2. CASE PutRow(j) \/ PostRow(j)
    <3>1. /\ DOMAIN rows' \subseteq Ids
          /\ \A i \in DOMAIN rows' : rows'[i] \in [created : Times, accessed : Times]
          /\ UNCHANGED devs
      BY <1>1, <2>2 DEF PutRow, PostRow, SessionInv, STypeOK
    <3> QED
      BY <1>2, <2>1, <3>1 DEF SessionInv, STypeOK
  <2>3. ASSUME NEW S, Removed(S) PROVE STypeOK'
    BY <1>2, <2>1, <2>3 DEF Removed, SessionInv, STypeOK
  <2> QED
    BY <2>2, <2>3 DEF DeleteRow, DeleteRows
<1>5. \A i \in DOMAIN rows' :
        \/ i \in DOMAIN rows /\ rows'[i].created = rows[i].created
        \/ b # None /\ b.op = "create" /\ i \in b.ids
  <2>1. CASE PutRow(j)
    BY <1>1, <2>1 DEF PutRow, AtRow
  <2>2. CASE PostRow(j)
    BY <2>2 DEF PostRow, SessionInv, STypeOK
  <2>3. CASE DeleteRow(j) \/ DeleteRows(j)
    BY <2>3 DEF DeleteRow, DeleteRows, Removed
  <2> QED
    BY <2>1, <2>2, <2>3
<1>6. cache # Garbage => \A i \in DOMAIN rows \ DOMAIN rows' :
        i \in DOMAIN cache => i \in excused \/ Cleaning(i)
  <2> SUFFICES ASSUME cache # Garbage, NEW i \in DOMAIN rows, i \notin DOMAIN rows',
                      i \in DOMAIN cache
               PROVE  i \in excused \/ Cleaning(i)
    OBVIOUS
  <2>1. DeleteRow(j) \/ DeleteRows(j)
    BY DEF PutRow, PostRow
  <2>2. b.op \in {"close", "wipe"} /\ (b.op = "close" => i \in b.ids)
    BY <2>1 DEF DeleteRow, DeleteRows, AtRow, Removed
  <2>3. i \in b.ids
    BY <2>1, <2>2 DEF SessionInv, Placed, DeleteRow, DeleteRows, AtRow, STypeOK
  <2> QED
    BY <1>1, <2>2, <2>3 DEF SessionInv, ClosedIsClean
<1> QED
  BY <1>1, <1>2, <1>3, <1>4, <1>5, <1>6, RowStep

\* The value that redis.update writes is a map of times.
LEMMA ValueType ==
  ASSUME NEW r \in JobRecords, r.view # Garbage
  PROVE  /\ Value(r) \in Caches
         /\ r.op \in {"touch", "update"} =>
              /\ DOMAIN Value(r) = DOMAIN r.view \cup r.ids
              /\ \A i \in DOMAIN Value(r) :
                   Value(r)[i] = IF i \in r.ids THEN r.at ELSE r.view[i]
         /\ r.op \notin {"touch", "update"} =>
              /\ DOMAIN Value(r) = DOMAIN r.view \ r.ids
              /\ \A i \in DOMAIN Value(r) : Value(r)[i] = r.view[i]
<1>1. PICK S \in SUBSET Ids : r.view \in [S -> Times]
  BY DEF JobRecords, Caches
<1>2. r.ids \subseteq Ids /\ r.at \in Times
  BY DEF JobRecords
<1>3. CASE r.op \in {"touch", "update"}
  <2>1. Value(r) = [i \in S \cup r.ids |-> IF i \in r.ids THEN r.at ELSE r.view[i]]
    BY <1>1, <1>3 DEF Value
  <2>2. Value(r) \in [S \cup r.ids -> Times]
    BY <1>1, <1>2, <2>1
  <2>3. Value(r) \in Caches
    BY <1>2, <2>2 DEF Caches
  <2> QED
    BY <1>1, <1>3, <2>1, <2>3
<1>4. CASE r.op \notin {"touch", "update"}
  <2>1. Value(r) = [i \in S \ r.ids |-> r.view[i]]
    BY <1>1, <1>4 DEF Value
  <2>2. Value(r) \in [S \ r.ids -> Times]
    BY <1>1, <2>1
  <2>3. Value(r) \in Caches
    BY <2>2 DEF Caches
  <2> QED
    BY <1>1, <1>4, <2>1, <2>3
<1> QED
  BY <1>3, <1>4

\* What a request goes on with once Redis is updated.
LEMMA AfterType ==
  ASSUME NEW b \in JobRecords
  PROVE  \/ After(b) = None
         \/ /\ After(b) \in JobRecords
            /\ After(b).op = b.op /\ After(b).ids = b.ids
            /\ \/ After(b).pc = "row" /\ b.op \in {"create", "update", "close"}
               \/ After(b).pc = "dropped" /\ b.op = "drop"
               \/ After(b).pc = "list" /\ b.op = "list"
<1>1. CASE b.op \in {"create", "update", "close"}
  BY <1>1, RestType DEF After
<1>2. CASE b.op = "drop"
  BY <1>2, RestType DEF After
<1>3. CASE b.op = "list"
  BY <1>3, RestType DEF After
<1>4. CASE b.op \notin {"create", "update", "close", "drop", "list"}
  BY <1>4 DEF After
<1> QED
  BY <1>1, <1>2, <1>3, <1>4

\* All the records after a write of the value.
LEMMA StoreType ==
  ASSUME SessionInv, NEW j \in Jobs, NEW c, NEW r \in JobRecords \cup {None}, Store(j, c, r)
  PROVE  /\ job' \in [Jobs -> JobRecords \cup {None}]
         /\ \A k \in Jobs : job'[k] = (IF k = j THEN r ELSE Spoilt(job[k]))
                           \/ (k # j /\ job'[k] = job[k] /\ cache' = cache)
<1>1. \A k \in Jobs : Spoilt(job[k]) \in JobRecords \cup {None}
  <2> TAKE k \in Jobs
  <2>1. job[k] \in JobRecords \cup {None}
    BY DEF SessionInv, STypeOK
  <2>2. CASE job[k] = None
    BY <2>2 DEF Spoilt
  <2> QED
    BY <2>1, <2>2, SpoiltIsAlike
<1>2. \A k \in Jobs : job[k] \in JobRecords \cup {None}
  BY DEF SessionInv, STypeOK
<1> QED
  BY <1>1, <1>2 DEF Store

\* Other requests clean up what they did before the value was written.
LEMMA OthersClean ==
  ASSUME SessionInv, NEW j, NEW i, Cleaning(i),
         j \in Jobs => i \notin CleanedBy(job[j]),
         \A k \in Jobs \ {j} : job'[k] = Spoilt(job[k]) \/ job'[k] = job[k]
  PROVE  Cleaning(i)'
<1>1. PICK k \in Jobs : i \in CleanedBy(job[k])
  BY CleaningIsBySome
<1>2. k # j /\ job[k] \in JobRecords
  BY <1>1, JobAssumption DEF SessionInv, STypeOK, CleanedBy
<1>3. job'[k] \in JobRecords /\ job'[k].op = job[k].op /\ job'[k].pc = job[k].pc
      /\ job'[k].ids = job[k].ids
  BY <1>2, SpoiltIsAlike
<1> QED
  BY <1>1, <1>3, JobAssumption DEF Cleaning, CleanedBy

LEMMA WriteKeeps ==
  ASSUME SessionInv, NEW j \in Jobs, Write(j)
  PROVE  SessionInv'
<1> DEFINE b == job[j]
           r == After(b)
           c == Value(b)
<1>1. b # None /\ b.pc = "write" /\ b.view # Garbage /\ b.fresh /\ Store(j, c, r)
      /\ UNCHANGED <<rows, devs, clock, faults>>
      /\ excused' = excused \cup (IF b.op \in {"touch", "update"} THEN Late(b) ELSE {})
  BY DEF Write
<1>2. /\ b \in JobRecords /\ b.view = cache /\ b.at \in Nat /\ b.ids \subseteq Ids
      /\ clock \in Times /\ faults \in 0..MaxFaults /\ excused \subseteq Ids
      /\ \A i \in DOMAIN rows : rows[i].created \in Nat
  BY <1>1 DEF SessionInv, STypeOK, FreshIsCurrent, JobRecords, Times
<1>3. /\ c \in Caches
      /\ b.op \in {"touch", "update"} =>
           /\ DOMAIN c = DOMAIN cache \cup b.ids
           /\ \A i \in DOMAIN c : c[i] = IF i \in b.ids THEN b.at ELSE cache[i]
      /\ b.op \notin {"touch", "update"} =>
           /\ DOMAIN c = DOMAIN cache \ b.ids
           /\ \A i \in DOMAIN c : c[i] = cache[i]
  BY <1>1, <1>2, ValueType
<1>4. \/ r = None
      \/ /\ r \in JobRecords /\ r.op = b.op /\ r.ids = b.ids
         /\ \/ r.pc = "row" /\ b.op \in {"create", "update", "close"}
            \/ r.pc = "dropped" /\ b.op = "drop"
            \/ r.pc = "list" /\ b.op = "list"
  BY <1>2, AfterType
<1> HIDE DEF r, c
<1>5. Sound(j, r) /\ (r # None => r.pc # "write")
      /\ (r # None /\ r.op = "create" => b.op = "create" /\ b.ids = r.ids)
  BY <1>1, <1>2, <1>4 DEF Sound, SessionInv, OneSession, CreatesAreNew
<1>6. /\ job' \in [Jobs -> JobRecords \cup {None}]
      /\ \A k \in Jobs : job'[k] = (IF k = j THEN r ELSE Spoilt(job[k]))
                        \/ (k # j /\ job'[k] = job[k] /\ cache' = cache)
  BY <1>1, <1>4, StoreType
<1>7. cache' = c /\ cache # Garbage
  BY <1>1, <1>2 DEF Store
<1>8. ASSUME NEW i \in DOMAIN cache'
      PROVE  \/ i \in excused' \/ Cleaning(i)'
             \/ /\ i \in DOMAIN rows /\ rows[i].created <= cache'[i]
                /\ \A k \in Jobs : ~(Closes(job'[k]) /\ i \in job'[k].ids)
  <2> SUFFICES ASSUME i \notin excused', ~Cleaning(i)'
               PROVE  /\ i \in DOMAIN rows /\ rows[i].created <= cache'[i]
                      /\ \A k \in Jobs : ~(Closes(job'[k]) /\ i \in job'[k].ids)
    OBVIOUS
  <2>1. i \notin excused
    BY <1>1
  <2>2. ASSUME NEW k \in Jobs, Closes(job'[k]), i \in job'[k].ids, k # j
        PROVE  Closes(job[k]) /\ i \in job[k].ids
    <3>1. job[k] \in JobRecords
      BY <1>6, <2>2 DEF Closes, SessionInv, STypeOK, Spoilt
    <3> QED
      BY <1>6, <2>2, <3>1, SpoiltIsAlike, JobAssumption DEF Closes
  <2>3. CASE b.op \in {"touch", "update"} /\ i \in b.ids
    <3>1. i \notin Late(b)
      BY <1>1, <2>3
    <3>2. i \in DOMAIN rows /\ ~(b.at < rows[i].created) /\ ~Closing(i)
      BY <2>3, <3>1 DEF Late, Closing
    <3>3. cache'[i] = b.at
      BY <1>3, <1>7, <2>3
    <3>4. ~Closes(r)
      BY <1>4, <2>3 DEF Closes
    <3>5. ASSUME NEW k \in Jobs, Closes(job'[k]), i \in job'[k].ids PROVE FALSE
      <4>1. k # j
        BY <1>6, <3>4, <3>5
      <4> QED
        BY <2>2, <3>2, <3>5, <4>1 DEF Closes, Closing
    <3> QED
      BY <1>2, <3>2, <3>3, <3>5
  <2>4. CASE ~(b.op \in {"touch", "update"} /\ i \in b.ids)
    <3>1. i \in DOMAIN cache /\ i \notin b.ids /\ cache'[i] = cache[i]
      BY <1>3, <1>7, <2>4
    <3>2. i \notin CleanedBy(b)
      BY <3>1 DEF CleanedBy
    <3>3. ~Cleaning(i)
      BY <1>6, <3>2, OthersClean
    <3>4. i \in DOMAIN rows /\ rows[i].created <= cache[i]
      BY <1>7, <2>1, <3>1, <3>3 DEF SessionInv, CacheFollowsTable
    <3>5. ASSUME NEW k \in Jobs, Closes(job'[k]), i \in job'[k].ids PROVE FALSE
      <4>1. CASE k = j
        BY <1>4, <1>6, <3>1, <3>5, <4>1 DEF Closes
      <4>2. CASE k # j
        BY <1>7, <2>1, <2>2, <3>1, <3>3, <3>5, <4>2 DEF SessionInv, ClosedIsClean, Closes
      <4> QED
        BY <4>1, <4>2
    <3> QED
      BY <3>1, <3>4, <3>5
  <2> QED
    BY <2>3, <2>4
<1>9. excused' \subseteq Ids
  BY <1>1, <1>2 DEF Late
<1> QED
  BY <1>1, <1>2, <1>3, <1>5, <1>6, <1>7, <1>8, <1>9, CacheStep

\* The value is deleted by request j, which goes on with r.
LEMMA EmptiedKeeps ==
  ASSUME SessionInv, NEW j \in Jobs, NEW r, Sound(j, r), Store(j, Empty, r),
         r # None /\ r.pc = "write" => ~r.fresh,
         r # None /\ r.op = "create" =>
           job[j] # None /\ job[j].op = "create" /\ job[j].ids = r.ids,
         UNCHANGED <<rows, devs, clock, faults, excused>>
  PROVE  SessionInv'
<1>1. /\ job' \in [Jobs -> JobRecords \cup {None}]
      /\ \A k \in Jobs : job'[k] = (IF k = j THEN r ELSE Spoilt(job[k]))
                        \/ (k # j /\ job'[k] = job[k] /\ cache' = cache)
  BY StoreType DEF Sound
<1>2. cache' = Empty
  BY DEF Store
<1>3. clock \in Times /\ faults \in 0..MaxFaults /\ excused \subseteq Ids
  BY DEF SessionInv, STypeOK
<1> QED
  BY <1>1, <1>2, <1>3, EmptyIsEmpty, CacheStep

LEMMA ClearKeeps ==
  ASSUME SessionInv, NEW j \in Jobs, Clear(j)
  PROVE  SessionInv'
<1> DEFINE b == job[j]
           r == [b EXCEPT !.pc = "row", !.ids = Ids]
<1>1. b # None /\ b \in JobRecords /\ b.op = "wipe"
  BY DEF Clear, SessionInv, STypeOK, Placed
<1>2. r \in JobRecords /\ r.op = "wipe" /\ r.pc = "row" /\ r.ids = Ids
  BY <1>1 DEF JobRecords
<1>3. Store(j, Empty, r) /\ UNCHANGED <<rows, devs, clock, faults, excused>>
  BY DEF Clear
<1> HIDE DEF r
<1>4. Sound(j, r)
  BY <1>2 DEF Sound
<1> QED
  BY <1>2, <1>3, <1>4, EmptiedKeeps

\* The value is written by nobody here: an accident, or the deletion of a value
\* that could not be parsed.
LEMMA SpoilKeeps ==
  ASSUME SessionInv, cache' \in {Garbage, Empty},
         job' = [k \in Jobs |-> Spoilt(job[k])],
         UNCHANGED <<rows, devs, clock, excused>>, faults' \in 0..MaxFaults
  PROVE  SessionInv'
<1>1. \A k \in Jobs : Spoilt(job[k]) \in JobRecords \cup {None}
  <2> TAKE k \in Jobs
  <2>1. job[k] \in JobRecords \cup {None}
    BY DEF SessionInv, STypeOK
  <2> QED
    BY <2>1, SpoiltIsAlike DEF Spoilt
<1>2. cache' \in Caches /\ (cache' # Garbage => DOMAIN cache' = {})
  BY EmptyIsEmpty DEF Caches
<1>3. clock \in Times /\ excused \subseteq Ids
  BY DEF SessionInv, STypeOK
<1> DEFINE nobody == {k \in Jobs : k \notin k}
<1>4. nobody \notin Jobs
  OBVIOUS
<1> HIDE DEF nobody
<1> QED
  BY <1>1, <1>2, <1>3, <1>4, CacheStep

LEMMA ListCacheKeeps ==
  ASSUME SessionInv, NEW j \in Jobs, ListCache(j)
  PROVE  SessionInv'
<1> DEFINE b == job[j]
           left == [b EXCEPT !.reads = @ \ {"cache"}]
           rest == IF left.reads = {} /\ left.pc = "list" THEN None ELSE left
<1>1. b # None /\ b \in JobRecords /\ b.op = "list"
      /\ clock \in Times /\ excused \subseteq Ids /\ faults \in 0..MaxFaults
  BY DEF ListCache, SessionInv, STypeOK
<1>2. left \in JobRecords /\ left.op = "list" /\ left.pc = b.pc /\ left.fresh = b.fresh
      /\ left.view = b.view
  BY <1>1 DEF JobRecords
<1>3. UNCHANGED <<rows, devs, clock, faults, excused>>
      /\ IF cache = Garbage
         THEN Store(j, Empty, IF rest = None THEN None ELSE Spoilt(rest))
         ELSE cache' = cache /\ job' = [job EXCEPT ![j] = rest]
  BY DEF ListCache
<1>4. rest = None \/ rest = left
  OBVIOUS
<1> HIDE DEF left, rest
<1>5. b.pc # "clear" /\ (b.pc = "write" /\ b.fresh => b.view = cache)
  BY <1>1 DEF SessionInv, FreshIsCurrent, Placed
<1>6. CASE cache # Garbage
  <2>1. Sound(j, rest) /\ ~Closes(rest)
    BY <1>2, <1>4, <1>5 DEF Sound, Closes
  <2>2. CleanedBy(b) = {}
    BY <1>1 DEF CleanedBy
  <2> QED
    BY <1>1, <1>3, <1>6, <2>1, <2>2, JobStep DEF tables
<1>7. CASE cache = Garbage
  <2> DEFINE r == IF rest = None THEN None ELSE Spoilt(rest)
  <2>1. r = None \/ (/\ r \in JobRecords /\ r.op = "list" /\ r.pc = b.pc
                     /\ b.pc = "write" => ~r.fresh)
    BY <1>2, <1>4, SpoiltIsAlike
  <2>2. Store(j, Empty, r)
    BY <1>3, <1>7
  <2> HIDE DEF r
  <2>3. Sound(j, r)
    BY <1>5, <2>1 DEF Sound
  <2> QED
    BY <1>3, <2>1, <2>2, <2>3, EmptiedKeeps
<1> QED
  BY <1>6, <1>7

LEMMA OthersKeep ==
  ASSUME SessionInv, Corrupt \/ Tick \/ UNCHANGED svars
  PROVE  SessionInv'
<1>1. CASE Corrupt
  <2>1. faults' \in 0..MaxFaults
    BY <1>1, SessionAssumption DEF Corrupt, SessionInv, STypeOK
  <2> QED
    BY <1>1, <2>1, SpoilKeeps DEF Corrupt
<1>2. CASE Tick
  <2>1. clock' \in Times
    BY <1>2, SessionAssumption DEF Tick, Times, SessionInv, STypeOK
  <2> QED
    BY <1>2, <2>1 DEF Tick, tables, SessionInv, STypeOK, FreshIsCurrent, OneSession,
         Placed, CreatesAreNew, ClosedIsClean, CacheFollowsTable, Cleaning
<1>3. CASE UNCHANGED svars
  BY <1>3 DEF svars, tables, SessionInv, STypeOK, FreshIsCurrent, OneSession,
       Placed, CreatesAreNew, ClosedIsClean, CacheFollowsTable, Cleaning
<1> QED
  BY <1>1, <1>2, <1>3

LEMMA DropKeeps ==
  ASSUME SessionInv, NEW j \in Jobs, NEW d, DropDevice(j, d)
  PROVE  SessionInv'
<1> DEFINE S == {devs[d]} \ {None}
           r == Job("drop", "read", S)
<1>1. d \in DOMAIN devs /\ devs[d] \in Ids \cup {None} /\ clock \in Times
  BY DEF DropDevice, SessionInv, STypeOK
<1>2. S \in SUBSET Ids
  BY <1>1
<1>3. /\ job[j] = None /\ job' = [job EXCEPT ![j] = r]
      /\ rows' = [i \in DOMAIN rows \ {devs[d]} |-> rows[i]]
      /\ devs' = [e \in DOMAIN devs \ {d} |-> devs[e]]
      /\ UNCHANGED <<cache, clock, faults, excused>>
  BY DEF DropDevice, Spawn
<1>4. \A i \in DOMAIN rows : i = devs[d] => i \in S
  BY SessionAssumption DEF SessionInv, STypeOK
<1> HIDE DEF S
<1>5. r \in JobRecords /\ r.op = "drop" /\ r.pc = "read" /\ r.ids = S
  BY <1>1, <1>2, EmptyIsEmpty DEF Job, JobRecords, Ops
<1> HIDE DEF r
<1>6. Sound(j, r) /\ ~Closes(r) /\ CleanedBy(job[j]) = {} /\ CleanedBy(r) = S
  BY <1>3, <1>5, JobAssumption DEF Sound, Closes, CleanedBy
<1>7. STypeOK'
  BY <1>3, <1>5 DEF SessionInv, STypeOK
<1>8. cache # Garbage =>
        \A i \in DOMAIN rows \ DOMAIN rows' :
          i \in DOMAIN cache => i \in excused \/ Cleaning(i) \/ i \in CleanedBy(r)
  BY <1>3, <1>4, <1>6
<1>9. \A i \in DOMAIN rows' :
        \/ i \in DOMAIN rows /\ rows'[i].created = rows[i].created
        \/ job[j] # None /\ job[j].op = "create" /\ i \in job[j].ids
  BY <1>3
<1> QED
  BY <1>3, <1>5, <1>6, <1>7, <1>8, <1>9, RowStep

LEMMA SessionStepKeeps ==
  ASSUME SessionInv, SNext
  PROVE  SessionInv'
BY StartKeeps, WatchKeeps, WriteKeeps, FailKeeps, ClearKeeps, RowKeeps, ListRowsKeeps,
   ListCacheKeeps, OthersKeep DEF SNext

-----------------------------------------------------------------------------
(* The sessions implement SessionTable.                                    *)

\* The table that both stores show together.
Shows == [i \in DOMAIN rows |-> [stored |-> rows[i].accessed, seen |-> Seen(i)]]
TableStep == [Table!Next]_Shows

LEMMA ShowsInit == SInit => Table!Init
<1> SUFFICES ASSUME SInit PROVE Table!Init
  OBVIOUS
<1>1. DOMAIN rows = {}
  BY DEF SInit, Empty
<1> QED
  BY <1>1 DEF Table!Init, Table!TypeOK

\* The cache lost what it had of sessions S.
LEMMA LapseStep ==
  ASSUME NEW S, S \subseteq Ids, UNCHANGED rows,
         \A i \in DOMAIN rows : Seen(i)' = IF i \in S THEN rows[i].accessed ELSE Seen(i)
  PROVE  TableStep
<1>1. Table!Lapse(S)
  BY DEF Table!Lapse
<1> QED
  BY <1>1 DEF TableStep, Table!Next

\* Sessions S are gone, and nothing else has changed.
LEMMA CloseStep ==
  ASSUME SessionInv, NEW S, UNCHANGED cache, rows' = [i \in DOMAIN rows \ S |-> rows[i]]
  PROVE  TableStep
<1>1. PICK C \in SUBSET Ids : C = DOMAIN rows \cap S
  BY DEF SessionInv, STypeOK
<1>2. Table!Close(C)
  BY <1>1 DEF Table!Close, Seen
<1> QED
  BY <1>1, <1>2 DEF TableStep, Table!Next

\* Nothing that is shown changes.
LEMMA SameShows ==
  ASSUME UNCHANGED rows, UNCHANGED cache \/ (cache = Garbage /\ cache' = Empty)
  PROVE  TableStep
<1>1. \A i \in DOMAIN rows : Seen(i)' = Seen(i)
  BY EmptyIsEmpty DEF Seen
<1> QED
  BY <1>1 DEF TableStep, Shows

LEMMA WriteShows ==
  ASSUME SessionInv, NEW j \in Jobs, Write(j)
  PROVE  TableStep
<1> DEFINE b == job[j]
           c == Value(b)
<1>1. b # None /\ b.view # Garbage /\ b.view = cache /\ b \in JobRecords
      /\ cache' = c /\ UNCHANGED rows
  BY DEF Write, Store, SessionInv, FreshIsCurrent, STypeOK
<1>2. /\ c \in Caches
      /\ b.op \in {"touch", "update"} =>
           /\ DOMAIN c = DOMAIN cache \cup b.ids
           /\ \A i \in DOMAIN c : c[i] = IF i \in b.ids THEN b.at ELSE cache[i]
      /\ b.op \notin {"touch", "update"} =>
           /\ DOMAIN c = DOMAIN cache \ b.ids
           /\ \A i \in DOMAIN c : c[i] = cache[i]
  BY <1>1, ValueType
<1>3. c # Garbage
  <2>1. \E S \in SUBSET Ids : c \in [S -> Times]
    <3>1. PICK S \in SUBSET Ids : b.view \in [S -> Times]
      BY <1>1 DEF JobRecords, Caches
    <3>2. b.ids \subseteq Ids /\ b.at \in Times
      BY <1>1 DEF JobRecords
    <3>3. c \in [S \cup b.ids -> Times] \/ c \in [S \ b.ids -> Times]
      BY <3>1, <3>2 DEF Value
    <3>4. S \cup b.ids \in SUBSET Ids /\ S \ b.ids \in SUBSET Ids
      BY <3>2
    <3> QED
      BY <3>3, <3>4
  <2>2. PICK S \in SUBSET Ids : c \in [S -> Times]
    BY <2>1
  <2>3. c \in [S -> Nat]
    BY <2>2 DEF Times
  <2> QED
    BY <2>3, SessionAssumption
<1> HIDE DEF c
<1>4. CASE b.op \notin {"touch", "update"}
  <2>1. b.ids \subseteq Ids
    BY <1>1 DEF JobRecords
  <2>2. \A i \in DOMAIN rows : Seen(i)' = IF i \in b.ids THEN rows[i].accessed ELSE Seen(i)
    BY <1>1, <1>2, <1>3, <1>4 DEF Seen
  <2> QED
    BY <1>1, <2>1, <2>2, LapseStep
<1>5. CASE b.op \in {"touch", "update"}
  <2>1. PICK i \in Ids : b.ids = {i}
    BY <1>1, <1>5 DEF SessionInv, OneSession
  <2>2. \A k \in DOMAIN rows : Seen(k)' = IF k = i THEN b.at ELSE Seen(k)
    BY <1>1, <1>2, <1>3, <1>5, <2>1 DEF Seen
  <2>3. CASE i \in DOMAIN rows
    <3>2. PICK at \in Times : at = b.at
      BY <1>1 DEF JobRecords
    <3>1. Table!Use(i, at)
      BY <1>1, <2>2, <2>3, <3>2 DEF Table!Use
    <3> QED
      BY <3>1, <3>2 DEF TableStep, Table!Next
  <2>4. CASE i \notin DOMAIN rows
    BY <1>1, <2>2, <2>4 DEF TableStep, Shows
  <2> QED
    BY <2>3, <2>4
<1> QED
  BY <1>4, <1>5

LEMMA RowShows ==
  ASSUME SessionInv, NEW j \in Jobs, PutRow(j) \/ PostRow(j)
  PROVE  TableStep
<1> DEFINE b == job[j]
<1>1. b # None /\ b.op \in {"create", "update"} /\ b.at \in Times /\ UNCHANGED cache
  BY DEF PutRow, PostRow, AtRow, SessionInv, STypeOK, JobRecords
<1>2. PICK i \in Ids : b.ids = {i}
  BY <1>1 DEF SessionInv, OneSession
<1>3. CASE PutRow(j)
  <2>1. i \notin DOMAIN rows
    BY <1>1, <1>2, <1>3 DEF PutRow, AtRow, SessionInv, CreatesAreNew
  <2>2. rows' = [k \in DOMAIN rows \cup {i} |->
                  IF k = i THEN [created |-> b.at, accessed |-> b.at] ELSE rows[k]]
    BY <1>2, <1>3 DEF PutRow
  <2>3. Seen(i)' \in Times
    BY <1>1, <2>2 DEF Seen, SessionInv, STypeOK, Caches
  <2>4. \A k \in DOMAIN rows : Seen(k)' = Seen(k)
    BY <1>1, <2>1, <2>2 DEF Seen
  <2>5. PICK at \in Times : at = b.at
    BY <1>1
  <2>6. Table!Open(i, at)
    BY <2>1, <2>2, <2>3, <2>4, <2>5 DEF Table!Open
  <2> QED
    BY <2>6 DEF TableStep, Table!Next
<1>4. CASE PostRow(j)
  <2>1. rows' = [k \in DOMAIN rows |->
                  IF k = i THEN [rows[k] EXCEPT !.accessed = b.at] ELSE rows[k]]
    BY <1>2, <1>4 DEF PostRow
  <2>2. \A k \in DOMAIN rows : k # i => Seen(k)' = Seen(k) /\ rows'[k] = rows[k]
    BY <1>1, <2>1 DEF Seen
  <2>3. CASE i \notin DOMAIN rows
    BY <2>1, <2>2, <2>3 DEF TableStep, Shows
  <2>4. CASE i \in DOMAIN rows
    <3>1. rows'[i].accessed = b.at
      BY <2>1, <2>4 DEF SessionInv, STypeOK
    <3>2. Seen(i)' = Seen(i) \/ Seen(i)' = b.at
      BY <1>1, <3>1 DEF Seen
    <3>3. PICK at \in Times : at = b.at
      BY <1>1
    <3>4. Table!Use(i, at)
      BY <2>1, <2>2, <2>4, <3>1, <3>2, <3>3 DEF Table!Use
    <3> QED
      BY <3>4 DEF TableStep, Table!Next
  <2> QED
    BY <2>3, <2>4
<1> QED
  BY <1>3, <1>4

LEMMA SessionStepShows ==
  ASSUME SessionInv, SNext
  PROVE  TableStep
<1>1. ASSUME NEW j \in Jobs, Write(j) PROVE TableStep
  BY <1>1, WriteShows
<1>2. ASSUME NEW j \in Jobs, PutRow(j) \/ PostRow(j) PROVE TableStep
  BY <1>2, RowShows
<1>3. ASSUME NEW j \in Jobs, DeleteRow(j) \/ DeleteRows(j) PROVE TableStep
  BY <1>3, CloseStep DEF DeleteRow, DeleteRows, Removed
<1>4. ASSUME NEW j \in Jobs, Clear(j) PROVE TableStep
  <2>1. UNCHANGED rows /\ cache' = Empty
    BY <1>4 DEF Clear, Store
  <2>2. \A i \in DOMAIN rows : Seen(i)' = IF i \in Ids THEN rows[i].accessed ELSE Seen(i)
    BY <2>1, EmptyIsEmpty DEF Seen, SessionInv, STypeOK
  <2> QED
    BY <2>1, <2>2, LapseStep
<1>5. CASE Corrupt
  <2>1. UNCHANGED rows /\ cache' = Garbage
    BY <1>5 DEF Corrupt
  <2>2. \A i \in DOMAIN rows : Seen(i)' = IF i \in Ids THEN rows[i].accessed ELSE Seen(i)
    BY <2>1 DEF Seen, SessionInv, STypeOK
  <2> QED
    BY <2>1, <2>2, LapseStep
<1>6. ASSUME NEW j \in Jobs, ListCache(j) PROVE TableStep
  BY <1>6, SameShows DEF ListCache, Store
<1>7. ASSUME NEW j \in Jobs,
             \/ \E i \in Ids : StartCreate(j, i) \/ StartPrune(j, i)
                               \/ \E op \in Ops : StartUse(j, i, op)
             \/ StartList(j) \/ StartWipe(j) \/ Watch(j) \/ Conflict(j)
             \/ RedisFails(j) \/ RowFails(j) \/ ListRows(j)
      PROVE  TableStep
  BY <1>7, SameShows DEF StartCreate, StartPrune, StartUse, StartList, StartWipe,
       Watch, Conflict, RedisFails, RowFails, ListRows, tables
<1>8. CASE Tick
  BY <1>8, SameShows DEF Tick, tables
<1> QED
  BY <1>1, <1>2, <1>3, <1>4, <1>5, <1>6, <1>7, <1>8 DEF SNext

-----------------------------------------------------------------------------
(* The requests about devices leave the sessions in order.                 *)

LEMMA DevsKeep ==
  ASSUME SessionInv, UNCHANGED <<rows, cache, job, clock, excused>>, STypeOK'
  PROVE  SessionInv'
BY DEF SessionInv, FreshIsCurrent, OneSession, Placed, CreatesAreNew, ClosedIsClean,
       CacheFollowsTable, Cleaning

LEMMA ReadKeeps ==
  ASSUME SessionInv, ReadDevices, UNCHANGED <<rows, devs, clock, faults, excused>>
  PROVE  SessionInv' /\ TableStep
<1>1. CASE cache = Garbage
  <2>1. cache' = Empty /\ job' = [k \in Jobs |-> Spoilt(job[k])]
    BY <1>1 DEF ReadDevices
  <2>2. faults' \in 0..MaxFaults
    BY DEF SessionInv, STypeOK
  <2> QED
    BY <1>1, <2>1, <2>2, SpoilKeeps, SameShows
<1>2. CASE cache # Garbage
  <2>1. UNCHANGED svars
    BY <1>2 DEF ReadDevices, svars, tables
  <2> QED
    BY <2>1, OthersKeep, SameShows DEF svars, tables
<1> QED
  BY <1>1, <1>2

\* What a request about devices may do to the sessions.
LEMMA DeviceEffect ==
  ASSUME TypeOK, DNext
  PROVE  \/ UNCHANGED <<rows, cache, job, clock, excused>> /\ STypeOK'
         \/ ReadDevices /\ UNCHANGED <<rows, devs, clock, faults, excused>>
         \/ \E j \in Jobs, s \in Ids : StartSign(j, s)
         \/ \E j \in Jobs, d \in DeviceIds : DropDevice(j, d)
         \/ \E j \in Jobs : Deleted(j)
<1>1. ASSUME UNCHANGED <<rows, devs, cache, job, clock, excused>>,
             faults' = faults \/ (faults < MaxFaults /\ faults' = faults + 1)
      PROVE  UNCHANGED <<rows, cache, job, clock, excused>> /\ STypeOK'
  BY <1>1, SessionAssumption DEF TypeOK, STypeOK
<1>2. ASSUME NEW j \in Jobs,
             \/ \E s \in Ids : StartRegister(j, s)
             \/ \E r \in Refreshes : StartRefresh(j, r)
                                     \/ \E s \in Ids \cup {None} : StartGrant(j, s, r)
             \/ \E op \in TaskOps, d \in DOMAIN devs : StartOther(j, op, d)
             \/ \E d \in DeviceIds : Push(j, d)
      PROVE  UNCHANGED <<rows, cache, job, clock, excused>> /\ STypeOK'
  BY <1>1, <1>2 DEF StartRegister, StartRefresh, StartGrant, StartOther, Push, svars, tables
<1>3. ASSUME NEW j \in Jobs, \/ Answer(j) \/ Name(j) \/ StoreCommand(j) \/ Revoke(j)
      PROVE  UNCHANGED <<rows, cache, job, clock, excused>> /\ STypeOK'
  BY <1>1, <1>3 DEF Answer, Name, StoreCommand, Revoke, svars, tables
<1>4. ASSUME NEW u \in Urls, Unsubscribe(u)
      PROVE  UNCHANGED <<rows, cache, job, clock, excused>> /\ STypeOK'
  BY <1>1, <1>4 DEF Unsubscribe, svars, tables
<1>5. ASSUME NEW j \in Jobs, Load(j) \/ CreateConflict(j) \/ Read(j)
      PROVE  ReadDevices /\ UNCHANGED <<rows, devs, clock, faults, excused>>
  BY <1>5 DEF Load, CreateConflict, Read
<1>6. ASSUME NEW j \in Jobs, NEW d \in DeviceIds, Create(j, d)
      PROVE  UNCHANGED <<rows, cache, job, clock, excused>> /\ STypeOK'
  <2>1. task[j].sess \in Ids \cup {None}
    BY <1>6 DEF Create, At, TypeOK, Tasks
  <2>2. devs' = devs \/ devs' = [e \in DOMAIN devs \cup {d} |->
                                   IF e = d THEN task[j].sess ELSE devs[e]]
    BY <1>6 DEF Create
  <2>3. UNCHANGED <<rows, cache, job, clock, faults, excused>>
    BY <1>6 DEF Create
  <2> QED
    BY <2>1, <2>2, <2>3 DEF TypeOK, STypeOK
<1>7. ASSUME NEW j \in Jobs, Update(j)
      PROVE  \/ UNCHANGED <<rows, cache, job, clock, excused>> /\ STypeOK'
             \/ ReadDevices /\ UNCHANGED <<rows, devs, clock, faults, excused>>
  <2>1. task[j].sess \in Ids \cup {None}
    BY <1>7 DEF Update, At, TypeOK, Tasks
  <2>2. \/ UNCHANGED <<cache, job, devs>>
        \/ ReadDevices /\ UNCHANGED devs
        \/ UNCHANGED <<cache, job>> /\ devs' = [devs EXCEPT ![task[j].dev] = task[j].sess]
    BY <1>7 DEF Update
  <2>3. UNCHANGED <<rows, clock, faults, excused>>
    BY <1>7 DEF Update
  <2> QED
    BY <2>1, <2>2, <2>3 DEF TypeOK, STypeOK
<1>8. ASSUME NEW j \in Jobs, Delete(j)
      PROVE  \/ UNCHANGED <<rows, cache, job, clock, excused>> /\ STypeOK'
             \/ \E d \in DeviceIds : DropDevice(j, d)
  <2>1. UNCHANGED svars \/ DropDevice(j, task[j].dev)
    BY <1>8 DEF Delete
  <2>2. ASSUME DropDevice(j, task[j].dev) PROVE \E d \in DeviceIds : DropDevice(j, d)
    BY <2>2 DEF DropDevice, TypeOK, STypeOK
  <2> QED
    BY <1>1, <2>1, <2>2 DEF svars, tables
<1> QED
  BY <1>2, <1>3, <1>4, <1>5, <1>6, <1>7, <1>8 DEF DNext

LEMMA DeviceStepKeeps ==
  ASSUME SessionInv, TypeOK, DNext
  PROVE  SessionInv' /\ TableStep
<1>0. clock \in Times /\ faults \in 0..MaxFaults /\ excused \subseteq Ids
  BY DEF TypeOK, STypeOK
<1>1. CASE UNCHANGED <<rows, cache, job, clock, excused>> /\ STypeOK'
  BY <1>1, DevsKeep, SameShows
<1>2. CASE ReadDevices /\ UNCHANGED <<rows, devs, clock, faults, excused>>
  BY <1>2, ReadKeeps
<1>3. ASSUME NEW j \in Jobs, NEW s \in Ids, StartSign(j, s)
      PROVE  SessionInv' /\ TableStep
  <2> DEFINE r == Job("touch", "read", {s})
  <2>1. r \in JobRecords /\ r.op = "touch" /\ r.pc = "read" /\ r.ids = {s}
    BY <1>0, UseJobType DEF Ops
  <2>2. job[j] = None /\ job' = [job EXCEPT ![j] = r]
        /\ UNCHANGED <<tables, clock, faults, excused>>
    BY <1>3 DEF StartSign, Idle
  <2> HIDE DEF r
  <2>3. Sound(j, r) /\ ~Closes(r) /\ CleanedBy(job[j]) = {}
    BY <2>1, <2>2 DEF Sound, Closes, CleanedBy
  <2> QED
    BY <1>0, <2>2, <2>3, JobStep, SameShows DEF tables
<1>4. ASSUME NEW j \in Jobs, NEW d \in DeviceIds, DropDevice(j, d)
      PROVE  SessionInv' /\ TableStep
  BY <1>4, DropKeeps, CloseStep DEF DropDevice
<1>5. ASSUME NEW j \in Jobs, Deleted(j)
      PROVE  SessionInv' /\ TableStep
  <2>1. job' = [job EXCEPT ![j] = None] /\ UNCHANGED <<tables, clock, faults, excused>>
        /\ CleanedBy(job[j]) = {}
    BY <1>5 DEF Deleted, CleanedBy
  <2>2. Sound(j, None) /\ ~Closes(None)
    BY DEF Sound, Closes
  <2> QED
    BY <1>0, <2>1, <2>2, JobStep, SameShows DEF tables
<1> QED
  BY <1>1, <1>2, <1>3, <1>4, <1>5, DeviceEffect
-----------------------------------------------------------------------------
(* The invariant of the devices.                                           *)

\* What a request about devices may rely on, when sessions and devices l belong
\* together and b commands wait for each device: a certificate is signed for a
\* session, and names its device; a grant has a refresh token; a command was
\* stored before its target, and nobody else, is told.
TaskOK(t, l, b) ==
  /\ t.op = "sign" => t.sess \in Ids /\ t.ref = None
  /\ t.op = "sign" /\ t.pc \in {"answer", "name"} => t.dev = None \/ <<t.sess, t.dev>> \in l
  /\ t.op = "grant" => t.ref \in Refreshes
  /\ t.op = "invoke" => t.pc \in {"read", "store", "push"} /\ t.dev \in DeviceIds
                        /\ DOMAIN t.batch \subseteq {t.dev}
  /\ t.op = "invoke" /\ t.pc = "push" => t.index \in 1..b[t.dev]
  /\ t.pc = "name" => t.op = "sign"
  /\ t.pc = "store" => t.op = "invoke"
TasksOK == \A j \in Jobs : task[j] # None => TaskOK(task[j], linked, box)

\* A device belonged to the session it belongs to.
DevicesAreLinked == \A d \in DOMAIN devs : devs[d] # None => <<devs[d], d>> \in linked

DeviceInv ==
  /\ TypeOK
  /\ TasksOK
  /\ DevicesAreLinked
  /\ GoneEndpointsReset
  /\ NoticesFollowMessages
  /\ CertificatesNameOwnDevice
  /\ LiveTokensAreListed

Batches == UNION {[S -> Records] : S \in SUBSET DeviceIds}

LEMMA BatchType ==
  ASSUME NEW S, S \subseteq DeviceIds, NEW b, b \in [S -> Records]
  PROVE  b \in Batches
BY DEF Batches

LEMMA BatchFields ==
  ASSUME NEW b \in Batches
  PROVE  /\ DOMAIN b \subseteq DeviceIds
         /\ \A d \in DOMAIN b : b[d] \in Records
BY DEF Batches

LEMMA NoBatch == NoDevices \in Batches /\ DOMAIN NoDevices = {}
<1>1. NoDevices \in [{} -> Records] /\ DOMAIN NoDevices = {}
  BY DEF NoDevices
<1> QED
  BY <1>1, BatchType

\* The requests about devices, field by field.
Places == {"load", "create", "update", "conflict", "answer", "name", "others",
           "read", "store", "push", "delete", "wait", "revoke"}
LEMMA TaskFields ==
  Tasks = [op : TaskOps, pc : Places, sess : Ids \cup {None}, ref : Refreshes \cup {None},
           dev : DeviceIds \cup {None}, url : Urls \cup {None},
           index : 0..MaxBox, batch : Batches]
BY DEF Tasks, Batches, Places

LEMMA TaskType ==
  ASSUME NEW op \in TaskOps, NEW pc \in Places, NEW s \in Ids \cup {None},
         NEW r \in Refreshes \cup {None}, NEW d \in DeviceIds \cup {None},
         NEW u \in Urls \cup {None}, NEW i \in 0..MaxBox, NEW b \in Batches
  PROVE  [op |-> op, pc |-> pc, sess |-> s, ref |-> r, dev |-> d, url |-> u,
          index |-> i, batch |-> b] \in Tasks
BY TaskFields

\* A new request, about device d.
Asks(op, pc, s, r, d) == [Task(op, pc, s, r) EXCEPT !.dev = d]

LEMMA NewTask ==
  ASSUME NEW op \in TaskOps,
         NEW pc \in {"load", "create", "name", "read"},
         NEW s \in Ids \cup {None}, NEW r \in Refreshes \cup {None},
         NEW d \in DeviceIds \cup {None},
         NEW t, t = Asks(op, pc, s, r, d)
  PROVE  /\ t \in Tasks
         /\ t.op = op /\ t.pc = pc /\ t.sess = s /\ t.ref = r /\ t.dev = d
         /\ t.url = None /\ t.index = 0 /\ t.batch = NoDevices
<1>1. t = [op |-> op, pc |-> pc, sess |-> s, ref |-> r, dev |-> d, url |-> None,
           index |-> 0, batch |-> NoDevices]
  BY DEF Task, Asks
<1>2. 0 \in 0..MaxBox
  BY DeviceAssumption
<1>3. t \in Tasks
  <2>1. NoDevices \in Batches /\ pc \in Places /\ None \in Urls \cup {None}
    BY NoBatch DEF Places
  <2> DEFINE i == 0
             b == NoDevices
  <2>2. i \in 0..MaxBox /\ b \in Batches
    BY <1>2, <2>1
  <2> HIDE DEF i, b
  <2>3. [op |-> op, pc |-> pc, sess |-> s, ref |-> r, dev |-> d, url |-> None,
         index |-> i, batch |-> b] \in Tasks
    BY <2>1, <2>2, TaskType
  <2> QED
    BY <1>1, <2>3 DEF i, b
<1> QED
  BY <1>1, <1>3

\* Request j goes on as t, and every other as it was.
Goes(j, t) ==
  /\ task' = [task EXCEPT ![j] = t]
  /\ t \in Tasks \cup {None}
  /\ t # None => TaskOK(t, linked', box')

LEMMA TasksStep ==
  ASSUME TypeOK, TasksOK, NEW j \in Jobs, NEW t, Goes(j, t),
         linked \subseteq linked',
         \A d \in DeviceIds : box'[d] \in Nat /\ box[d] <= box'[d]
  PROVE  task' \in [Jobs -> Tasks \cup {None}] /\ TasksOK'
<1>1. \A k \in Jobs : task'[k] = IF k = j THEN t ELSE task[k]
  BY DEF TypeOK, Goes
<1>2. task' \in [Jobs -> Tasks \cup {None}]
  BY DEF TypeOK, Goes
<1>3. ASSUME NEW k \in Jobs, task[k] # None
      PROVE  TaskOK(task[k], linked', box')
  <2>1. TaskOK(task[k], linked, box) /\ task[k].index \in Nat
    BY <1>3, DeviceAssumption DEF TasksOK, TypeOK, Tasks
  <2>2. \A d \in DeviceIds : box[d] \in Nat
    BY DeviceAssumption DEF TypeOK
  <2>3. \A d \in DeviceIds : task[k].index \in 1..box[d] => task[k].index \in 1..box'[d]
    BY <2>1, <2>2
  <2> QED
    BY <2>1, <2>3 DEF TaskOK
<1> QED
  BY <1>1, <1>2, <1>3 DEF TasksOK, Goes

\* No token is on its way to be revoked by request j.
Away(j) == task[j] # None => task[j].pc \notin {"wait", "revoke"}

\* A refresh token is accounted for.
Accounted(r) ==
  \/ \E d \in DOMAIN reg : reg[d].ref = r
  \/ r \in lost
  \/ \E j \in Jobs : task[j] # None /\ task[j].pc \in {"wait", "revoke"}
                     /\ r \in RefOf(task[j])

\* What happens to the list of tokens when request j takes a step that may
\* change the devices, but keeps or reports the tokens they have.
LEMMA ListedStep ==
  ASSUME TypeOK, LiveTokensAreListed, NEW j \in Jobs, NEW t, Goes(j, t), Away(j),
         live' \cap held' \subseteq live \cap held, lost \subseteq lost',
         \A d \in DOMAIN reg :
           \/ d \in DOMAIN reg' /\ reg'[d].ref = reg[d].ref
           \/ reg[d].ref \in lost' \cup {None}
           \/ t # None /\ t.pc \in {"wait", "revoke"} /\ reg[d].ref \in RefOf(t)
  PROVE  LiveTokensAreListed'
<1>1. \A k \in Jobs : task'[k] = IF k = j THEN t ELSE task[k]
  BY DEF TypeOK, Goes
<1> SUFFICES ASSUME NEW r \in live \cap held
             PROVE  Accounted(r)'
  BY DEF LiveTokensAreListed, Accounted
<1>2. r # None
  BY DeviceAssumption DEF TypeOK
<1>3. CASE \E d \in DOMAIN reg : reg[d].ref = r
  BY <1>1, <1>2, <1>3 DEF Accounted, RefOf
<1>4. CASE r \in lost
  BY <1>4 DEF Accounted
<1>5. CASE \E k \in Jobs : task[k] # None /\ task[k].pc \in {"wait", "revoke"}
                           /\ r \in RefOf(task[k])
  BY <1>1, <1>5 DEF Accounted, Away, RefOf
<1> QED
  BY <1>3, <1>4, <1>5 DEF LiveTokensAreListed

\* A step of request j that leaves the devices as they are.
LEMMA QuietStep ==
  ASSUME DeviceInv, STypeOK', NEW j \in Jobs, NEW t, Goes(j, t), Away(j),
         UNCHANGED <<devs, reg, Services, lost, linked, notices>>,
         held' = held,
         \A c \in certs' \ certs : c \in Ids \X (DeviceIds \cup {None})
                                   /\ (c[2] = None \/ c \in linked)
  PROVE  DeviceInv'
<1>1. UNCHANGED <<dead, live, box>>
  BY DEF Services
<1>2. \A d \in DeviceIds : box'[d] \in Nat /\ box[d] <= box'[d]
  BY <1>1, DeviceAssumption DEF DeviceInv, TypeOK
<1>3. task' \in [Jobs -> Tasks \cup {None}] /\ TasksOK'
  BY <1>2, TasksStep DEF DeviceInv
<1>4. TypeOK'
  BY <1>1, <1>3 DEF DeviceInv, TypeOK
<1>5. DevicesAreLinked' /\ GoneEndpointsReset' /\ NoticesFollowMessages'
  BY <1>1 DEF DeviceInv, DevicesAreLinked, GoneEndpointsReset, Resets, NoticesFollowMessages
<1>6. CertificatesNameOwnDevice'
  BY DEF DeviceInv, CertificatesNameOwnDevice
<1>7. LiveTokensAreListed'
  BY <1>1, ListedStep DEF DeviceInv
<1> QED
  BY <1>3, <1>4, <1>5, <1>6, <1>7 DEF DeviceInv

\* The device of a session or of a refresh token.
LEMMA OwnIsOwn ==
  ASSUME TypeOK, NEW s, NEW r
  PROVE  /\ Own(s, r) \in DOMAIN devs \cup {None}
         /\ Own(s, r) # None => Own(s, r) \in DevicesOf(s, r)
BY DEF Own, DevicesOf

LEMMA RegisterGoes ==
  ASSUME NEW j \in Jobs, NEW s \in Tasks, s.pc = "load", TaskOK(s, linked', box'),
         NEW own \in DeviceIds \cup {None}, NEW given \in DeviceIds \cup {None},
         NEW url \in Offered, NEW renames, Register(j, s, own, given, url, renames)
  PROVE  \E t : Goes(j, t)
<1> DEFINE id == IF given # None THEN given ELSE own
           pc == IF id = None THEN "create" ELSE "update"
           t == [s EXCEPT !.dev = id, !.url = url, !.pc = pc]
<1>1. task' = [task EXCEPT ![j] = t]
  BY DEF Register
<1>2. id \in DeviceIds \cup {None} /\ pc \in {"create", "update"}
      /\ url \in Urls \cup {None}
  BY DEF Offered
<1> HIDE DEF id, pc
<1>3. t \in Tasks
  BY <1>2, TaskFields DEF Places
<1>4. t.pc = pc /\ t.op = s.op /\ t.sess = s.sess /\ t.ref = s.ref
  BY <1>2, TaskFields
<1>5. TaskOK(t, linked', box')
  BY <1>2, <1>4 DEF TaskOK
<1> QED
  BY <1>1, <1>3, <1>5 DEF Goes

LEMMA StartsGo ==
  ASSUME DeviceInv, STypeOK', NEW j \in Jobs,
         \/ \E s \in Ids : StartRegister(j, s) \/ StartSign(j, s)
         \/ \E r \in Refreshes : StartRefresh(j, r)
         \/ \E op \in TaskOps, d \in DOMAIN devs : StartOther(j, op, d)
  PROVE  DeviceInv'
<1>0. task[j] = None /\ UNCHANGED <<devs, reg, Services, History>>
  BY DEF StartRegister, StartSign, StartRefresh, StartOther, Idle, svars, tables
<1>1. UNCHANGED <<dead, live, box, held, lost, linked, certs, notices>>
  BY <1>0 DEF Services, History
<1>2. TypeOK /\ DOMAIN devs \subseteq DeviceIds
  BY DEF DeviceInv, TypeOK, STypeOK
<1>3. ASSUME NEW t, Goes(j, t) PROVE DeviceInv'
  BY <1>0, <1>1, <1>3, QuietStep DEF Away
<1>4. ASSUME NEW s \in Ids, StartRegister(j, s) PROVE DeviceInv'
  <2> DEFINE t == Task("register", "load", s, None)
  <2>1. t \in Tasks /\ t.op = "register" /\ t.pc = "load"
    <3>1. t = Asks("register", "load", s, None, None)
      BY DEF Task, Asks
    <3> QED
      BY <3>1, NewTask DEF TaskOps
  <2>2. TaskOK(t, linked', box')
    BY <2>1 DEF TaskOK
  <2>3. PICK given \in DOMAIN devs \cup {None}, url \in Offered, renames \in BOOLEAN :
          Register(j, t, Own(s, None), given, url, renames)
    BY <1>4 DEF StartRegister
  <2>4. Own(s, None) \in DeviceIds \cup {None} /\ given \in DeviceIds \cup {None}
    BY <1>2, OwnIsOwn
  <2> HIDE DEF t
  <2> QED
    BY <1>3, <2>1, <2>2, <2>3, <2>4, RegisterGoes
<1>5. ASSUME NEW r \in Refreshes, StartRefresh(j, r) PROVE DeviceInv'
  <2> DEFINE t == Task("register", "load", None, r)
  <2>1. t \in Tasks /\ t.op = "register" /\ t.pc = "load"
    <3>1. t = Asks("register", "load", None, r, None)
      BY DEF Task, Asks
    <3> QED
      BY <3>1, NewTask DEF TaskOps
  <2>2. Goes(j, t)
    BY <1>5, <2>1 DEF TaskOK, Goes, StartRefresh
  <2> QED
    BY <1>3, <2>2
<1>6. ASSUME NEW s \in Ids, StartSign(j, s) PROVE DeviceInv'
  <2> DEFINE d == Own(s, None)
             pc == IF d = None THEN "create" ELSE "name"
             t == Asks("sign", pc, s, None, d)
  <2>1. task' = [task EXCEPT ![j] = t]
    BY <1>6 DEF StartSign, Asks
  <2>2. d \in DeviceIds \cup {None} /\ pc \in {"create", "name"}
    BY <1>2, OwnIsOwn
  <2>3. d # None => <<s, d>> \in linked
    <3>1. d # None => d \in DOMAIN devs /\ devs[d] = s
      BY <1>2, OwnIsOwn DEF DevicesOf
    <3> QED
      BY <3>1, SessionAssumption DEF DeviceInv, DevicesAreLinked
  <2> HIDE DEF d, pc
  <2>4. t \in Tasks /\ t.op = "sign" /\ t.pc = pc /\ t.sess = s /\ t.ref = None /\ t.dev = d
    BY <2>2, NewTask DEF TaskOps
  <2> HIDE DEF t
  <2>5. TaskOK(t, linked', box')
    BY <1>1, <2>2, <2>3, <2>4 DEF TaskOK
  <2> QED
    BY <1>3, <2>1, <2>4, <2>5 DEF Goes
<1>7. ASSUME NEW op \in TaskOps, NEW d \in DOMAIN devs, StartOther(j, op, d) PROVE DeviceInv'
  <2> DEFINE t == Asks(op, "read", None, None, d)
  <2>1. task' = [task EXCEPT ![j] = t] /\ op \in {"notify", "invoke", "destroy"}
    BY <1>7 DEF StartOther, Asks
  <2>2. t \in Tasks /\ t.op = op /\ t.pc = "read" /\ t.dev = d /\ t.batch = NoDevices
    <3>1. d \in DeviceIds \cup {None} /\ None \in Ids \cup {None}
          /\ None \in Refreshes \cup {None}
      BY <1>2
    <3>2. t = Asks(op, "read", None, None, d)
      OBVIOUS
    <3> HIDE DEF t
    <3> QED
      BY <3>1, <3>2, NewTask
  <2> HIDE DEF t
  <2>3. TaskOK(t, linked', box')
    BY <1>2, <2>1, <2>2, NoBatch DEF TaskOK
  <2> QED
    BY <1>3, <2>1, <2>2, <2>3 DEF Goes
<1> QED
  BY <1>4, <1>5, <1>6, <1>7

\* What is known of the request that j is.
LEMMA TaskIs ==
  ASSUME DeviceInv, NEW j \in Jobs, task[j] # None
  PROVE  /\ task[j] \in Tasks /\ TaskOK(task[j], linked, box)
         /\ task[j].op \in TaskOps /\ task[j].pc \in Places
         /\ task[j].sess \in Ids \cup {None} /\ task[j].ref \in Refreshes \cup {None}
         /\ task[j].dev \in DeviceIds \cup {None} /\ task[j].url \in Urls \cup {None}
         /\ task[j].index \in 0..MaxBox /\ task[j].batch \in Batches
<1>1. task[j] \in Tasks
  BY DEF DeviceInv, TypeOK
<1>2. TaskOK(task[j], linked, box)
  BY DEF DeviceInv, TasksOK
<1> QED
  BY <1>1, <1>2, TaskFields

\* A request goes on to place pc.
LEMMA ToGoes ==
  ASSUME DeviceInv, NEW j \in Jobs, task[j] # None, NEW pc \in Places, To(j, pc),
         pc \notin {"answer", "name", "store"},
         pc = "push" => task[j].op # "invoke",
         task[j].op # "invoke"
  PROVE  Goes(j, [task[j] EXCEPT !.pc = pc])
<1> DEFINE t == [task[j] EXCEPT !.pc = pc]
<1>1. task' = [task EXCEPT ![j] = t]
  BY DEF To
<1>2. t \in Tasks /\ t.pc = pc /\ t.op = task[j].op /\ t.sess = task[j].sess
      /\ t.ref = task[j].ref
  BY TaskIs, TaskFields
<1>3. TaskOK(task[j], linked, box)
  BY TaskIs
<1> HIDE DEF t
<1>4. TaskOK(t, linked', box')
  BY <1>2, <1>3 DEF TaskOK
<1> QED
  BY <1>1, <1>2, <1>4 DEF Goes, t

LEMMA FinishGoes ==
  ASSUME NEW j, Finish(j)
  PROVE  Goes(j, None)
BY DEF Finish, Goes

LEMMA LoadKeeps ==
  ASSUME DeviceInv, STypeOK', NEW j \in Jobs, Load(j)
  PROVE  DeviceInv'
<1> DEFINE s == task[j]
<1>1. s # None /\ s.pc = "load" /\ UNCHANGED <<devs, reg, Services, History>>
  BY DEF Load, At
<1>2. UNCHANGED <<box, held, lost, linked, certs, notices>>
  BY <1>1 DEF Services, History
<1>3. s \in Tasks /\ TaskOK(s, linked', box')
  BY <1>1, <1>2, TaskIs
<1>4. TypeOK /\ DOMAIN devs \subseteq DeviceIds
  BY DEF DeviceInv, TypeOK, STypeOK
<1>5. PICK given \in DOMAIN devs \cup {None}, url \in Offered, renames \in BOOLEAN :
        Register(j, s, Own(None, s.ref), given, url, renames)
  BY DEF Load
<1>6. given \in DeviceIds \cup {None} /\ Own(None, s.ref) \in DeviceIds \cup {None}
  BY <1>4, OwnIsOwn
<1>7. \E t : Goes(j, t)
  <2> DEFINE own == Own(None, s.ref)
  <2> HIDE DEF s, own
  <2> QED
    BY <1>1, <1>3, <1>5, <1>6, RegisterGoes DEF own
<1> QED
  BY <1>1, <1>2, <1>7, QuietStep DEF Away

LEMMA CreateConflictKeeps ==
  ASSUME DeviceInv, STypeOK', NEW j \in Jobs, CreateConflict(j)
  PROVE  DeviceInv'
<1> DEFINE s == task[j]
<1>1. s # None /\ s.pc = "conflict" /\ UNCHANGED <<devs, reg, Services, History>>
  BY DEF CreateConflict, At
<1>2. UNCHANGED <<box, held, lost, linked, certs, notices>>
  BY <1>1 DEF Services, History
<1>3. ASSUME NEW t, Goes(j, t) PROVE DeviceInv'
  BY <1>1, <1>2, <1>3, QuietStep DEF Away
<1>4. TaskOK(s, linked, box) /\ s.op # "invoke" /\ s \in Tasks
  BY <1>1, TaskIs DEF TaskOK
<1>5. CASE To(j, "create")
  BY <1>1, <1>3, <1>4, <1>5, ToGoes DEF Places
<1>6. CASE Finish(j)
  BY <1>3, <1>6, FinishGoes
<1>7. CASE s.op = "sign" /\ task' = [task EXCEPT ![j].pc = "name", ![j].dev = Conflicting(s)]
  <2> DEFINE d == Conflicting(s)
             t == [s EXCEPT !.pc = "name", !.dev = d]
  <2>1. task' = [task EXCEPT ![j] = t]
    BY <1>7
  <2>2. s.ref = None /\ s.sess \in Ids
    BY <1>4, <1>7 DEF TaskOK
  <2>3. d \in DeviceIds \cup {None} /\ (d # None => <<s.sess, d>> \in linked)
    <3>1. d # None => d \in DOMAIN devs /\ devs[d] = s.sess
      BY <2>2, OwnIsOwn DEF DevicesOf, Conflicting, DeviceInv
    <3>2. DOMAIN devs \subseteq DeviceIds
      BY DEF DeviceInv, TypeOK, STypeOK
    <3> QED
      BY <2>2, <3>1, <3>2, SessionAssumption DEF DeviceInv, DevicesAreLinked
  <2> HIDE DEF d, s
  <2>4. t \in Tasks /\ t.pc = "name" /\ t.dev = d /\ t.op = s.op /\ t.sess = s.sess
        /\ t.ref = s.ref
    BY <1>4, <2>3, TaskFields DEF Places
  <2> HIDE DEF t
  <2>5. TaskOK(t, linked', box')
    BY <1>2, <1>7, <2>2, <2>3, <2>4 DEF TaskOK
  <2> QED
    BY <1>3, <2>1, <2>4, <2>5 DEF Goes
<1> QED
  BY <1>5, <1>6, <1>7 DEF CreateConflict

LEMMA NameKeeps ==
  ASSUME DeviceInv, STypeOK', NEW j \in Jobs, Name(j)
  PROVE  DeviceInv'
<1> DEFINE s == task[j]
<1>1. s # None /\ s.pc = "name" /\ Goes(j, None)
      /\ UNCHANGED <<devs, reg, Services, held, lost, linked, notices>>
      /\ certs' = certs \cup {<<s.sess, s.dev>>}
  BY FinishGoes DEF Name, At, svars, tables
<1>2. s.sess \in Ids /\ s.dev \in DeviceIds \cup {None}
      /\ (s.dev = None \/ <<s.sess, s.dev>> \in linked)
  BY <1>1, TaskIs DEF TaskOK
<1> QED
  BY <1>1, <1>2, QuietStep DEF Away

\* Devices as db.devices shows them.
LEMMA ShownType ==
  ASSUME TypeOK, NEW S, S \subseteq DOMAIN devs
  PROVE  [d \in S |-> Shown[d]] \in Batches
<1>1. \A d \in S : Shown[d] \in Records
  BY DEF TypeOK, STypeOK, Shown, Records, Regs
<1>2. S \subseteq DeviceIds
  BY DEF TypeOK, STypeOK
<1>3. [d \in S |-> Shown[d]] \in [S -> Records]
  BY <1>1
<1> QED
  BY <1>2, <1>3, BatchType

LEMMA ReadTaskKeeps ==
  ASSUME DeviceInv, STypeOK', NEW j \in Jobs, Read(j)
  PROVE  DeviceInv'
<1> DEFINE s == task[j]
<1>1. s # None /\ s.pc \in {"others", "read"} /\ UNCHANGED <<devs, reg, Services, History>>
  BY DEF Read, At
<1>2. UNCHANGED <<box, held, lost, linked, certs, notices>>
  BY <1>1 DEF Services, History
<1>3. ASSUME NEW t, Goes(j, t) PROVE DeviceInv'
  BY <1>1, <1>2, <1>3, QuietStep DEF Away
<1>4. TaskOK(s, linked, box) /\ s \in Tasks
  BY <1>1, TaskIs
<1>5. CASE Finish(j)
  BY <1>3, <1>5, FinishGoes
<1>6. CASE ~Finish(j)
  <2> DEFINE b == Batch(s)
             pc == CASE s.op = "invoke" -> "store" [] s.op = "destroy" -> "delete"
                     [] OTHER -> "push"
             t == [s EXCEPT !.batch = b, !.pc = pc]
  <2>1. task' = [task EXCEPT ![j] = t]
    BY <1>6 DEF Read
  <2>2. pc \in Places /\ pc \in {"store", "delete", "push"}
        /\ (s.op = "invoke" <=> pc = "store")
    BY DEF Places
  <2>3. b \in Batches /\ (s.op = "invoke" => DOMAIN b \subseteq {s.dev})
    <3> DEFINE S == CASE s.pc = "others" -> DOMAIN devs \ {s.dev}
                      [] s.op = "invoke" -> DOMAIN devs \cap {s.dev}
                      [] OTHER -> DOMAIN devs
    <3>1. b = [d \in S |-> Shown[d]]
      BY DEF Batch
    <3>2. s.op = "invoke" => s.pc # "others"
      BY <1>4 DEF TaskOK
    <3>3. S \subseteq DOMAIN devs /\ (s.op = "invoke" => S \subseteq {s.dev})
      BY <3>2
    <3> HIDE DEF S, b
    <3>4. b \in Batches
      BY <3>1, <3>3, ShownType DEF DeviceInv
    <3> QED
      BY <3>1, <3>3, <3>4
  <2> HIDE DEF b, pc, s
  <2>4. t \in Tasks /\ t.pc = pc /\ t.dev = s.dev /\ t.op = s.op /\ t.sess = s.sess
        /\ t.ref = s.ref /\ t.batch = b
    BY <1>4, <2>2, <2>3, TaskFields
  <2> HIDE DEF t
  <2>5. TaskOK(t, linked', box')
    BY <1>2, <1>4, <2>2, <2>3, <2>4 DEF TaskOK
  <2> QED
    BY <1>3, <2>1, <2>4, <2>5 DEF Goes
<1> QED
  BY <1>5, <1>6

LEMMA StartGrantKeeps ==
  ASSUME DeviceInv, STypeOK', NEW j \in Jobs, NEW s \in Ids \cup {None},
         NEW r \in Refreshes, StartGrant(j, s, r)
  PROVE  DeviceInv'
<1> DEFINE t == Asks("grant", "create", s, r, None)
<1>1. /\ task[j] = None /\ live' = live \cup {r} /\ r \notin held
      /\ UNCHANGED <<devs, reg, dead, box, held, lost, linked, certs, notices>>
  BY DEF StartGrant, Idle, History, svars, tables
<1>2. task' = [task EXCEPT ![j] = t]
  <2>1. Task("grant", "create", s, r) = t
    BY DEF Task, Asks
  <2> QED
    BY <2>1 DEF StartGrant
<1>3. t \in Tasks /\ t.op = "grant" /\ t.pc = "create" /\ t.ref = r
  BY NewTask DEF TaskOps
<1> HIDE DEF t
<1>4. Goes(j, t)
  BY <1>2, <1>3 DEF Goes, TaskOK
<1>5. \A d \in DeviceIds : box'[d] \in Nat /\ box[d] <= box'[d]
  BY <1>1, DeviceAssumption DEF DeviceInv, TypeOK
<1>6. task' \in [Jobs -> Tasks \cup {None}] /\ TasksOK'
  BY <1>1, <1>4, <1>5, TasksStep DEF DeviceInv
<1>7. LiveTokensAreListed'
  BY <1>1, <1>4, ListedStep DEF DeviceInv, Away
<1> QED
  BY <1>1, <1>6, <1>7 DEF DeviceInv, TypeOK, DevicesAreLinked, GoneEndpointsReset, Resets,
       NoticesFollowMessages, CertificatesNameOwnDevice

LEMMA StoreCommandKeeps ==
  ASSUME DeviceInv, STypeOK', NEW j \in Jobs, StoreCommand(j)
  PROVE  DeviceInv'
<1> DEFINE s == task[j]
           d == s.dev
<1>1. /\ s # None /\ s.pc = "store"
      /\ UNCHANGED <<devs, reg, dead, live, held, lost, linked, certs, notices>>
  BY DEF StoreCommand, At, History, tables
<1>2. TaskOK(s, linked, box) /\ s \in Tasks
  BY <1>1, TaskIs
<1>3. s.op = "invoke" /\ d \in DeviceIds /\ DOMAIN s.batch \subseteq {d}
  BY <1>1, <1>2 DEF TaskOK
<1>4. box[d] \in Nat /\ \A e \in DeviceIds : box[e] \in Nat
  BY <1>3, DeviceAssumption DEF DeviceInv, TypeOK
<1>5. CASE box' = box /\ Finish(j)
  BY <1>1, <1>5, FinishGoes, QuietStep DEF Away, Services
<1>6. CASE /\ box[d] < MaxBox
           /\ box' = [box EXCEPT ![d] = @ + 1]
           /\ task' = [task EXCEPT ![j].pc = "push", ![j].index = box[d] + 1]
  <2> DEFINE i == box[d] + 1
             t == [s EXCEPT !.pc = "push", !.index = i]
  <2>1. box' \in [DeviceIds -> 0..MaxBox] /\ box'[d] = i /\ i \in 0..MaxBox /\ i \in 1..i
        /\ \A e \in DeviceIds : box'[e] \in Nat /\ box[e] <= box'[e]
    BY <1>3, <1>4, <1>6, DeviceAssumption DEF DeviceInv, TypeOK
  <2>2. task' = [task EXCEPT ![j] = t]
    BY <1>6
  <2> HIDE DEF i, s
  <2>3. t \in Tasks /\ t.pc = "push" /\ t.op = "invoke" /\ t.dev = d /\ t.index = i
        /\ t.batch = s.batch
    BY <1>2, <1>3, <2>1, TaskFields DEF Places
  <2> HIDE DEF t
  <2>4. Goes(j, t)
    BY <1>3, <2>1, <2>2, <2>3 DEF Goes, TaskOK
  <2>5. task' \in [Jobs -> Tasks \cup {None}] /\ TasksOK'
    BY <1>1, <2>1, <2>4, TasksStep DEF DeviceInv
  <2>6. LiveTokensAreListed'
    BY <1>1, <2>4, ListedStep DEF DeviceInv, Away, s
  <2>7. NoticesFollowMessages'
    <3> SUFFICES ASSUME NEW n \in notices PROVE n[2] \in 1..box'[n[1]]
      BY <1>1 DEF NoticesFollowMessages
    <3>1. n[1] \in DeviceIds /\ n[2] \in Nat
      BY DeviceAssumption DEF DeviceInv, TypeOK
    <3> QED
      BY <1>4, <2>1, <3>1 DEF DeviceInv, NoticesFollowMessages
  <2> QED
    BY <1>1, <2>1, <2>5, <2>6, <2>7 DEF DeviceInv, TypeOK, DevicesAreLinked,
         GoneEndpointsReset, Resets, CertificatesNameOwnDevice
<1> QED
  BY <1>5, <1>6 DEF StoreCommand

LEMMA AnswerKeeps ==
  ASSUME DeviceInv, STypeOK', NEW j \in Jobs, Answer(j)
  PROVE  DeviceInv'
<1> DEFINE s == task[j]
           t == [s EXCEPT !.pc = "others"]
<1>1. /\ s # None /\ s.pc = "answer" /\ To(j, "others")
      /\ UNCHANGED <<devs, reg, dead, live, box, linked, notices>>
  BY DEF Answer, At, Services, tables
<1>2. TaskOK(s, linked, box) /\ s.op # "invoke"
  BY <1>1, TaskIs DEF TaskOK
<1>3. Goes(j, t)
  BY <1>1, <1>2, ToGoes DEF Places
<1> HIDE DEF t
<1>4. \A d \in DeviceIds : box'[d] \in Nat /\ box[d] <= box'[d]
  BY <1>1, DeviceAssumption DEF DeviceInv, TypeOK
<1>5. task' \in [Jobs -> Tasks \cup {None}] /\ TasksOK'
  BY <1>1, <1>3, <1>4, TasksStep DEF DeviceInv
<1>6. \A c \in certs' : c \in certs \/ (c \in Ids \X (DeviceIds \cup {None})
                                        /\ (c[2] = None \/ c \in linked))
  BY <1>1, <1>2, TaskIs DEF Answer, TaskOK
<1>7. \/ held' = held /\ lost' = lost
      \/ /\ s.op = "grant" /\ s.ref \in Refreshes
         /\ held' = held \cup {s.ref}
         /\ lost' = lost \cup (IF Own(None, s.ref) = None THEN {s.ref} ELSE {})
  BY <1>2 DEF Answer, TaskOK
<1>8. LiveTokensAreListed'
  <2>1. CASE held' = held /\ lost' = lost
    BY <1>1, <1>3, <2>1, ListedStep DEF DeviceInv, Away
  <2>2. CASE /\ s.ref \in Refreshes /\ held' = held \cup {s.ref}
             /\ lost' = lost \cup (IF Own(None, s.ref) = None THEN {s.ref} ELSE {})
    <3>1. \/ s.ref \in lost'
          \/ \E d \in DOMAIN reg : reg[d].ref = s.ref
      <4>1. CASE Own(None, s.ref) = None
        BY <2>2, <4>1
      <4>2. CASE Own(None, s.ref) # None
        BY <2>2, <4>2, OwnIsOwn, DeviceAssumption DEF DevicesOf, DeviceInv, TypeOK
      <4> QED
        BY <4>1, <4>2
    <3>2. \A r \in live \cap held : Accounted(r)
      BY DEF DeviceInv, LiveTokensAreListed, Accounted
    <3>3. ASSUME NEW k \in Jobs, task[k] # None, task[k].pc \in {"wait", "revoke"}
          PROVE  task'[k] = task[k]
      BY <1>1, <3>3 DEF To, DeviceInv, TypeOK
    <3>4. \A r \in live \cap held : Accounted(r)'
      BY <1>1, <2>2, <3>2, <3>3 DEF Accounted, RefOf
    <3> QED
      BY <1>1, <2>2, <3>1, <3>4 DEF LiveTokensAreListed, Accounted
  <2> QED
    BY <1>7, <2>1, <2>2
<1>9. TypeOK'
  BY <1>1, <1>5, <1>6, <1>7 DEF DeviceInv, TypeOK
<1>10. CertificatesNameOwnDevice'
  BY <1>1, <1>6 DEF DeviceInv, CertificatesNameOwnDevice
<1> QED
  BY <1>1, <1>5, <1>8, <1>9, <1>10 DEF DeviceInv, DevicesAreLinked, GoneEndpointsReset, Resets,
       NoticesFollowMessages

LEMMA CreateKeeps ==
  ASSUME DeviceInv, STypeOK', NEW j \in Jobs, NEW d \in DeviceIds, Create(j, d)
  PROVE  DeviceInv'
<1> DEFINE s == task[j]
<1>1. /\ s # None /\ s.pc = "create"
      /\ UNCHANGED <<dead, live, box, held, lost, certs, notices>>
  BY DEF Create, At, Services
<1>2. TaskOK(s, linked, box) /\ s.op # "invoke" /\ s \in Tasks
  BY <1>1, TaskIs DEF TaskOK
<1>3. CASE UNCHANGED <<devs, reg, linked>>
           /\ task' = [task EXCEPT ![j].pc = "conflict", ![j].dev = d]
  <2> DEFINE t == [s EXCEPT !.pc = "conflict", !.dev = d]
  <2>1. task' = [task EXCEPT ![j] = t]
    BY <1>3
  <2>2. t \in Tasks /\ t.pc = "conflict" /\ t.op = s.op /\ t.sess = s.sess /\ t.ref = s.ref
    BY <1>2, TaskFields DEF Places
  <2> HIDE DEF t
  <2>3. Goes(j, t)
    BY <1>2, <2>1, <2>2 DEF Goes, TaskOK
  <2> QED
    BY <1>1, <1>3, <2>3, QuietStep DEF Away, Services
<1>4. CASE /\ d \notin DOMAIN devs
           /\ devs' = [e \in DOMAIN devs \cup {d} |-> IF e = d THEN s.sess ELSE devs[e]]
           /\ reg' = [e \in DOMAIN devs \cup {d} |-> IF e = d
                THEN [ref |-> s.ref, url |-> s.url, gone |-> FALSE] ELSE reg[e]]
           /\ linked' = IF s.sess = None THEN linked ELSE linked \cup {<<s.sess, d>>}
           /\ task' = [task EXCEPT ![j].dev = d, ![j].pc = "answer"]
  <2> DEFINE t == [s EXCEPT !.dev = d, !.pc = "answer"]
  <2>1. task' = [task EXCEPT ![j] = t]
    BY <1>4
  <2>2. t \in Tasks /\ t.pc = "answer" /\ t.op = s.op /\ t.sess = s.sess /\ t.ref = s.ref
        /\ t.dev = d
    BY <1>2, TaskFields DEF Places
  <2> HIDE DEF t
  <2>3. s.sess \in Ids \cup {None} /\ s.ref \in Refreshes \cup {None}
        /\ s.url \in Urls \cup {None}
    BY <1>1, TaskIs
  <2>4. linked \subseteq linked' /\ (s.sess # None => <<s.sess, d>> \in linked')
        /\ linked' \subseteq linked \cup {<<s.sess, d>>} /\ (s.sess = None => linked' = linked)
    BY <1>4
  <2>5. TaskOK(t, linked', box')
    BY <1>2, <2>2, <2>4, SessionAssumption DEF TaskOK
  <2>6. Goes(j, t)
    BY <2>1, <2>2, <2>5 DEF Goes
  <2>7. task' \in [Jobs -> Tasks \cup {None}] /\ TasksOK'
    <3>1. \A e \in DeviceIds : box'[e] \in Nat /\ box[e] <= box'[e]
      BY <1>1, DeviceAssumption DEF DeviceInv, TypeOK
    <3> QED
      BY <2>4, <2>6, <3>1, TasksStep DEF DeviceInv
  <2>8. DOMAIN reg = DOMAIN devs /\ \A e \in DOMAIN reg : reg'[e] = reg[e]
    BY <1>4 DEF DeviceInv, TypeOK
  <2>9. LiveTokensAreListed'
    BY <1>1, <1>4, <2>6, <2>8, ListedStep DEF DeviceInv, Away
  <2>10. reg' \in [DOMAIN devs' -> Regs] /\ linked' \subseteq (Ids \X (DeviceIds \cup {None}))
    <3>1. [ref |-> s.ref, url |-> s.url, gone |-> FALSE] \in Regs
      BY <2>3 DEF Regs
    <3> QED
      BY <1>4, <2>3, <2>4, <3>1 DEF DeviceInv, TypeOK
  <2>11. DevicesAreLinked'
    BY <1>4, <2>4 DEF DeviceInv, DevicesAreLinked
  <2>12. GoneEndpointsReset'
    <3>1. \A e \in DOMAIN reg' : e # d => e \in DOMAIN reg /\ reg'[e] = reg[e]
      BY <1>4, <2>8
    <3>2. reg'[d].gone = FALSE
      BY <1>4
    <3> QED
      BY <1>1, <3>1, <3>2 DEF DeviceInv, GoneEndpointsReset, Resets
  <2> QED
    BY <1>1, <2>4, <2>7, <2>9, <2>10, <2>11, <2>12 DEF DeviceInv, TypeOK,
       NoticesFollowMessages, CertificatesNameOwnDevice
<1> QED
  BY <1>3, <1>4 DEF Create

\* A record of a device is replaced by request j, and the device it belongs to
\* may be too.
LEMMA RegKeeps ==
  ASSUME DeviceInv, STypeOK', NEW j \in Jobs, NEW t, Goes(j, t), Away(j),
         NEW d \in DOMAIN devs, NEW new \in Regs,
         reg' = [reg EXCEPT ![d] = new], DOMAIN devs' = DOMAIN devs,
         lost' = lost \cup Dropped(reg[d], new),
         linked \subseteq linked', linked' \subseteq (Ids \X (DeviceIds \cup {None})),
         DevicesAreLinked', NoticesFollowMessages',
         notices' \subseteq (DeviceIds \X (0..MaxBox)),
         new.gone => Resets(new.url),
         UNCHANGED <<dead, live, box, held, certs>>
  PROVE  DeviceInv'
<1>1. \A e \in DeviceIds : box'[e] \in Nat /\ box[e] <= box'[e]
  BY DeviceAssumption DEF DeviceInv, TypeOK
<1>2. task' \in [Jobs -> Tasks \cup {None}] /\ TasksOK'
  BY <1>1, TasksStep DEF DeviceInv
<1>3. DOMAIN reg = DOMAIN devs /\ reg' \in [DOMAIN devs' -> Regs]
      /\ \A e \in DOMAIN reg : reg'[e] = IF e = d THEN new ELSE reg[e]
  BY DEF DeviceInv, TypeOK
<1>4. reg[d].ref \in Refreshes \cup {None}
  BY <1>3 DEF DeviceInv, TypeOK, Regs
<1>5. Dropped(reg[d], new) \subseteq Refreshes
      /\ (new.ref # reg[d].ref => reg[d].ref \in lost' \cup {None})
  BY <1>4 DEF Dropped
<1>6. LiveTokensAreListed'
  <2>1. \A e \in DOMAIN reg : e \in DOMAIN reg'
          /\ (reg'[e].ref = reg[e].ref \/ reg[e].ref \in lost' \cup {None})
    BY <1>3, <1>5
  <2> QED
    BY <2>1, ListedStep DEF DeviceInv
<1>7. GoneEndpointsReset'
  BY <1>3 DEF DeviceInv, GoneEndpointsReset, Resets
<1>8. TypeOK'
  BY <1>2, <1>3, <1>5 DEF DeviceInv, TypeOK
<1>9. CertificatesNameOwnDevice'
  BY DEF DeviceInv, CertificatesNameOwnDevice
<1> QED
  BY <1>2, <1>6, <1>7, <1>8, <1>9 DEF DeviceInv

LEMMA UpdatedType ==
  ASSUME NEW old \in Regs, NEW r \in Refreshes \cup {None}, NEW u \in Urls \cup {None},
         NEW gone \in BOOLEAN
  PROVE  /\ Updated(old, r, u, gone) \in Regs
         /\ Updated(old, r, u, gone).gone = gone
         /\ u # None => Updated(old, r, u, gone).url = u
BY DEF Updated, Regs

LEMMA UpdateKeeps ==
  ASSUME DeviceInv, STypeOK', NEW j \in Jobs, Update(j)
  PROVE  DeviceInv'
<1> DEFINE s == task[j]
           d == s.dev
           new == Updated(reg[d], s.ref, s.url, FALSE)
<1>1. /\ s # None /\ s.pc = "update" /\ Goes(j, None)
      /\ UNCHANGED <<dead, live, box, held, certs, notices>>
  BY FinishGoes DEF Update, At, Services
<1>2. CASE UNCHANGED <<devs, reg, lost, linked>>
  BY <1>1, <1>2, QuietStep DEF Away, Services
<1>3. CASE /\ d \in DOMAIN devs
           /\ devs' = IF s.sess = None THEN devs ELSE [devs EXCEPT ![d] = s.sess]
           /\ reg' = [reg EXCEPT ![d] = new]
           /\ lost' = lost \cup Dropped(reg[d], new)
           /\ linked' = IF s.sess = None THEN linked ELSE linked \cup {<<s.sess, d>>}
  <2>1. s.sess \in Ids \cup {None} /\ s.ref \in Refreshes \cup {None}
        /\ s.url \in Urls \cup {None} /\ d \in DeviceIds
    BY <1>1, <1>3, TaskIs DEF DeviceInv, TypeOK, STypeOK
  <2>2. reg[d] \in Regs
    BY <1>3 DEF DeviceInv, TypeOK
  <2> HIDE DEF s, d
  <2>3. new \in Regs /\ ~new.gone
    BY <2>1, <2>2, UpdatedType
  <2> HIDE DEF new
  <2>4. /\ linked \subseteq linked' /\ linked' \subseteq (Ids \X (DeviceIds \cup {None}))
        /\ (s.sess # None => <<s.sess, d>> \in linked')
    BY <1>3, <2>1 DEF DeviceInv, TypeOK
  <2>5. DOMAIN devs' = DOMAIN devs /\ DevicesAreLinked'
    BY <1>3, <2>4 DEF DeviceInv, DevicesAreLinked
  <2>6. NoticesFollowMessages' /\ notices' \subseteq (DeviceIds \X (0..MaxBox))
    BY <1>1 DEF DeviceInv, NoticesFollowMessages, TypeOK
  <2>7. Away(j)
    BY <1>1 DEF Away, s
  <2> QED
    BY <1>1, <1>3, <2>3, <2>4, <2>5, <2>6, <2>7, RegKeeps
<1> QED
  BY <1>2, <1>3 DEF Update

LEMMA PushKeeps ==
  ASSUME DeviceInv, STypeOK', NEW j \in Jobs, NEW d \in DeviceIds, Push(j, d)
  PROVE  DeviceInv'
<1> DEFINE s == task[j]
           r == s.batch[d]
           rest == [e \in DOMAIN s.batch \ {d} |-> s.batch[e]]
           t == IF DOMAIN rest = {} THEN None ELSE [s EXCEPT !.batch = rest]
           new == Flagged(reg[d], r)
<1>1. /\ s # None /\ s.pc = "push" /\ d \in DOMAIN s.batch
      /\ UNCHANGED <<devs, dead, live, box, held, linked, certs>>
  BY DEF Push, At, Services, svars, tables
<1>2. TaskOK(s, linked, box) /\ s \in Tasks /\ s.index \in 0..MaxBox /\ s.batch \in Batches
  BY <1>1, TaskIs
<1>3. r \in Records
  BY <1>1, <1>2, BatchFields
<1>4. Goes(j, t)
  <2>1. task' = [task EXCEPT ![j] = t]
    BY DEF Push, Finish
  <2>2. CASE DOMAIN rest = {}
    BY <2>1, <2>2 DEF Goes
  <2>3. CASE DOMAIN rest # {}
    <3>1. rest \in Batches
      <4>1. rest \in [DOMAIN s.batch \ {d} -> Records]
        BY <1>2, BatchFields
      <4>2. DOMAIN s.batch \ {d} \subseteq DeviceIds
        BY <1>2, BatchFields
      <4> QED
        BY <4>1, <4>2, BatchType
    <3>2. DOMAIN rest \subseteq DOMAIN s.batch
      OBVIOUS
    <3> HIDE DEF rest, s
    <3>3. t \in Tasks /\ t.op = s.op /\ t.pc = s.pc /\ t.dev = s.dev /\ t.sess = s.sess
          /\ t.ref = s.ref /\ t.index = s.index /\ t.batch = rest
      BY <1>2, <2>3, <3>1, TaskFields
    <3> HIDE DEF t
    <3>4. TaskOK(t, linked', box')
      BY <1>1, <1>2, <3>2, <3>3 DEF TaskOK
    <3> QED
      BY <2>1, <3>3, <3>4 DEF Goes
  <2> QED
    BY <2>2, <2>3
<1> HIDE DEF t
<1>5. Away(j)
  BY <1>1 DEF Away
<1>6. CASE UNCHANGED <<reg, lost>> /\ notices' = notices
  BY <1>1, <1>4, <1>5, <1>6, QuietStep DEF Services
<1>7. CASE UNCHANGED <<reg, lost>> /\ s.op = "invoke" /\ notices' = notices \cup {<<d, s.index>>}
  <2>1. s.index \in 1..box[d]
    BY <1>1, <1>2, <1>7 DEF TaskOK
  <2>2. \A e \in DeviceIds : box'[e] \in Nat /\ box[e] <= box'[e]
    BY <1>1, DeviceAssumption DEF DeviceInv, TypeOK
  <2>3. task' \in [Jobs -> Tasks \cup {None}] /\ TasksOK'
    BY <1>1, <1>4, <2>2, TasksStep DEF DeviceInv
  <2>4. LiveTokensAreListed'
    BY <1>1, <1>4, <1>5, <1>7, ListedStep DEF DeviceInv
  <2>5. notices' \subseteq (DeviceIds \X (0..MaxBox))
    BY <1>2, <1>7 DEF DeviceInv, TypeOK
  <2>6. NoticesFollowMessages'
    BY <1>1, <1>7, <2>1 DEF DeviceInv, NoticesFollowMessages
  <2> QED
    BY <1>1, <1>7, <2>3, <2>4, <2>5, <2>6 DEF DeviceInv, TypeOK, DevicesAreLinked,
         GoneEndpointsReset, Resets, CertificatesNameOwnDevice
<1>8. CASE /\ r.url # None /\ Resets(r.url) /\ d \in DOMAIN devs
           /\ reg' = [reg EXCEPT ![d] = new]
           /\ lost' = lost \cup Dropped(reg[d], new)
           /\ notices' = notices
  <2>1. reg[d] \in Regs
    BY <1>8 DEF DeviceInv, TypeOK
  <2>2. r.ref \in Refreshes \cup {None} /\ r.url \in Urls \cup {None}
    BY <1>3 DEF Records
  <2> HIDE DEF r
  <2>3. new \in Regs /\ new.url = r.url
    BY <1>8, <2>1, <2>2, UpdatedType DEF Flagged
  <2> HIDE DEF new
  <2>4. NoticesFollowMessages' /\ DevicesAreLinked' /\ notices' \subseteq (DeviceIds \X (0..MaxBox))
        /\ linked' \subseteq (Ids \X (DeviceIds \cup {None}))
    BY <1>1, <1>8 DEF DeviceInv, NoticesFollowMessages, DevicesAreLinked, TypeOK
  <2> QED
    BY <1>1, <1>4, <1>5, <1>8, <2>3, <2>4, RegKeeps
<1>9. \/ UNCHANGED <<reg, lost>>
      \/ /\ r.url # None /\ Resets(r.url) /\ d \in DOMAIN devs
         /\ reg' = [reg EXCEPT ![d] = new]
         /\ lost' = lost \cup Dropped(reg[d], new)
         /\ notices' = notices
  BY DEF Push
<1>10. notices' = notices \/ (s.op = "invoke" /\ notices' = notices \cup {<<d, s.index>>})
  BY DEF Push
<1> QED
  BY <1>6, <1>7, <1>8, <1>9, <1>10

\* Devices are gone, with or without the refresh tokens they had.
LEMMA DropsKeep ==
  ASSUME DeviceInv, STypeOK', NEW j \in Jobs, NEW t, Goes(j, t), Away(j),
         DOMAIN devs' \subseteq DOMAIN devs,
         \A d \in DOMAIN devs' : devs'[d] = devs[d],
         reg' = [d \in DOMAIN devs' |-> reg[d]],
         lost \subseteq lost', lost' \subseteq Refreshes,
         \A d \in DOMAIN devs \ DOMAIN devs' :
           \/ reg[d].ref \in lost' \cup {None}
           \/ t # None /\ t.pc \in {"wait", "revoke"} /\ reg[d].ref \in RefOf(t),
         UNCHANGED <<dead, live, box, held, linked, certs, notices>>
  PROVE  DeviceInv'
<1>1. \A e \in DeviceIds : box'[e] \in Nat /\ box[e] <= box'[e]
  BY DeviceAssumption DEF DeviceInv, TypeOK
<1>2. task' \in [Jobs -> Tasks \cup {None}] /\ TasksOK'
  BY <1>1, TasksStep DEF DeviceInv
<1>3. DOMAIN reg = DOMAIN devs
  BY DEF DeviceInv, TypeOK
<1>4. LiveTokensAreListed'
  BY <1>3, ListedStep DEF DeviceInv
<1>5. TypeOK'
  BY <1>2 DEF DeviceInv, TypeOK
<1>6. DevicesAreLinked' /\ GoneEndpointsReset' /\ NoticesFollowMessages'
      /\ CertificatesNameOwnDevice'
  BY <1>3 DEF DeviceInv, DevicesAreLinked, GoneEndpointsReset, Resets, NoticesFollowMessages,
       CertificatesNameOwnDevice
<1> QED
  BY <1>2, <1>4, <1>5, <1>6 DEF DeviceInv

LEMMA DeleteKeeps ==
  ASSUME DeviceInv, STypeOK', NEW j \in Jobs, Delete(j)
  PROVE  DeviceInv'
<1> DEFINE s == task[j]
           d == s.dev
           read == s.batch
           known == d \in DOMAIN read /\ read[d].ref = reg[d].ref
<1>1. /\ s # None /\ s.pc = "delete"
      /\ UNCHANGED <<dead, live, box, held, linked, certs, notices>>
  BY DEF Delete, At, Services
<1>2. TaskOK(s, linked, box) /\ s \in Tasks /\ s.op # "invoke"
  BY <1>1, TaskIs DEF TaskOK
<1>3. CASE Finish(j) /\ UNCHANGED <<svars, reg, lost>>
  BY <1>1, <1>3, FinishGoes, QuietStep DEF Away, Services, svars, tables
<1>4. CASE /\ DropDevice(j, d)
           /\ reg' = [e \in DOMAIN devs' |-> reg[e]]
           /\ lost' = lost \cup (IF known THEN {} ELSE {reg[d].ref} \ {None})
           /\ To(j, "wait")
  <2> DEFINE t == [s EXCEPT !.pc = "wait"]
  <2>1. Goes(j, t)
    BY <1>1, <1>2, <1>4, ToGoes DEF Places
  <2>2. t.pc = "wait" /\ t.dev = d /\ t.batch = read /\ t # None
    BY <1>2, <2>1, TaskFields, TaskAssumption DEF Goes, Places
  <2>3. d \in DOMAIN devs /\ DOMAIN devs' = DOMAIN devs \ {d}
        /\ \A e \in DOMAIN devs' : devs'[e] = devs[e]
    BY <1>4 DEF DropDevice
  <2>4. reg[d].ref \in Refreshes \cup {None}
    BY <2>3 DEF DeviceInv, TypeOK, Regs
  <2>5. \/ reg[d].ref \in lost' \cup {None}
        \/ reg[d].ref \in RefOf(t)
    BY <1>4, <2>2 DEF RefOf
  <2>6. lost \subseteq lost' /\ lost' \subseteq Refreshes
    BY <1>4, <2>4 DEF DeviceInv, TypeOK
  <2>7. Away(j)
    BY <1>1 DEF Away
  <2> HIDE DEF t
  <2>8. \A e \in DOMAIN devs \ DOMAIN devs' :
          \/ reg[e].ref \in lost' \cup {None}
          \/ t # None /\ t.pc \in {"wait", "revoke"} /\ reg[e].ref \in RefOf(t)
    BY <2>2, <2>3, <2>5
  <2> QED
    BY <1>1, <1>4, <2>1, <2>3, <2>6, <2>7, <2>8, DropsKeep
<1> QED
  BY <1>3, <1>4 DEF Delete

\* Request j, which was to revoke tokens, goes on.
LEMMA LeaveKeeps ==
  ASSUME DeviceInv, STypeOK', NEW j \in Jobs, NEW t, Goes(j, t), task[j] # None,
         UNCHANGED <<devs, reg, dead, box, held, linked, certs, notices>>,
         live' \subseteq live, lost \subseteq lost', lost' \subseteq Refreshes,
         \A r \in RefOf(task[j]) \cap live' :
           \/ r \in lost'
           \/ t # None /\ t.pc \in {"wait", "revoke"} /\ r \in RefOf(t)
  PROVE  DeviceInv'
<1>1. \A e \in DeviceIds : box'[e] \in Nat /\ box[e] <= box'[e]
  BY DeviceAssumption DEF DeviceInv, TypeOK
<1>2. task' \in [Jobs -> Tasks \cup {None}] /\ TasksOK'
  BY <1>1, TasksStep DEF DeviceInv
<1>3. \A k \in Jobs : task'[k] = IF k = j THEN t ELSE task[k]
  BY DEF DeviceInv, TypeOK, Goes
<1>4. ASSUME NEW r \in live' \cap held
      PROVE  Accounted(r)'
  <2>1. r \in live \cap held
    OBVIOUS
  <2>2. CASE r \in lost \/ \E d \in DOMAIN reg : reg[d].ref = r
    BY <2>2 DEF Accounted
  <2>3. ASSUME NEW k \in Jobs, task[k] # None, task[k].pc \in {"wait", "revoke"},
               r \in RefOf(task[k])
        PROVE  Accounted(r)'
    <3>1. CASE k = j
      <4>1. r \in lost' \/ (task'[j] # None /\ task'[j].pc \in {"wait", "revoke"}
                            /\ r \in RefOf(task'[j]))
        BY <1>3, <2>3, <3>1
      <4> QED
        BY <4>1 DEF Accounted, RefOf
    <3>2. CASE k # j
      <4>1. task'[k] = task[k]
        BY <1>3, <3>2
      <4> QED
        BY <2>3, <4>1 DEF Accounted, RefOf
    <3> QED
      BY <3>1, <3>2
  <2> QED
    BY <2>1, <2>2, <2>3 DEF DeviceInv, LiveTokensAreListed
<1>5. LiveTokensAreListed'
  BY <1>4 DEF LiveTokensAreListed, Accounted
<1>6. TypeOK'
  BY <1>2 DEF DeviceInv, TypeOK
<1>7. DevicesAreLinked' /\ GoneEndpointsReset' /\ NoticesFollowMessages'
      /\ CertificatesNameOwnDevice'
  BY DEF DeviceInv, DevicesAreLinked, GoneEndpointsReset, Resets, NoticesFollowMessages,
       CertificatesNameOwnDevice
<1> QED
  BY <1>2, <1>5, <1>6, <1>7 DEF DeviceInv

\* The refresh token of the device that a request read.
LEMMA RefOfType ==
  ASSUME NEW t \in Tasks
  PROVE  RefOf(t) \subseteq Refreshes
<1>1. t.batch \in Batches
  BY TaskFields
<1>2. \A d \in DOMAIN t.batch : t.batch[d].ref \in Refreshes \cup {None}
  BY <1>1, BatchFields DEF Records
<1> QED
  BY <1>2 DEF RefOf

LEMMA DeletedKeeps ==
  ASSUME DeviceInv, STypeOK', NEW j \in Jobs, Deleted(j)
  PROVE  DeviceInv'
<1> DEFINE s == task[j]
           t == [s EXCEPT !.pc = "revoke"]
<1>1. /\ s # None /\ s.pc = "wait"
      /\ UNCHANGED <<devs, reg, dead, live, box, held, linked, certs, notices>>
  BY DEF Deleted, At, Services, tables
<1>2. TaskOK(s, linked, box) /\ s \in Tasks /\ s.op # "invoke"
  BY <1>1, TaskIs DEF TaskOK
<1>3. RefOf(s) \subseteq Refreshes /\ lost \subseteq Refreshes
  BY <1>2, RefOfType DEF DeviceInv, TypeOK
<1>4. CASE To(j, "revoke") /\ UNCHANGED lost
  <2>1. Goes(j, t)
    BY <1>1, <1>2, <1>4, ToGoes DEF Places
  <2>2. t # None /\ t.pc = "revoke" /\ RefOf(t) = RefOf(s)
    BY <1>2, <2>1, TaskFields, TaskAssumption DEF Goes, RefOf, Places
  <2> HIDE DEF t
  <2> QED
    BY <1>1, <1>3, <1>4, <2>1, <2>2, LeaveKeeps
<1>5. CASE RefOf(s) = {} /\ UNCHANGED lost /\ (Finish(j) \/ To(j, "push"))
  <2>1. \E u : Goes(j, u)
    BY <1>1, <1>2, <1>5, FinishGoes, ToGoes DEF Places
  <2> QED
    BY <1>1, <1>3, <1>5, <2>1, LeaveKeeps
<1>6. CASE Finish(j) /\ lost' = lost \cup RefOf(s)
  BY <1>1, <1>3, <1>6, FinishGoes, LeaveKeeps
<1> QED
  BY <1>4, <1>5, <1>6 DEF Deleted

LEMMA RevokeKeeps ==
  ASSUME DeviceInv, STypeOK', NEW j \in Jobs, Revoke(j)
  PROVE  DeviceInv'
<1> DEFINE s == task[j]
           t == [s EXCEPT !.pc = "push"]
<1>1. /\ s # None /\ s.pc = "revoke" /\ To(j, "push")
      /\ UNCHANGED <<devs, reg, dead, box, held, linked, certs, notices>>
  BY DEF Revoke, At, tables
<1>2. TaskOK(s, linked, box) /\ s \in Tasks /\ s.op # "invoke"
  BY <1>1, TaskIs DEF TaskOK
<1>3. RefOf(s) \subseteq Refreshes /\ lost \subseteq Refreshes
  BY <1>2, RefOfType DEF DeviceInv, TypeOK
<1>4. Goes(j, t)
  BY <1>1, <1>2, ToGoes DEF Places
<1>5. \/ live' = live \ RefOf(s) /\ UNCHANGED lost
      \/ lost' = lost \cup RefOf(s) /\ UNCHANGED live
  BY DEF Revoke, Revoked
<1> HIDE DEF t
<1> QED
  BY <1>1, <1>3, <1>4, <1>5, LeaveKeeps

\* Nothing that a request about devices relies on is disturbed: an endpoint is
\* given up, or a request about sessions takes devices with it.
LEMMA OutsideKeeps ==
  ASSUME DeviceInv, STypeOK', DOMAIN devs' \subseteq DOMAIN devs,
         \A d \in DOMAIN devs' : devs'[d] = devs[d],
         reg' = [d \in DOMAIN devs' |-> reg[d]],
         lost' = lost \cup ({reg[d].ref : d \in DOMAIN devs \ DOMAIN devs'} \ {None}),
         dead \subseteq dead', dead' \subseteq Urls,
         UNCHANGED <<live, box, task, held, linked, certs, notices>>
  PROVE  DeviceInv'
<1>1. DOMAIN reg = DOMAIN devs /\ \A d \in DOMAIN reg : reg[d].ref \in Refreshes \cup {None}
  BY DEF DeviceInv, TypeOK, Regs
<1>2. TypeOK' /\ TasksOK'
  BY <1>1 DEF DeviceInv, TypeOK, TasksOK
<1>3. DevicesAreLinked' /\ GoneEndpointsReset' /\ NoticesFollowMessages'
      /\ CertificatesNameOwnDevice'
  BY <1>1 DEF DeviceInv, DevicesAreLinked, GoneEndpointsReset, Resets, NoticesFollowMessages,
       CertificatesNameOwnDevice
<1>4. LiveTokensAreListed'
  <2> SUFFICES ASSUME NEW r \in live \cap held
               PROVE  Accounted(r)'
    BY DEF LiveTokensAreListed, Accounted
  <2>1. r # None
    BY DeviceAssumption DEF DeviceInv, TypeOK
  <2>2. CASE \E d \in DOMAIN reg : reg[d].ref = r
    BY <1>1, <2>1, <2>2 DEF Accounted
  <2>3. CASE ~\E d \in DOMAIN reg : reg[d].ref = r
    BY <2>3 DEF DeviceInv, LiveTokensAreListed, Accounted, RefOf
  <2> QED
    BY <2>2, <2>3
<1> QED
  BY <1>2, <1>3, <1>4 DEF DeviceInv

LEMMA SNextDevs ==
  ASSUME SNext
  PROVE  DOMAIN devs' \subseteq DOMAIN devs /\ \A d \in DOMAIN devs' : devs'[d] = devs[d]
<1>1. ASSUME NEW j \in Jobs, DeleteRow(j) \/ DeleteRows(j)
      PROVE  DOMAIN devs' \subseteq DOMAIN devs /\ \A d \in DOMAIN devs' : devs'[d] = devs[d]
  BY <1>1 DEF DeleteRow, DeleteRows, Removed
<1>2. ASSUME ~\E j \in Jobs : DeleteRow(j) \/ DeleteRows(j)
      PROVE  devs' = devs
  BY <1>2 DEF SNext, StartCreate, StartPrune, StartUse, StartList, StartWipe, Watch, Write,
       Conflict, RedisFails, Clear, PutRow, PostRow, RowFails, ListRows, ListCache,
       Corrupt, Tick, tables
<1> QED
  BY <1>1, <1>2

-----------------------------------------------------------------------------
(* The theorems.                                                           *)

AllInv == SessionInv /\ DeviceInv

LEMMA InitHolds == Init => AllInv /\ Table!Init
<1> SUFFICES ASSUME Init PROVE AllInv /\ Table!Init
  OBVIOUS
<1>1. SessionInv /\ Table!Init
  BY SessionInit, ShowsInit DEF Init
<1>2. DOMAIN devs = {} /\ DOMAIN reg = {}
  BY DEF Init, SInit, DInit, NoDevices
<1>3. TypeOK
  BY <1>1, <1>2, DeviceAssumption DEF Init, DInit, TypeOK, SessionInv
<1>4. TasksOK /\ DevicesAreLinked /\ GoneEndpointsReset /\ NoticesFollowMessages
      /\ CertificatesNameOwnDevice /\ LiveTokensAreListed
  BY <1>2 DEF Init, DInit, TasksOK, DevicesAreLinked, GoneEndpointsReset, Resets,
       NoticesFollowMessages, CertificatesNameOwnDevice, LiveTokensAreListed
<1> QED
  BY <1>1, <1>3, <1>4 DEF AllInv, DeviceInv

LEMMA NextHolds ==
  ASSUME AllInv, Next
  PROVE  AllInv' /\ TableStep
<1>1. CASE SessionStep
  <2>1. SessionInv' /\ TableStep
    BY <1>1, SessionStepKeeps, SessionStepShows DEF AllInv, SessionStep
  <2>2. DeviceInv'
    BY <1>1, <2>1, SNextDevs, OutsideKeeps DEF AllInv, SessionInv, DeviceInv, TypeOK,
         SessionStep, Services
  <2> QED
    BY <2>1, <2>2 DEF AllInv
<1>2. CASE DNext
  <2>1. SessionInv' /\ TableStep
    BY <1>2, DeviceStepKeeps DEF AllInv, DeviceInv
  <2>2. DeviceInv /\ STypeOK'
    BY <2>1 DEF AllInv, SessionInv
  <2>3. ASSUME NEW j \in Jobs,
               \/ \E s \in Ids : StartRegister(j, s) \/ StartSign(j, s)
               \/ \E r \in Refreshes : StartRefresh(j, r)
               \/ \E op \in TaskOps, d \in DOMAIN devs : StartOther(j, op, d)
        PROVE  DeviceInv'
    BY <2>2, <2>3, StartsGo
  <2>4. ASSUME NEW j \in Jobs, NEW r \in Refreshes, NEW s \in Ids \cup {None}, StartGrant(j, s, r)
        PROVE  DeviceInv'
    BY <2>2, <2>4, StartGrantKeeps
  <2>5. ASSUME NEW j \in Jobs, NEW d \in DeviceIds, Create(j, d) \/ Push(j, d)
        PROVE  DeviceInv'
    BY <2>2, <2>5, CreateKeeps, PushKeeps
  <2>6. ASSUME NEW j \in Jobs, Load(j) \/ CreateConflict(j) \/ Update(j) \/ Answer(j) \/ Name(j)
        PROVE  DeviceInv'
    BY <2>2, <2>6, LoadKeeps, CreateConflictKeeps, UpdateKeeps, AnswerKeeps, NameKeeps
  <2>7. ASSUME NEW j \in Jobs, Read(j) \/ StoreCommand(j) \/ Delete(j) \/ Deleted(j) \/ Revoke(j)
        PROVE  DeviceInv'
    BY <2>2, <2>7, ReadTaskKeeps, StoreCommandKeeps, DeleteKeeps, DeletedKeeps, RevokeKeeps
  <2>8. ASSUME NEW u \in Urls, Unsubscribe(u)
        PROVE  DeviceInv'
    <3>1. /\ dead' = dead \cup {u}
          /\ UNCHANGED <<devs, reg, live, box, task, held, lost, linked, certs, notices>>
      BY <2>8 DEF Unsubscribe, History, svars, tables
    <3>2. reg' = [d \in DOMAIN devs' |-> reg[d]] /\ dead' \subseteq Urls
      BY <2>2, <3>1 DEF DeviceInv, TypeOK
    <3> QED
      BY <2>2, <3>1, <3>2, OutsideKeeps
  <2> QED
    BY <1>2, <2>1, <2>3, <2>4, <2>5, <2>6, <2>7, <2>8 DEF AllInv, DNext
<1> QED
  BY <1>1, <1>2 DEF Next

LEMMA StutterHolds ==
  ASSUME AllInv, UNCHANGED vars
  PROVE  AllInv' /\ UNCHANGED Shows
<1>1. SessionInv'
  BY OthersKeep DEF AllInv, vars
<1>2. DeviceInv'
  BY DEF AllInv, vars, svars, tables, dvars, DeviceInv, TypeOK, STypeOK, TasksOK,
     DevicesAreLinked, GoneEndpointsReset, Resets, NoticesFollowMessages,
     CertificatesNameOwnDevice, LiveTokensAreListed
<1>3. UNCHANGED Shows
  BY DEF vars, svars, tables, Shows, Seen
<1> QED
  BY <1>1, <1>2, <1>3 DEF AllInv

\* What a request under way relies on holds in every state.
LEMMA AllInvHolds == Spec => []AllInv
<1>1. Init => AllInv
  BY InitHolds
<1>2. AllInv /\ [Next]_vars => AllInv'
  BY NextHolds, StutterHolds
<1> QED
  BY <1>1, <1>2, PTL DEF Spec

\* Every variable of Devices has its type: a device has one record in each
\* table, and a request about devices has only what it read or was given.
THEOREM TypesHold == Spec => []TypeOK
<1>1. AllInv => TypeOK
  BY DEF AllInv, DeviceInv
<1> QED
  BY <1>1, AllInvHolds, PTL

\* Whatever creates, uses, closes, prunes and lists sessions at the same time,
\* and whichever of their calls fail, Redis has no entry of a session that is
\* gone, or from before it was created, but for those that a failure or an
\* overlap left (db.js createSessionToken, touchSessionToken, deleteSessionToken,
\* deleteDevice, resetAccount).
THEOREM CacheFollows == Spec => []CacheFollowsTable
<1>1. AllInv => CacheFollowsTable
  BY DEF AllInv, SessionInv
<1> QED
  BY <1>1, AllInvHolds, PTL

\* MySQL and the value in Redis, which is read, computed and written by requests
\* that overlap, implement one table of sessions: an access through one session
\* never changes what is known of another, except that the cache may lapse.
THEOREM SessionsImplementTable == Spec => SessionsAreTable
<1>1. Init => Table!Init
  BY InitHolds
<1>2. AllInv /\ [Next]_vars => [Table!Next]_Shows
  BY NextHolds, StutterHolds DEF TableStep
<1> QED
  BY <1>1, <1>2, AllInvHolds, PTL DEF Spec, SessionsAreTable, Table!Spec, Shows

\* A record says that an endpoint is gone only if the push service gave it up,
\* and a device is told only of commands that wait for it (push.js sendPush).
THEOREM PushIsTrue == Spec => []PushTellsTheTruth
<1>1. AllInv => PushTellsTheTruth
  BY DEF AllInv, DeviceInv, PushTellsTheTruth
<1> QED
  BY <1>1, AllInvHolds, PTL

\* A step changes the endpoint of a device only as the update of a client that
\* gave the new one, or to flag the device.
LEMMA UrlStep ==
  ASSUME AllInv, AllInv', Next
  PROVE  \A d \in DOMAIN reg \cap DOMAIN reg' : reg'[d].url # reg[d].url =>
           \/ reg'[d].gone
           \/ \E j \in Jobs : At(j, "update") /\ task'[j] = None
                              /\ task[j].dev = d /\ task[j].url = reg'[d].url
<1>1. /\ DOMAIN reg = DOMAIN devs
      /\ \A d \in DOMAIN reg : reg[d] \in Regs
      /\ task \in [Jobs -> Tasks \cup {None}]
  BY DEF AllInv, DeviceInv, TypeOK
<1>2. CASE \A d \in DOMAIN reg \cap DOMAIN reg' : reg'[d] = reg[d]
  BY <1>2
<1>3. CASE SessionStep
  BY <1>2, <1>3 DEF SessionStep
<1>4. CASE UNCHANGED reg
  BY <1>2, <1>4
<1>5. ASSUME NEW j \in Jobs, NEW d \in DeviceIds, Create(j, d)
      PROVE  \A e \in DOMAIN reg \cap DOMAIN reg' : reg'[e] = reg[e]
  BY <1>1, <1>5 DEF Create
<1>6. ASSUME NEW j \in Jobs, Delete(j)
      PROVE  \A e \in DOMAIN reg \cap DOMAIN reg' : reg'[e] = reg[e]
  BY <1>6 DEF Delete
<1>7. ASSUME NEW j \in Jobs, Update(j), ~UNCHANGED reg,
             NEW d \in DOMAIN reg \cap DOMAIN reg', reg'[d].url # reg[d].url
      PROVE  At(j, "update") /\ task'[j] = None /\ task[j].dev = d /\ task[j].url = reg'[d].url
  <2> DEFINE t == task[j]
             new == Updated(reg[t.dev], t.ref, t.url, FALSE)
  <2>1. At(j, "update") /\ Finish(j) /\ reg' = [reg EXCEPT ![t.dev] = new]
    BY <1>7 DEF Update
  <2>2. task'[j] = None
    BY <1>1, <2>1 DEF Finish
  <2>3. t.dev = d /\ reg'[d] = new
    BY <1>7, <2>1
  <2>4. t.url # None => new.url = t.url
    BY DEF Updated
  <2>5. t.url = None => new.url = reg[t.dev].url
    BY DEF Updated
  <2> QED
    BY <1>7, <2>1, <2>2, <2>3, <2>4, <2>5
<1>8. ASSUME NEW j \in Jobs, NEW d \in DeviceIds, Push(j, d), ~UNCHANGED reg,
             NEW e \in DOMAIN reg \cap DOMAIN reg', reg'[e].url # reg[e].url
      PROVE  reg'[e].gone
  <2> DEFINE new == Flagged(reg[d], task[j].batch[d])
  <2>1. reg' = [reg EXCEPT ![d] = new]
    BY <1>8 DEF Push
  <2>2. new.gone
    BY DEF Flagged, Updated
  <2> QED
    BY <1>8, <2>1, <2>2
<1>9. CASE DNext
  <2>1. \/ UNCHANGED reg
        \/ \E j \in Jobs : Update(j) \/ Delete(j) \/ \E d \in DeviceIds : Create(j, d) \/ Push(j, d)
    <3>1. ASSUME NEW j \in Jobs, Load(j) \/ CreateConflict(j) \/ Answer(j) \/ Name(j)
                                 \/ Read(j) \/ StoreCommand(j) \/ Deleted(j) \/ Revoke(j)
          PROVE  UNCHANGED reg
      BY <3>1 DEF Load, CreateConflict, Answer, Name, Read, StoreCommand, Deleted, Revoke
    <3>2. ASSUME NEW j \in Jobs,
                 \/ \E s \in Ids : StartRegister(j, s) \/ StartSign(j, s)
                 \/ \E r \in Refreshes : StartRefresh(j, r)
                                         \/ \E s \in Ids \cup {None} : StartGrant(j, s, r)
                 \/ \E op \in TaskOps, d \in DOMAIN devs : StartOther(j, op, d)
          PROVE  UNCHANGED reg
      BY <3>2 DEF StartRegister, StartSign, StartRefresh, StartGrant, StartOther
    <3>3. ASSUME NEW u \in Urls, Unsubscribe(u)
          PROVE  UNCHANGED reg
      BY <3>3 DEF Unsubscribe
    <3> QED
      BY <1>9, <3>1, <3>2, <3>3 DEF DNext
  <2> QED
    BY <1>2, <1>4, <1>5, <1>6, <1>7, <1>8, <2>1
<1> QED
  BY <1>3, <1>9 DEF Next

\* A device loses the endpoint that it just gave only to a push that flags it,
\* so that its client finds out and gives it again (push.js sendPush).
THEOREM OverwritesFlag == Spec => OverwrittenAreFlagged
<1> DEFINE Step == \A d \in DOMAIN reg \cap DOMAIN reg' : reg'[d].url # reg[d].url =>
             \/ reg'[d].gone
             \/ \E j \in Jobs : At(j, "update") /\ task'[j] = None
                                /\ task[j].dev = d /\ task[j].url = reg'[d].url
<1>1. AllInv /\ AllInv' /\ [Next]_vars => [Step]_vars
  BY UrlStep
<1>2. OverwrittenAreFlagged <=> [][Step]_vars
  BY DEF OverwrittenAreFlagged
<1> HIDE DEF Step
<1> QED
  BY <1>1, <1>2, AllInvHolds, PTL DEF Spec

\* A certificate names no device but one of its session (sign.js).
THEOREM CertificatesAreOwn == Spec => []CertificatesNameOwnDevice
<1>1. AllInv => CertificatesNameOwnDevice
  BY DEF AllInv, DeviceInv
<1> QED
  BY <1>1, AllInvHolds, PTL

\* A refresh token that a client holds and that works is shown as a device, or
\* about to be revoked, or was lost in one of the ways the model lists
\* (devices-and-sessions.js destroy, utils/oauth.js newTokenNotification).
THEOREM TokensAreListed == Spec => []LiveTokensAreListed
<1>1. AllInv => LiveTokensAreListed
  BY DEF AllInv, DeviceInv
<1> QED
  BY <1>1, AllInvHolds, PTL
=============================================================================
