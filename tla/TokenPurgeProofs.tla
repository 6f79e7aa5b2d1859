--------------------------- MODULE TokenPurgeProofs ---------------------------
(***************************************************************************)
(* That purging by id skips no expired token, for any number of tokens,    *)
(* runs of the script, batch sizes and lost locks; that the counters of    *)
(* the script are counters; and that a refused token stays refused.        *)
(***************************************************************************)
EXTENDS TokenPurge, FiniteSetTheorems, TLAPS

\* No row to be purged is left behind time T, other than those in S.
ClearedUntil(T, S) ==
  \A t \in tokens : t.expiresAt < T => t.client \in EverIgnored \/ t \in S

\* The types that the argument needs: all but those of the counters.
Types ==
  /\ now \in Nat
  /\ tokens \subseteq Rows
  /\ lastPurgeTime \in Nat
  /\ issued \in Nat
  /\ pc \in [Purgers -> {"idle", "select", "delete", "replace"}]
  /\ chosen \in [Purgers -> SUBSET Rows]
  /\ last \in [Purgers -> Nat]

\* What is known while p runs, of its `last` and of the rows it has chosen.
RunInv(p) ==
  /\ last[p] <= now
  /\ pc[p] \in {"select", "replace"} => ClearedUntil(last[p], {})
  /\ p \in ById /\ pc[p] = "delete" =>
       /\ ClearedUntil(last[p], chosen[p])
       /\ \A t \in chosen[p] : t.expiresAt <= now /\ t.client \notin Ignored[p]

\* Why NothingSkipped holds: a run moves its `last` only over rows that it has
\* chosen, stores it only after their DELETE, and no `last` is ahead of the
\* clock, so that no token is issued behind it.
PurgeInv ==
  /\ Types
  /\ lastPurgeTime <= now
  /\ ClearedUntil(lastPurgeTime, {})
  /\ \A p \in Purgers : RunInv(p)

LEMMA InitPurge == Init => PurgeInv
<1> SUFFICES ASSUME Init PROVE PurgeInv
  OBVIOUS
<1>1. Types
  BY DEF Init, Types
<1>2. \A p \in Purgers : RunInv(p)
  BY DEF Init, RunInv
<1> QED
  BY <1>1, <1>2 DEF Init, PurgeInv, ClearedUntil

\* Rows that go, a clock that advances, and another run leave a run alone.
LEMMA Bystander ==
  ASSUME PurgeInv, Types', tokens' \subseteq tokens, now' \in {now, now + 1},
         NEW p \in Purgers,
         pc'[p] = pc[p], last'[p] = last[p], chosen'[p] = chosen[p]
  PROVE  RunInv(p)'
<1>1. now' >= now /\ last[p] <= now /\ last[p] \in Nat
  BY DEF PurgeInv, RunInv, Types
<1>2. last'[p] <= now'
  BY <1>1 DEF Types
<1>3. RunInv(p)
  BY DEF PurgeInv
<1>4. \A T, S : ClearedUntil(T, S) => ClearedUntil(T, S)'
  BY DEF ClearedUntil
<1>5. pc[p] \in {"select", "replace"} => ClearedUntil(last[p], {})'
  BY <1>3, <1>4 DEF RunInv
<1>6. p \in ById /\ pc[p] = "delete" => ClearedUntil(last[p], chosen[p])'
  BY <1>3, <1>4 DEF RunInv
<1>7. p \in ById /\ pc[p] = "delete" =>
        \A t \in chosen[p] : t.expiresAt <= now' /\ t.client \notin Ignored[p]
  BY <1>1, <1>3 DEF RunInv, PurgeInv, Types, Rows
<1> QED
  BY <1>2, <1>5, <1>6, <1>7 DEF RunInv

\* A run that has ended makes no claim but that its `last` is not ahead.
LEMMA Ended ==
  ASSUME PurgeInv, Types', NEW p \in Purgers, Exit(p), last'[p] <= now'
  PROVE  RunInv(p)'
BY DEF Exit, PurgeInv, RunInv, Types

LEMMA ExitTypes ==
  ASSUME Types, NEW p \in Purgers, Exit(p)
  PROVE  /\ pc' \in [Purgers -> {"idle", "select", "delete", "replace"}]
         /\ chosen' \in [Purgers -> SUBSET Rows]
         /\ \A q \in Purgers \ {p} : pc'[q] = pc[q] /\ chosen'[q] = chosen[q]
BY DEF Exit, Types

LEMMA PurgeStep ==
  ASSUME PurgeInv, [Next]_vars
  PROVE  PurgeInv'
<1> USE PurgeAssumption
<1>0. Types
  BY DEF PurgeInv
<1>1. CASE UNCHANGED vars
  BY <1>1 DEF vars, PurgeInv, RunInv, Types, ClearedUntil
<1>2. CASE Tick \/ LoseLock \/ \E t \in tokens : Destroy(t)
  <2>1. /\ tokens' \subseteq tokens
        /\ now' \in {now, now + 1}
        /\ UNCHANGED <<lastPurgeTime, issued, pc, last, chosen>>
    BY <1>2 DEF Tick, LoseLock, Destroy
  <2>2. Types'
    BY <1>0, <2>1 DEF Types
  <2>3. \A p \in Purgers : RunInv(p)'
    BY <2>1, <2>2, Bystander
  <2> QED
    BY <2>1, <2>2, <2>3 DEF PurgeInv, ClearedUntil, Types
<1>3. ASSUME NEW c \in Clients, NEW ttl \in Lifetimes, Issue(c, ttl)
      PROVE  PurgeInv'
  <2>1. now + ttl \in Nat /\ now + ttl >= now
    BY <1>0 DEF Types
  <2>2. Types'
    BY <1>0, <1>3, <2>1 DEF Issue, Types, Rows
  <2>3. \A t \in tokens' : t \in tokens \/ t.expiresAt >= now
    BY <1>3, <2>1 DEF Issue
  <2>4. \A T \in Nat : \A S : T <= now /\ ClearedUntil(T, S) => ClearedUntil(T, S)'
    BY <1>0, <1>3, <2>2, <2>3 DEF Issue, ClearedUntil, Types, Rows
  <2>5. ASSUME NEW p \in Purgers PROVE RunInv(p)'
    BY <1>0, <1>3, <2>4 DEF Issue, PurgeInv, RunInv, Types
  <2>6. ClearedUntil(lastPurgeTime, {})'
    BY <1>0, <1>3, <2>4 DEF Issue, PurgeInv, Types
  <2> QED
    BY <1>3, <2>2, <2>5, <2>6 DEF Issue, PurgeInv
<1>4. ASSUME NEW p \in Purgers, Start(p)
      PROVE  PurgeInv'
  <2>1. Types'
    BY <1>0, <1>4 DEF Start, Types
  <2>2. ASSUME NEW q \in Purgers, q # p PROVE RunInv(q)'
    BY <1>0, <1>4, <2>1, <2>2, Bystander DEF Start, Types
  <2>3. RunInv(p)'
    BY <1>0, <1>4 DEF Start, PurgeInv, RunInv, Types, ClearedUntil
  <2> QED
    BY <1>4, <2>1, <2>2, <2>3 DEF Start, PurgeInv, ClearedUntil
<1>5. ASSUME NEW p \in Purgers, DeleteExpired(p) \/ Crash(p)
      PROVE  PurgeInv'
  <2>1. /\ tokens' \subseteq tokens
        /\ UNCHANGED <<now, lastPurgeTime, last, issued>>
        /\ Exit(p) \/ UNCHANGED <<pc, chosen>>
    BY <1>5 DEF DeleteExpired, Crash
  <2>2. Types'
    BY <1>0, <2>1, ExitTypes DEF Types
  <2>3. ASSUME NEW q \in Purgers PROVE RunInv(q)'
    <3>1. CASE UNCHANGED <<pc, chosen>> \/ q # p
      BY <1>0, <2>1, <2>2, <3>1, Bystander, ExitTypes
    <3>2. CASE Exit(p) /\ q = p
      BY <2>1, <2>2, <3>2, Ended DEF PurgeInv, RunInv
    <3> QED
      BY <2>1, <3>1, <3>2
  <2> QED
    BY <2>1, <2>2, <2>3 DEF PurgeInv, ClearedUntil
<1>6. ASSUME NEW p \in Purgers, SelectById(p)
      PROVE  PurgeInv'
  <2> DEFINE C(b) == {t \in b : t.client \notin Ignored[p]}
  <2>1. PICK b \in Oldest(p) : \E l \in {last[p]} \cup {t.expiresAt : t \in b} :
          /\ \A t \in b : t.expiresAt <= l
          /\ last' = [last EXCEPT ![p] = l]
          /\ IF C(b) = {}
             THEN Exit(p)
             ELSE /\ pc' = [pc EXCEPT ![p] = "delete"]
                  /\ chosen' = [chosen EXCEPT ![p] = C(b)]
    BY <1>6, Zenon DEF SelectById
  <2>8. PICK l \in {last[p]} \cup {t.expiresAt : t \in b} :
          /\ \A t \in b : t.expiresAt <= l
          /\ last' = [last EXCEPT ![p] = l]
          /\ IF C(b) = {}
             THEN Exit(p)
             ELSE /\ pc' = [pc EXCEPT ![p] = "delete"]
                  /\ chosen' = [chosen EXCEPT ![p] = C(b)]
    BY <2>1
  <2>2. UNCHANGED <<now, tokens, issued, lastPurgeTime>>
    BY <1>6 DEF SelectById
  <2> DEFINE expired == {t \in tokens : last[p] <= t.expiresAt /\ t.expiresAt <= now}
  <2>3. /\ b \subseteq expired
        /\ \A s \in b, t \in expired \ b : s.expiresAt <= t.expiresAt
    BY DEF Oldest, Limited
  <2>4. l \in Nat /\ last[p] <= now /\ l <= now
    BY <1>0, <2>3 DEF PurgeInv, RunInv, Types, Rows
  <2>5. Types'
    <3>1. C(b) \in SUBSET Rows
      BY <1>0, <2>3 DEF Types
    <3> HIDE DEF C
    <3>2. CASE Exit(p)
      BY <1>0, <2>8, <2>2, <2>4, <3>2, ExitTypes DEF Types
    <3>3. CASE ~Exit(p)
      BY <1>0, <2>8, <2>2, <2>4, <3>1, <3>3 DEF Types
    <3> QED
      BY <3>2, <3>3
  <2>6. ASSUME NEW q \in Purgers, q # p PROVE RunInv(q)'
    <3>1. pc'[q] = pc[q] /\ last'[q] = last[q] /\ chosen'[q] = chosen[q]
      BY <1>0, <2>8, <2>6, ExitTypes DEF Types
    <3> QED
      BY <2>2, <2>5, <3>1, Bystander
  <2>7. RunInv(p)'
    <3>1. last'[p] = l
      BY <1>0, <2>8 DEF Types
    <3>2. CASE Exit(p)
      BY <2>2, <2>4, <2>5, <3>1, <3>2, Ended
    <3>3. CASE ~Exit(p)
      <4>1. pc'[p] = "delete" /\ chosen'[p] = C(b)
        BY <1>0, <2>8, <3>3 DEF Types
      <4>2. ClearedUntil(last[p], {})
        BY <1>6 DEF SelectById, PurgeInv, RunInv
      <4>3. ASSUME NEW t \in tokens, t.expiresAt < l, t.client \notin EverIgnored
            PROVE  t \in C(b)
        <5>1. t.expiresAt \in Nat /\ t.expiresAt >= last[p] /\ t.expiresAt <= now
          BY <1>0, <2>4, <4>2, <4>3 DEF ClearedUntil, Types, Rows
        <5>2. t \in expired
          BY <5>1
        <5>3. t \in b
          BY <1>0, <2>3, <2>4, <4>3, <5>1, <5>2 DEF Types, Rows
        <5>4. t.client \notin Ignored[p]
          BY <4>3 DEF EverIgnored
        <5> QED
          BY <5>3, <5>4
      <4>4. \A t \in C(b) : t.expiresAt <= now /\ t.client \notin Ignored[p]
        BY <2>3
      <4> HIDE DEF C
      <4> QED
        BY <2>2, <2>4, <3>1, <4>1, <4>3, <4>4 DEF RunInv, ClearedUntil
    <3> QED
      BY <3>2, <3>3
  <2> QED
    BY <2>2, <2>5, <2>6, <2>7 DEF PurgeInv, ClearedUntil
<1>7. ASSUME NEW p \in Purgers, DeleteById(p)
      PROVE  PurgeInv'
  <2> DEFINE affected == {t \in chosen[p] \cap tokens :
                            t.client \notin Ignored[p] /\ t.expiresAt <= now}
  <2>1. /\ tokens' = tokens \ affected
        /\ UNCHANGED <<now, lastPurgeTime, last, issued>>
        /\ \/ affected = {} /\ Exit(p)
           \/ /\ affected # {}
              /\ pc' = [pc EXCEPT ![p] = "replace"]
              /\ chosen' = [chosen EXCEPT ![p] = {}]
        /\ p \in ById /\ pc[p] = "delete"
    BY <1>7 DEF DeleteById
  <2>2. Types'
    <3>1. CASE Exit(p)
      BY <1>0, <2>1, <3>1, ExitTypes DEF Types
    <3>2. CASE ~Exit(p)
      BY <1>0, <2>1, <3>2 DEF Types
    <3> QED
      BY <3>1, <3>2
  <2>3. ASSUME NEW q \in Purgers, q # p PROVE RunInv(q)'
    <3>1. pc'[q] = pc[q] /\ last'[q] = last[q] /\ chosen'[q] = chosen[q]
      BY <1>0, <2>1, <2>3, ExitTypes DEF Types
    <3> QED
      BY <2>1, <2>2, <3>1, Bystander
  <2>4. RunInv(p)'
    <3>1. CASE Exit(p)
      BY <2>1, <2>2, <3>1, Ended DEF PurgeInv, RunInv
    <3>2. CASE ~Exit(p)
      <4>1. pc'[p] = "replace"
        BY <1>0, <2>1, <3>2 DEF Types
      <4>2. ClearedUntil(last[p], chosen[p])
        BY <2>1 DEF PurgeInv, RunInv
      <4>3. \A t \in chosen[p] : t \notin tokens'
        BY <2>1 DEF PurgeInv, RunInv
      <4>4. ClearedUntil(last[p], {})'
        BY <2>1, <4>2, <4>3 DEF ClearedUntil
      <4> QED
        BY <2>1, <4>1, <4>4 DEF PurgeInv, RunInv
    <3> QED
      BY <3>1, <3>2
  <2> QED
    BY <2>1, <2>2, <2>3, <2>4 DEF PurgeInv, ClearedUntil
<1>8. ASSUME NEW p \in Purgers, ReplaceLastPurgeTime(p)
      PROVE  PurgeInv'
  <2>1. /\ pc[p] = "replace"
        /\ lastPurgeTime' = last[p]
        /\ Exit(p) \/ (pc' = [pc EXCEPT ![p] = "select"] /\ UNCHANGED chosen)
        /\ UNCHANGED <<now, tokens, issued, last>>
    BY <1>8 DEF ReplaceLastPurgeTime
  <2>2. last[p] <= now /\ ClearedUntil(last[p], {})
    BY <2>1 DEF PurgeInv, RunInv
  <2>3. Types'
    <3>1. CASE Exit(p)
      BY <1>0, <2>1, <3>1, ExitTypes DEF Types
    <3>2. CASE ~Exit(p)
      BY <1>0, <2>1, <3>2 DEF Types
    <3> QED
      BY <3>1, <3>2
  <2>4. ASSUME NEW q \in Purgers, q # p PROVE RunInv(q)'
    <3>1. pc'[q] = pc[q] /\ last'[q] = last[q] /\ chosen'[q] = chosen[q]
      BY <1>0, <2>1, <2>4, ExitTypes DEF Types
    <3> QED
      BY <2>1, <2>3, <3>1, Bystander
  <2>5. RunInv(p)'
    <3>1. CASE Exit(p)
      BY <2>1, <2>2, <2>3, <3>1, Ended
    <3>2. CASE ~Exit(p)
      BY <1>0, <2>1, <2>2, <3>2 DEF RunInv, ClearedUntil, Types
    <3> QED
      BY <3>1, <3>2
  <2> QED
    BY <2>1, <2>2, <2>3, <2>4, <2>5 DEF PurgeInv, ClearedUntil
<1> QED
  BY <1>1, <1>2, <1>3, <1>4, <1>5, <1>6, <1>7, <1>8 DEF Next, Purge

\* However many runs of the script overlap, crash, lose their lock or race with
\* requests: no expired token that was to be purged is left behind
\* last-purge-time, where purgeExpiredTokensById would never look again.
THEOREM PurgeSkipsNothing == Spec => []NothingSkipped
<1>1. Init => PurgeInv
  BY InitPurge
<1>2. PurgeInv /\ [Next]_vars => PurgeInv'
  BY PurgeStep
<1>3. PurgeInv => NothingSkipped
  BY DEF PurgeInv, ClearedUntil, NothingSkipped
<1> QED
  BY <1>1, <1>2, <1>3, PTL DEF Spec

-----------------------------------------------------------------------------
(* Types.  That deletedItems is a number rests on the table being finite.  *)

TypeInv == TypeOK /\ PurgeInv /\ IsFiniteSet(tokens) /\ \A p \in Purgers : IsFiniteSet(chosen[p])

LEMMA InitTyped == Init => TypeInv
<1> SUFFICES ASSUME Init PROVE TypeInv
  OBVIOUS
<1>1. TypeOK
  BY DEF Init, TypeOK
<1> QED
  BY <1>1, InitPurge, FS_EmptySet DEF Init, TypeInv

LEMMA ExitIsTyped ==
  ASSUME TypeInv, NEW p \in Purgers, Exit(p)
  PROVE  /\ lock' \in Purgers \cup {None}
         /\ \A q \in Purgers : IsFiniteSet(chosen'[q])
<1>1. lock' \in Purgers \cup {None}
  BY DEF Exit, TypeInv, TypeOK
<1>2. \A q \in Purgers : chosen'[q] \in {chosen[q], {}}
  BY DEF Exit, TypeInv, TypeOK
<1> QED
  BY <1>1, <1>2, FS_EmptySet DEF TypeInv

\* What a DELETE adds to deletedItems.
LEMMA CountIsTyped ==
  ASSUME TypeInv, NEW p \in Purgers, NEW b, b \subseteq tokens,
         deleted' = [deleted EXCEPT ![p] = @ + Cardinality(b)]
  PROVE  deleted' \in [Purgers -> Nat]
<1>1. Cardinality(b) \in Nat
  BY FS_Subset, FS_CardinalityType DEF TypeInv
<1> QED
  BY <1>1 DEF TypeInv, TypeOK

LEMMA TypeStep ==
  ASSUME TypeInv, [Next]_vars
  PROVE  TypeInv'
<1> USE PurgeAssumption
<1>1. PurgeInv'
  BY PurgeStep DEF TypeInv
<1>2. Types'
  BY <1>1 DEF PurgeInv
<1> SUFFICES /\ lock' \in Purgers \cup {None}
             /\ deleted' \in [Purgers -> Nat]
             /\ crashes' \in Nat
             /\ IsFiniteSet(tokens')
             /\ \A p \in Purgers : IsFiniteSet(chosen'[p])
  BY <1>1, <1>2 DEF TypeInv, TypeOK, Types
<1>3. CASE UNCHANGED vars
  BY <1>3 DEF vars, TypeInv, TypeOK
<1>4. CASE Tick \/ LoseLock \/ \E t \in tokens : Destroy(t)
  <2>1. IsFiniteSet(tokens')
    <3>1. tokens' \subseteq tokens
      BY <1>4 DEF Tick, LoseLock, Destroy
    <3> QED
      BY <3>1, FS_Subset DEF TypeInv
  <2> QED
    BY <1>4, <2>1 DEF Tick, LoseLock, Destroy, TypeInv, TypeOK
<1>5. ASSUME NEW c \in Clients, NEW ttl \in Lifetimes, Issue(c, ttl)
      PROVE  /\ IsFiniteSet(tokens')
             /\ UNCHANGED <<lock, deleted, crashes, chosen>>
  BY <1>5, FS_AddElement DEF Issue, TypeInv
<1>6. ASSUME NEW p \in Purgers, Start(p)
      PROVE  /\ lock' = p /\ deleted' \in [Purgers -> Nat]
             /\ UNCHANGED <<tokens, chosen, crashes>>
  BY <1>6 DEF Start, TypeInv, TypeOK
<1>7. ASSUME NEW p \in Purgers, DeleteExpired(p) \/ DeleteById(p)
      PROVE  /\ lock' \in Purgers \cup {None}
             /\ deleted' \in [Purgers -> Nat]
             /\ UNCHANGED crashes
             /\ IsFiniteSet(tokens')
             /\ \A q \in Purgers : IsFiniteSet(chosen'[q])
  <2>1. PICK b : /\ b \subseteq tokens
                 /\ tokens' = tokens \ b
                 /\ deleted' = [deleted EXCEPT ![p] = @ + Cardinality(b)]
    BY <1>7 DEF DeleteExpired, DeleteById, Limited
  <2>2. deleted' \in [Purgers -> Nat]
    BY <2>1, CountIsTyped
  <2>3. IsFiniteSet(tokens')
    <3>1. tokens' \subseteq tokens
      BY <2>1
    <3> QED
      BY <3>1, FS_Subset DEF TypeInv
  <2>4. \/ Exit(p)
        \/ UNCHANGED <<chosen, lock>>
        \/ chosen' = [chosen EXCEPT ![p] = {}] /\ UNCHANGED lock
    BY <1>7 DEF DeleteExpired, DeleteById
  <2>5. CASE Exit(p)
    BY <1>7, <2>2, <2>3, <2>5, ExitIsTyped DEF DeleteExpired, DeleteById
  <2>6. CASE ~Exit(p)
    <3>1. lock' = lock /\ \A q \in Purgers : chosen'[q] \in {chosen[q], {}}
      BY <2>4, <2>6 DEF TypeInv, TypeOK
    <3> QED
      BY <1>7, <2>2, <2>3, <3>1, FS_EmptySet DEF DeleteExpired, DeleteById, TypeInv, TypeOK
  <2> QED
    BY <2>5, <2>6
<1>8. ASSUME NEW p \in Purgers, SelectById(p)
      PROVE  /\ lock' \in Purgers \cup {None}
             /\ UNCHANGED <<deleted, crashes, tokens>>
             /\ \A q \in Purgers : IsFiniteSet(chosen'[q])
  <2>1. \/ Exit(p)
        \/ /\ lock' = lock
           /\ \E c \in SUBSET tokens : chosen' = [chosen EXCEPT ![p] = c]
    <3>1. PICK b \in Oldest(p) :
            \/ Exit(p)
            \/ /\ lock' = lock
               /\ chosen' = [chosen EXCEPT ![p] = {t \in b : t.client \notin Ignored[p]}]
      BY <1>8 DEF SelectById
    <3>2. b \subseteq tokens
      BY DEF Oldest, Limited
    <3> QED
      BY <3>1, <3>2
  <2>2. UNCHANGED <<deleted, crashes, tokens>>
    BY <1>8 DEF SelectById
  <2>3. CASE Exit(p)
    BY <2>2, <2>3, ExitIsTyped
  <2>4. CASE ~Exit(p)
    <3> PICK c \in SUBSET tokens : chosen' = [chosen EXCEPT ![p] = c]
      BY <2>1, <2>4
    <3>1. IsFiniteSet(c)
      BY FS_Subset DEF TypeInv
    <3>2. \A q \in Purgers : chosen'[q] \in {chosen[q], c}
      BY DEF TypeInv, TypeOK
    <3> QED
      BY <2>1, <2>2, <2>4, <3>1, <3>2 DEF TypeInv, TypeOK
  <2> QED
    BY <2>3, <2>4
<1>9. ASSUME NEW p \in Purgers, ReplaceLastPurgeTime(p) \/ Crash(p)
      PROVE  /\ lock' \in Purgers \cup {None}
             /\ crashes' \in Nat
             /\ UNCHANGED <<deleted, tokens>>
             /\ \A q \in Purgers : IsFiniteSet(chosen'[q])
  <2>1. /\ Exit(p) \/ UNCHANGED <<chosen, lock>>
        /\ UNCHANGED <<deleted, tokens>>
        /\ crashes' \in Nat
    BY <1>9 DEF ReplaceLastPurgeTime, Crash, TypeInv, TypeOK
  <2> QED
    BY <2>1, ExitIsTyped DEF TypeInv, TypeOK
<1> QED
  BY <1>3, <1>4, <1>5, <1>6, <1>7, <1>8, <1>9 DEF Next, Purge, TypeInv, TypeOK

\* The clock, the ids and what a run of the script counts and chooses stay what
\* they are meant to be, in particular deletedItems a number: the number of
\* rows a DELETE affects.
THEOREM PurgeTypes == Spec => []TypeOK
<1>1. Init => TypeInv
  BY InitTyped
<1>2. TypeInv /\ [Next]_vars => TypeInv'
  BY TypeStep
<1>3. TypeInv => TypeOK
  BY DEF TypeInv
<1> QED
  BY <1>1, <1>2, <1>3, PTL DEF Spec

-----------------------------------------------------------------------------
(* What token.verify says over time.                                       *)

\* The clock does not go back, and new rows have new ids.
LEMMA VerdictStep ==
  ASSUME TypeInv, [Next]_vars, NEW t \in tokens', t.id \in 1..issued
  PROVE  t \in tokens /\ now' \in {now, now + 1}
<1>1. ASSUME NEW c \in Clients, NEW ttl \in Lifetimes, Issue(c, ttl)
      PROVE  t \in tokens /\ now' = now
  BY <1>1 DEF Issue, TypeInv, TypeOK
<1>2. ASSUME NEW p \in Purgers, Start(p) \/ Purge(p) \/ Crash(p)
      PROVE  t \in tokens /\ now' = now
  BY <1>2 DEF Start, Purge, Crash, DeleteExpired, SelectById, DeleteById, ReplaceLastPurgeTime
<1>3. CASE Tick \/ LoseLock \/ (\E u \in tokens : Destroy(u)) \/ UNCHANGED vars
  BY <1>3 DEF Tick, LoseLock, Destroy, vars
<1> QED
  BY <1>1, <1>2, <1>3 DEF Next

\* Once the server has refused a token, for being expired or for being gone, it
\* never accepts it again, whatever the expiry epoch is and whoever purges.
THEOREM RefusalIsFinal == Spec => RefusedForGood
<1>1. Init => TypeInv
  BY InitTyped
<1>2. TypeInv /\ [Next]_vars => TypeInv'
  BY TypeStep
<1>3. TypeInv /\ [Next]_vars => [\A i \in 1..issued : i \in Accepted' => i \in Accepted]_vars
  <2> SUFFICES ASSUME TypeInv, [Next]_vars, NEW i \in 1..issued, i \in Accepted'
               PROVE  i \in Accepted
    OBVIOUS
  <2>1. PICK t \in tokens' : Verify(t)' /\ t.id = i
    BY DEF Accepted
  <2>2. t \in tokens /\ now' \in {now, now + 1}
    BY <2>1, VerdictStep
  <2>3. t.expiresAt \in Nat /\ now \in Nat
    BY <2>2 DEF TypeInv, TypeOK, Rows
  <2>4. Verify(t)
    BY <2>1, <2>2, <2>3 DEF Verify
  <2> QED
    BY <2>1, <2>2, <2>4 DEF Accepted
<1> QED
  BY <1>1, <1>2, <1>3, PTL DEF Spec, RefusedForGood
=============================================================================
