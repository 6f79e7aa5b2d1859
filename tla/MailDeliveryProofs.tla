------------------------- MODULE MailDeliveryProofs -------------------------
(***************************************************************************)
(* Theorems about MailDelivery.  That the loop of applyRules gates just    *)
(* those with too many bounces is arithmetic: it rests on the order in     *)
(* which the bounces are read, latest first, and on counting the elements  *)
(* of a set of numbers up to its nth.  The rest follows a mail from the    *)
(* check of its recipients to the services, and a notification from the    *)
(* queue to the table.                                                     *)
(***************************************************************************)
EXTENDS MailDelivery, FiniteSetTheorems, TLAPS

-----------------------------------------------------------------------------
(* The rules.                                                              *)

\* Every set of numbers has a smallest one.
LEMMA Smallest ==
  ASSUME NEW S, S \subseteq Nat, S # {}
  PROVE  \E k \in S : \A j \in S : k <= j
<1> DEFINE T == {1..j : j \in S}
<1>1. IsWellFoundedOn(StrictSubsetOrdering(Nat), FiniteSubsetsOf(Nat))
  BY FS_StrictSubsetOrderingWellFounded
<1>2. T \subseteq FiniteSubsetsOf(Nat) /\ T # {}
  <2>1. ASSUME NEW j \in S PROVE 1..j \in FiniteSubsetsOf(Nat)
    <3>1. j \in Nat /\ 1..j \subseteq Nat
      OBVIOUS
    <3> QED
      BY <3>1, FS_Interval DEF FiniteSubsetsOf
  <2> QED
    BY <2>1
<1>3. PICK U \in T : \A V \in T : <<V, U>> \notin StrictSubsetOrdering(Nat)
  BY <1>1, <1>2, WFMin
<1>4. PICK k \in S : U = 1..k
  OBVIOUS
<1>5. ASSUME NEW j \in S, j < k PROVE FALSE
  <2>1. 1..j \subseteq 1..k /\ k \in 1..k /\ k \notin 1..j
    BY <1>5
  <2>2. <<1..j, 1..k>> \in StrictSubsetOrdering(Nat)
    BY <2>1 DEF StrictSubsetOrdering
  <2> QED
    BY <1>3, <1>4, <2>2
<1> QED
  BY <1>5

\* A set of n numbers or more has an nth, with n - 1 of them below it.
LEMMA NthElement ==
  ASSUME NEW m \in Nat, NEW S, S \subseteq 1..m,
         NEW n \in Nat, n >= 1, Cardinality(S) >= n
  PROVE  \E k \in S : Cardinality({j \in S : j < k}) = n - 1
<1> DEFINE Upto(k) == {j \in S : j <= k}
           count == [k \in Nat |-> Cardinality(Upto(k))]
           Enough == {k \in Nat : count[k] >= n}
<1>1. \A j \in S : j \in Nat /\ 1 <= j /\ j <= m
  OBVIOUS
<1>2. ASSUME NEW k \in Nat PROVE IsFiniteSet(Upto(k)) /\ Cardinality(Upto(k)) \in Nat
  <2>1. Upto(k) \subseteq 1..m
    BY <1>1
  <2>2. IsFiniteSet(1..m)
    BY FS_Interval
  <2> QED
    BY <2>1, <2>2, FS_Subset, FS_CardinalityType
<1>3. count \in [Nat -> Nat]
  BY <1>2
<1>4. count[m] >= n
  <2>1. Upto(m) = S
    BY <1>1
  <2> QED
    BY <2>1
<1>5. count[0] = 0
  <2>1. \A j \in S : ~ (j <= 0)
    BY <1>1
  <2>2. Upto(0) = {}
    BY <2>1
  <2> QED
    BY <2>2, FS_EmptySet
<1>6. ASSUME NEW k \in Nat PROVE count[k + 1] = IF k + 1 \in S THEN count[k] + 1 ELSE count[k]
  <2>1. \A j \in S : j <= k + 1 <=> j <= k \/ j = k + 1
    BY <1>1
  <2>2. k + 1 \notin Upto(k) /\ k + 1 \in Nat
    OBVIOUS
  <2>3. CASE k + 1 \in S
    <3>1. Upto(k + 1) = Upto(k) \cup {k + 1}
      BY <2>1, <2>3
    <3>2. Cardinality(Upto(k + 1)) = Cardinality(Upto(k)) + 1
      BY <1>2, <2>2, <3>1, FS_AddElement
    <3> QED
      BY <2>2, <2>3, <3>2
  <2>4. CASE k + 1 \notin S
    <3>1. Upto(k + 1) = Upto(k)
      BY <2>1, <2>4
    <3> QED
      BY <2>2, <2>4, <3>1
  <2> QED
    BY <2>3, <2>4
<1>7. ASSUME NEW k \in Nat PROVE Cardinality({j \in S : j < k + 1}) = count[k]
  <2>1. \A j \in S : j < k + 1 <=> j <= k
    BY <1>1
  <2>2. {j \in S : j < k + 1} = Upto(k)
    BY <2>1
  <2> QED
    BY <2>2
<1> HIDE DEF count
<1>8. PICK k \in Nat : count[k] >= n /\ \A j \in Nat : count[j] >= n => k <= j
  <2>1. Enough \subseteq Nat /\ Enough # {}
    BY <1>4
  <2> QED
    BY <2>1, Smallest
<1>9. PICK p \in Nat : k = p + 1
  <2>1. k # 0
    BY <1>5, <1>8
  <2> QED
    BY <2>1
<1>10. count[p] < n
  BY <1>3, <1>8, <1>9
<1>11. k \in S /\ count[p] = n - 1
  <2>1. count[p] \in Nat /\ count[k] \in Nat
    BY <1>3
  <2>2. k \notin S => count[k] = count[p]
    BY <1>6, <1>9
  <2>3. k \in S => count[k] = count[p] + 1
    BY <1>6, <1>9
  <2> QED
    BY <1>8, <1>10, <2>1, <2>2, <2>3
<1> QED
  BY <1>7, <1>9, <1>11

\* What was bounced later stands first, and nothing is later than the clock.
Ordered(found) ==
  \A i, j \in 1..Len(found) : i <= j => found[j].at <= found[i].at

\* The loop of applyRules finds a bounce that is one too many for its tier just
\* when so many are within the tier.
LEMMA GatedIsTooMany ==
  ASSUME NEW a \in Addresses, bounces[a] \in Seq(Bounces), Ordered(bounces[a]), clock \in Nat
  PROVE  Gated(a) <=> TooMany(a)
<1> DEFINE found == bounces[a]
           L == Len(found)
           Of(t, at) == {k \in 1..L : found[k].type = t /\ found[k].at + at > clock}
           Before(n) == {k \in 1..(n - 1) : found[k].type = found[n].type}
<1>1. L \in Nat /\ DOMAIN found = 1..L /\ \A k \in 1..L : found[k] \in Bounces
  OBVIOUS
<1>2. \A k \in 1..L : found[k].type \in Types /\ found[k].at \in Nat
  BY <1>1, MailAssumption DEF Bounces, Times
<1>3. \A t \in Types : /\ Len(Rules[t]) \in Nat /\ DOMAIN Rules[t] = 1..Len(Rules[t])
                       /\ \A n \in 1..Len(Rules[t]) : Rules[t][n] \in Nat
  BY MailAssumption
<1>4. \A i, j \in 1..L : i <= j => found[j].at <= found[i].at
  BY DEF Ordered
<1>5. Gated(a) <=> \E n \in 1..L :
        /\ Cardinality(Before(n)) < Len(Rules[found[n].type])
        /\ found[n].at + Rules[found[n].type][Cardinality(Before(n)) + 1] > clock
  BY <1>1 DEF Gated, Found, Count
<1>6. TooMany(a) <=> \E t \in Types : \E n \in DOMAIN Rules[t] :
        Cardinality(Of(t, Rules[t][n])) >= n
  BY <1>1 DEF TooMany
<1> HIDE DEF found, L
<1>7. IsFiniteSet(1..L)
  BY <1>1, FS_Interval
<1>8. ASSUME NEW t, NEW at PROVE IsFiniteSet(Of(t, at)) /\ Cardinality(Of(t, at)) \in Nat
  <2>1. Of(t, at) \subseteq 1..L
    OBVIOUS
  <2> QED
    BY <1>7, <2>1, FS_Subset, FS_CardinalityType
<1>9. ASSUME NEW n \in 1..L, Cardinality(Before(n)) < Len(Rules[found[n].type]),
             found[n].at + Rules[found[n].type][Cardinality(Before(n)) + 1] > clock
      PROVE  TooMany(a)
  <2> DEFINE type == found[n].type
             c == Cardinality(Before(n))
             at == Rules[type][c + 1]
  <2>1. IsFiniteSet(Before(n)) /\ c \in Nat
    <3>1. \A k \in 1..(n - 1) : k \in 1..L
      BY <1>1
    <3>2. Before(n) \subseteq 1..L
      BY <3>1
    <3> QED
      BY <1>7, <3>2, FS_Subset, FS_CardinalityType
  <2>2. type \in Types
    BY <1>2
  <2>3. c + 1 \in DOMAIN Rules[type] /\ at \in Nat
    <3> DEFINE len == Len(Rules[type])
    <3>1. len \in Nat /\ DOMAIN Rules[type] = 1..len /\ \A i \in 1..len : Rules[type][i] \in Nat
      BY <1>3, <2>2
    <3>2. c < len
      BY <1>9
    <3> HIDE DEF c, len
    <3>3. c + 1 \in 1..len
      BY <2>1, <3>1, <3>2
    <3> QED
      BY <3>1, <3>3
  <2>4. n \in Of(type, at)
    BY <1>9
  <2>5. ASSUME NEW k \in Before(n) PROVE k \in Of(type, at)
    <3>1. k \in 1..L /\ k <= n /\ found[k].type = type
      BY <1>1
    <3>2. found[n].at <= found[k].at /\ found[n].at \in Nat /\ found[k].at \in Nat
      BY <1>2, <1>4, <3>1
    <3>3. found[k].at + at > clock
      BY <1>9, <2>3, <3>2
    <3> QED
      BY <3>1, <3>3
  <2>6. Before(n) \cup {n} \subseteq Of(type, at) /\ n \notin Before(n)
    <3>1. \A k \in 1..(n - 1) : k # n
      BY <1>1
    <3>2. n \notin Before(n)
      BY <3>1
    <3> QED
      BY <2>4, <2>5, <3>2
  <2>7. Cardinality(Before(n) \cup {n}) = c + 1
    BY <2>1, <2>6, FS_AddElement
  <2>8. Cardinality(Of(type, at)) >= c + 1
    <3>1. Cardinality(Before(n) \cup {n}) <= Cardinality(Of(type, at))
      <4> DEFINE S == Before(n) \cup {n}  T == Of(type, at)
      <4>1. S \in SUBSET T /\ IsFiniteSet(T)
        BY <1>8, <2>6
      <4> HIDE DEF S, T
      <4>2. Cardinality(S) <= Cardinality(T)
        BY <4>1, FS_Subset
      <4> QED
        BY <4>2 DEF S, T
    <3> QED
      BY <1>8, <2>1, <2>7, <3>1
  <2> QED
    BY <1>6, <2>2, <2>3, <2>8
<1>10. ASSUME NEW t \in Types, NEW n \in DOMAIN Rules[t], Cardinality(Of(t, Rules[t][n])) >= n
       PROVE  Gated(a)
  <2> DEFINE at == Rules[t][n]
  <2>1. n \in Nat /\ n >= 1 /\ n <= Len(Rules[t]) /\ at \in Nat
    BY <1>3
  <2>2. Of(t, at) \subseteq 1..L
    OBVIOUS
  <2>3. PICK k \in Of(t, at) : Cardinality({j \in Of(t, at) : j < k}) = n - 1
    <3>1. PICK S \in SUBSET (1..L) : S = Of(t, at)
      BY <2>2
    <3>2. PICK l \in Nat : l = L
      BY <1>1
    <3>3. PICK i \in Nat : i = n /\ i >= 1
      BY <2>1
    <3>4. S \subseteq 1..l /\ Cardinality(S) >= i
      BY <1>10, <3>1, <3>2, <3>3
    <3>5. \E k \in S : Cardinality({j \in S : j < k}) = i - 1
      BY <3>3, <3>4, NthElement
    <3> QED
      BY <3>1, <3>3, <3>5
  <2>4. k \in 1..L /\ found[k].type = t /\ found[k].at + at > clock
    OBVIOUS
  <2>5. ASSUME NEW j \in 1..(k - 1), found[j].type = t PROVE j \in Of(t, at) /\ j < k
    <3>1. j \in 1..L /\ j < k /\ j <= k
      BY <1>1, <2>4
    <3>2. found[k].at <= found[j].at /\ found[j].at \in Nat /\ found[k].at \in Nat
      BY <1>2, <1>4, <2>4, <3>1
    <3>3. found[j].at + at > clock
      BY <2>1, <2>4, <3>2
    <3> QED
      BY <2>5, <3>1, <3>3
  <2>6. ASSUME NEW j \in Of(t, at), j < k PROVE j \in Before(k)
    BY <1>1, <2>4, <2>6
  <2>7. {j \in Of(t, at) : j < k} = Before(k)
    BY <2>4, <2>5, <2>6
  <2>8. Cardinality(Before(k)) = n - 1
    BY <2>3, <2>7
  <2>9. Cardinality(Before(k)) < Len(Rules[found[k].type])
    BY <1>3, <2>1, <2>4, <2>8
  <2>10. found[k].at + Rules[found[k].type][Cardinality(Before(k)) + 1] > clock
    <3>1. Cardinality(Before(k)) + 1 = n
      BY <2>1, <2>8
    <3> QED
      BY <2>4, <3>1
  <2> QED
    BY <1>5, <2>4, <2>9, <2>10
<1> QED
  BY <1>5, <1>6, <1>9, <1>10

-----------------------------------------------------------------------------
(* The invariant.                                                          *)

\* Every account's bounces stand in the order in which they were recorded.
BouncesInOrder ==
  \A a \in Addresses :
    /\ Ordered(bounces[a])
    /\ \A i \in 1..Len(bounces[a]) : bounces[a][i].at <= clock

\* The mail m has reached a, or is on its way there.
Reaches(s, m, del, a) == <<s, a>> \in del \/ \E p \in m.parts : a \in p[2]

\* What a mail may be at, after what was delivered.
Fits(s, m, del) ==
  /\ m.pc = "check" => m.asked # <<>>
  /\ m.kind # "secondary" =>
       /\ \A p \in m.parts : p[2] \subseteq m.open
       /\ \A a \in Addresses : <<s, a>> \in del => a \in m.open
  /\ m.pc = "sent" => m.parts = {}
  /\ m.pc \in {"deliver", "sent"} =>
       IF m.kind = "secondary" THEN \E a \in Addresses \ {Primary} : Reaches(s, m, del, a)
       ELSE \A a \in m.open : Reaches(s, m, del, a)

MailsFit ==
  \A s \in Sends :
    IF send[s] = None THEN \A a \in Addresses : <<s, a>> \notin delivered
    ELSE Fits(s, send[s], delivered)

\* A handler that is about to delete its message has recorded it, or has tried.
HandlersOK ==
  \A h \in Handlers : handler[h] # None /\ handler[h].pc = 2 => handler[h].note \in kept \cup lost

Inv == TypeOK /\ BouncesInOrder /\ MailsFit /\ HandlersOK /\ NoBounceIsForgotten

LEMMA InitInv == Init => Inv
<1> SUFFICES ASSUME Init PROVE Inv
  OBVIOUS
<1>1. TypeOK
  <2>1. bounces \in [Addresses -> Seq(Bounces)] /\ \A a \in Addresses : Len(bounces[a]) <= MaxBounces
    BY MailAssumption DEF Init
  <2>2. fetch \in [Fetches -> {"none", "waiting", "timer"}]
    BY DEF Init
  <2>3. clock \in Times /\ faults \in 0..MaxFaults
    BY MailAssumption DEF Init, Times
  <2> QED
    BY <2>1, <2>2, <2>3 DEF Init, TypeOK
<1>2. BouncesInOrder
  BY DEF Init, BouncesInOrder, Ordered
<1> QED
  BY <1>1, <1>2 DEF Init, Inv, MailsFit, HandlersOK, NoBounceIsForgotten

\* A step of one mail
LEMMA MailStep ==
  ASSUME Inv, NEW s \in Sends, NEW m \in SendRecords, send' = [send EXCEPT ![s] = m],
         NEW R \in SUBSET Addresses, delivered' = delivered \cup ({s} \X R),
         Fits(s, m, delivered'),
         UNCHANGED <<bounces, sqs, clock>>, faults' \in 0..MaxFaults
  PROVE  Inv'
<1>1. m # None
  BY RecordAssumption
<1>2. TypeOK'
  BY DEF Inv, TypeOK, sqs
<1>3. MailsFit'
  <2>1. SUFFICES ASSUME NEW t \in Sends
                 PROVE  IF send'[t] = None THEN \A a \in Addresses : <<t, a>> \notin delivered'
                        ELSE Fits(t, send'[t], delivered')
    BY DEF MailsFit
  <2>2. CASE t = s
    <3>1. send'[t] = m
      BY <2>2 DEF Inv, TypeOK
    <3> QED
      BY <1>1, <2>2, <3>1
  <2>3. CASE t # s
    <3>1. send'[t] = send[t]
      BY <2>3 DEF Inv, TypeOK
    <3>2. \A a \in Addresses : <<t, a>> \in delivered' <=> <<t, a>> \in delivered
      BY <2>3
    <3>3. CASE send[t] = None
      BY <3>1, <3>2, <3>3 DEF Inv, MailsFit
    <3>4. CASE send[t] # None
      <4>1. Fits(t, send[t], delivered) /\ send[t] \in SendRecords
        BY <3>4 DEF Inv, MailsFit, TypeOK
      <4>2. send[t].open \subseteq Addresses
        BY <4>1 DEF SendRecords
      <4>3. Fits(t, send[t], delivered')
        BY <3>2, <4>1, <4>2 DEF Fits, Reaches
      <4> QED
        BY <3>1, <3>4, <4>3
    <3> QED
      BY <3>3, <3>4
  <2> QED
    BY <2>2, <2>3
<1>4. BouncesInOrder' /\ HandlersOK' /\ NoBounceIsForgotten'
  BY DEF Inv, BouncesInOrder, HandlersOK, NoBounceIsForgotten, sqs
<1> QED
  BY <1>2, <1>3, <1>4 DEF Inv

\* A step of the queue
LEMMA QueueStep ==
  ASSUME Inv, UNCHANGED <<send, delivered>>,
         TypeOK', BouncesInOrder', HandlersOK', NoBounceIsForgotten'
  PROVE  Inv'
<1>1. MailsFit'
  BY DEF Inv, MailsFit
<1> QED
  BY <1>1 DEF Inv

-----------------------------------------------------------------------------
(* Sending.                                                                *)

LEMMA StartKeeps ==
  ASSUME Inv, NEW s \in Sends, NEW kind \in Kinds, NEW list \in Lists, Start(s, kind, list)
  PROVE  Inv'
<1> DEFINE m == [kind |-> kind, pc |-> "check", asked |-> list, open |-> {}, parts |-> {}]
<1>1. /\ send[s] = None /\ send' = [send EXCEPT ![s] = m]
      /\ UNCHANGED <<bounces, delivered, sqs, clock, faults>>
  BY DEF Start
<1>2. PICK n \in 1..Cardinality(Addresses) : list \in [1..n -> Addresses]
  BY DEF Lists
<1>3. Cardinality(Addresses) \in Nat
  BY MailAssumption, FS_CardinalityType
<1>4. n \in 0..Cardinality(Addresses) /\ list # <<>>
  BY <1>2, <1>3
<1>5. m \in SendRecords
  BY <1>2, <1>4 DEF SendRecords
<1>6. \A a \in Addresses : <<s, a>> \notin delivered
  BY <1>1 DEF Inv, MailsFit
<1>7. Fits(s, m, delivered)
  BY <1>4, <1>6 DEF Fits
<1>8. delivered' = delivered \cup ({s} \X {}) /\ Fits(s, m, delivered') /\ faults' \in 0..MaxFaults
  BY <1>1, <1>7 DEF Inv, TypeOK
<1> HIDE DEF m
<1> QED
  BY <1>1, <1>5, <1>8, MailStep

\* The fields of the record of a mail
LEMMA CheckedFields ==
  ASSUME NEW q \in SendRecords, NEW a, NEW o, NEW pc
  PROVE  [q EXCEPT !.open = o, !.asked = a, !.pc = pc]
           = [kind |-> q.kind, pc |-> pc, asked |-> a, open |-> o, parts |-> q.parts]
<1> DEFINE F == {"kind", "pc", "asked", "open", "parts"}
           x == [q EXCEPT !.open = o, !.asked = a, !.pc = pc]
<1>1. DOMAIN q = F
  BY DEF SendRecords
<1>2. x.open = o /\ x.asked = a /\ x.pc = pc /\ x.kind = q.kind /\ x.parts = q.parts
  BY <1>1
<1>3. x = [f \in F |-> x[f]]
  BY <1>1
<1> HIDE DEF x
<1>4. x = [kind |-> q.kind, pc |-> pc, asked |-> a, open |-> o, parts |-> q.parts]
  BY <1>2, <1>3
<1> QED
  BY <1>4 DEF x

LEMMA PartedFields ==
  ASSUME NEW q \in SendRecords, NEW pc, NEW ps
  PROVE  /\ [q EXCEPT !.pc = pc, !.parts = ps]
              = [kind |-> q.kind, pc |-> pc, asked |-> q.asked, open |-> q.open, parts |-> ps]
         /\ [q EXCEPT !.parts = ps, !.pc = pc]
              = [kind |-> q.kind, pc |-> pc, asked |-> q.asked, open |-> q.open, parts |-> ps]
<1> DEFINE F == {"kind", "pc", "asked", "open", "parts"}
           x == [q EXCEPT !.pc = pc, !.parts = ps]
           y == [q EXCEPT !.parts = ps, !.pc = pc]
<1>1. DOMAIN q = F
  BY DEF SendRecords
<1>2. /\ x.pc = pc /\ x.parts = ps /\ x.kind = q.kind /\ x.asked = q.asked /\ x.open = q.open
      /\ y.pc = pc /\ y.parts = ps /\ y.kind = q.kind /\ y.asked = q.asked /\ y.open = q.open
  BY <1>1
<1>3. x = [f \in F |-> x[f]] /\ y = [f \in F |-> y[f]]
  BY <1>1
<1> HIDE DEF x, y
<1>4. /\ x = [kind |-> q.kind, pc |-> pc, asked |-> q.asked, open |-> q.open, parts |-> ps]
      /\ y = [kind |-> q.kind, pc |-> pc, asked |-> q.asked, open |-> q.open, parts |-> ps]
  BY <1>2, <1>3
<1> QED
  BY <1>4 DEF x, y

\* One recipient less is to be checked, and those who are open are more.
LEMMA CheckStep ==
  ASSUME Inv, NEW s \in Sends, send[s] # None, send[s].pc = "check",
         NEW open \in SUBSET Addresses, send[s].open \subseteq open,
         NEW pc \in {"check", "route", "failed"}, pc = "check" <=> Tail(send[s].asked) # <<>>,
         send' = [send EXCEPT ![s].open = open, ![s].asked = Tail(send[s].asked), ![s].pc = pc],
         UNCHANGED <<bounces, delivered, sqs, clock>>, faults' \in 0..MaxFaults
  PROVE  Inv'
<1> DEFINE kind == send[s].kind
           rest == Tail(send[s].asked)
           parts == send[s].parts
           m == [kind |-> kind, pc |-> pc, asked |-> rest, open |-> open, parts |-> parts]
<1>1. send[s] \in SendRecords /\ Fits(s, send[s], delivered)
  BY DEF Inv, TypeOK, MailsFit
<1>2. send' = [send EXCEPT ![s] = m]
  <2>1. PICK q \in SendRecords : q = send[s]
    BY <1>1
  <2>2. PICK r : r = rest
    OBVIOUS
  <2>3. [q EXCEPT !.open = open, !.asked = r, !.pc = pc] = m
    <3>1. \A a, o, p : [q EXCEPT !.open = o, !.asked = a, !.pc = p]
            = [kind |-> q.kind, pc |-> p, asked |-> a, open |-> o, parts |-> q.parts]
      BY CheckedFields
    <3>2. [q EXCEPT !.open = open, !.asked = r, !.pc = pc]
            = [kind |-> q.kind, pc |-> pc, asked |-> r, open |-> open, parts |-> q.parts]
      BY ONLY <3>1, Zenon
    <3>3. kind = q.kind /\ parts = q.parts /\ rest = r
      BY <2>1, <2>2
    <3> HIDE DEF kind, parts, rest
    <3> QED
      BY <3>2, <3>3
  <2>4. send' = [send EXCEPT ![s] = [q EXCEPT !.open = open, !.asked = r, !.pc = pc]]
    BY <2>1, <2>2 DEF Inv, TypeOK
  <2> QED
    BY <2>3, <2>4
<1>3. kind \in Kinds /\ parts \in SUBSET (Services \X SUBSET Addresses)
  BY <1>1 DEF SendRecords
<1>4. PICK n \in 0..Cardinality(Addresses) : send[s].asked \in [1..n -> Addresses]
  BY <1>1 DEF SendRecords
<1>5. Cardinality(Addresses) \in Nat
  BY MailAssumption, FS_CardinalityType
<1>6. send[s].asked \in Seq(Addresses) /\ Len(send[s].asked) = n /\ send[s].asked # <<>>
  BY <1>1, <1>4, <1>5 DEF Fits
<1>7. n - 1 \in 0..Cardinality(Addresses) /\ rest \in [1..(n - 1) -> Addresses]
  <2> DEFINE q == send[s].asked
  <2>1. q \in Seq(Addresses) /\ Len(q) = n /\ q # <<>>
    BY <1>6
  <2> HIDE DEF q
  <2>2. n >= 1 /\ Tail(q) \in Seq(Addresses) /\ Len(Tail(q)) = n - 1
    BY <2>1
  <2>3. \A t \in Seq(Addresses) : t \in [1..Len(t) -> Addresses]
    OBVIOUS
  <2>4. n - 1 \in 0..Cardinality(Addresses)
    BY <1>5, <2>2
  <2> QED
    BY <2>2, <2>3, <2>4 DEF q
<1>8. \E k \in 0..Cardinality(Addresses) : rest \in [1..k -> Addresses]
  BY <1>7
<1>9. Fits(s, m, delivered)
  BY <1>1 DEF Fits
<1> HIDE DEF kind, rest, parts
<1>10. m \in SendRecords
  BY <1>3, <1>8 DEF SendRecords
<1>11. delivered' = delivered \cup ({s} \X {}) /\ Fits(s, m, delivered')
  BY <1>9
<1> HIDE DEF m
<1>12. PICK b \in SendRecords : b = m
  BY <1>10
<1>13. PICK R \in SUBSET Addresses : R = {}
  OBVIOUS
<1> QED
  BY <1>2, <1>11, <1>12, <1>13, MailStep

LEMMA CheckKeeps ==
  ASSUME Inv, NEW s \in Sends, Check(s)
  PROVE  Inv'
<1> DEFINE a == Head(send[s].asked)
           rest == Tail(send[s].asked)
<1>1. PICK open : open = IF Gated(a) THEN send[s].open ELSE send[s].open \cup {a}
  OBVIOUS
<1>2. PICK pc : pc = CASE rest # <<>> -> "check"
                       [] rest = <<>> /\ open = {} -> "failed"
                       [] OTHER -> "route"
  OBVIOUS
<1>3. /\ send[s] # None /\ send[s].pc = "check"
      /\ send' = [send EXCEPT ![s].open = open, ![s].asked = rest, ![s].pc = pc]
      /\ UNCHANGED <<bounces, delivered, sqs, clock, faults>>
  BY <1>1, <1>2 DEF Check
<1>4. send[s] \in SendRecords /\ send[s].asked # <<>>
  BY <1>3 DEF Inv, TypeOK, MailsFit, Fits
<1>5. send[s].open \subseteq Addresses /\ send[s].asked \in Seq(Addresses)
  BY <1>4 DEF SendRecords
<1>6. a \in Addresses
  BY <1>4, <1>5
<1>7. open \in SUBSET Addresses /\ send[s].open \subseteq open
  BY <1>1, <1>5, <1>6
<1>8. pc \in {"check", "route", "failed"} /\ (pc = "check" <=> rest # <<>>)
  BY <1>2
<1>9. faults' \in 0..MaxFaults
  BY <1>3 DEF Inv, TypeOK
<1> QED
  BY <1>3, <1>7, <1>8, <1>9, CheckStep

LEMMA CheckFailsKeeps ==
  ASSUME Inv, NEW s \in Sends, CheckFails(s)
  PROVE  Inv'
<1> DEFINE rest == Tail(send[s].asked)
<1>1. PICK open : open = send[s].open
  OBVIOUS
<1>2. PICK pc : pc = CASE rest # <<>> -> "check"
                       [] rest = <<>> /\ open = {} -> "failed"
                       [] OTHER -> "route"
  OBVIOUS
<1>3. /\ send[s] # None /\ send[s].pc = "check" /\ Fault
      /\ send' = [send EXCEPT ![s].asked = rest, ![s].pc = pc]
      /\ UNCHANGED <<bounces, delivered, sqs, clock>>
  BY <1>1, <1>2 DEF CheckFails
<1>4. send[s] \in SendRecords
  BY <1>3 DEF Inv, TypeOK
<1>5. open \in SUBSET Addresses /\ send[s].open \subseteq open
  BY <1>1, <1>4 DEF SendRecords
<1>6. send' = [send EXCEPT ![s].open = open, ![s].asked = rest, ![s].pc = pc]
  BY <1>1, <1>3, <1>4 DEF SendRecords
<1>7. pc \in {"check", "route", "failed"} /\ (pc = "check" <=> rest # <<>>)
  BY <1>2
<1>8. faults' \in 0..MaxFaults
  BY <1>3, MailAssumption DEF Inv, TypeOK, Fault
<1> QED
  BY <1>3, <1>5, <1>6, <1>7, <1>8, CheckStep

\* Every recipient is in the part of the service it is led to.
LEMMA PartsCover ==
  ASSUME NEW R \in SUBSET Addresses, NEW route \in [Addresses -> Services]
  PROVE  /\ Parts(R, route) \in SUBSET (Services \X SUBSET Addresses)
         /\ \A p \in Parts(R, route) : p[2] \subseteq R
         /\ \A a \in R : \E p \in Parts(R, route) : a \in p[2]
<1> DEFINE Led(v) == {a \in R : route[a] = v}
<1>1. Parts(R, route) = {<<v, Led(v)>> : v \in {route[a] : a \in R}}
  BY DEF Parts
<1>2. ASSUME NEW p \in Parts(R, route)
      PROVE  p \in Services \X SUBSET Addresses /\ p[2] \subseteq R
  <2>1. PICK a \in R : p = <<route[a], Led(route[a])>>
    BY <1>1
  <2> QED
    BY <2>1
<1>3. ASSUME NEW a \in R PROVE \E p \in Parts(R, route) : a \in p[2]
  <2>1. <<route[a], Led(route[a])>> \in Parts(R, route) /\ a \in Led(route[a])
    BY <1>1
  <2> QED
    BY <2>1
<1> QED
  BY <1>2, <1>3

LEMMA RouteKeeps ==
  ASSUME Inv, NEW s \in Sends, NEW a \in Addresses, NEW route \in [Addresses -> Services],
         Route(s, a, route)
  PROVE  Inv'
<1>1. PICK R : R = Recipients(s, a)
  OBVIOUS
<1>2. PICK parts : parts = Parts(R, route)
  OBVIOUS
<1> DEFINE kind == send[s].kind
           asked == send[s].asked
           open == send[s].open
           m == [kind |-> kind, pc |-> "deliver", asked |-> asked, open |-> open, parts |-> parts]
<1>3. /\ send[s] # None
      /\ kind = "secondary" => a # Primary
      /\ send' = [send EXCEPT ![s].pc = "deliver", ![s].parts = parts]
      /\ UNCHANGED <<bounces, delivered, sqs, clock, faults>>
  BY <1>1, <1>2 DEF Route
<1>4. send[s] \in SendRecords /\ Fits(s, send[s], delivered)
  BY <1>3 DEF Inv, TypeOK, MailsFit
<1>5. send' = [send EXCEPT ![s] = m]
  <2>1. PICK q \in SendRecords : q = send[s]
    BY <1>4
  <2>2. [q EXCEPT !.pc = "deliver", !.parts = parts] = m
    BY <2>1, PartedFields
  <2>3. send' = [send EXCEPT ![s] = [q EXCEPT !.pc = "deliver", !.parts = parts]]
    BY <1>3, <2>1 DEF Inv, TypeOK
  <2> QED
    BY <2>2, <2>3
<1>6. R \in SUBSET Addresses /\ R = IF kind = "secondary" THEN {a} ELSE open
  BY <1>1, <1>4 DEF SendRecords, Recipients
<1>7. /\ parts \in SUBSET (Services \X SUBSET Addresses)
      /\ \A p \in parts : p[2] \subseteq R
      /\ \A b \in R : \E p \in parts : b \in p[2]
  <2>1. parts = Parts(R, route) /\ R \in SUBSET Addresses
    BY <1>2, <1>6
  <2> QED
    BY <2>1, PartsCover
<1>8. m \in SendRecords
  BY <1>4, <1>7 DEF SendRecords
<1>9. Fits(s, m, delivered)
  BY <1>3, <1>4, <1>6, <1>7 DEF Fits, Reaches
<1>10. delivered' = delivered \cup ({s} \X {}) /\ Fits(s, m, delivered') /\ faults' \in 0..MaxFaults
  BY <1>3, <1>9 DEF Inv, TypeOK
<1> HIDE DEF m
<1>11. PICK b \in SendRecords : b = m
  BY <1>8
<1>12. PICK N \in SUBSET Addresses : N = {}
  OBVIOUS
<1> QED
  BY <1>3, <1>5, <1>10, <1>11, <1>12, MailStep

LEMMA DeliverKeeps ==
  ASSUME Inv, NEW s \in Sends, NEW p \in send[s].parts, Deliver(s, p)
  PROVE  Inv'
<1>1. PICK left : left = send[s].parts \ {p}
  OBVIOUS
<1>2. PICK pc : pc = IF left = {} /\ send[s].pc = "deliver" THEN "sent" ELSE send[s].pc
  OBVIOUS
<1> DEFINE kind == send[s].kind
           asked == send[s].asked
           open == send[s].open
           m == [kind |-> kind, pc |-> pc, asked |-> asked, open |-> open, parts |-> left]
<1>3. /\ send[s] # None
      /\ delivered' = delivered \cup ({s} \X p[2])
      /\ send' = [send EXCEPT ![s].parts = left,
            ![s].pc = IF left = {} /\ @ = "deliver" THEN "sent" ELSE @]
      /\ UNCHANGED <<bounces, sqs, clock, faults>>
  BY <1>1 DEF Deliver
<1>4. send[s] \in SendRecords /\ Fits(s, send[s], delivered)
  BY <1>3 DEF Inv, TypeOK, MailsFit
<1>5. send' = [send EXCEPT ![s] = m]
  <2>1. PICK q \in SendRecords : q = send[s]
    BY <1>4
  <2>2. [q EXCEPT !.parts = left, !.pc = pc] = m
    BY <2>1, PartedFields
  <2>3. send' = [send EXCEPT ![s].parts = left, ![s].pc = pc]
    BY <1>2, <1>3, <1>4 DEF SendRecords, Inv, TypeOK
  <2>4. send' = [send EXCEPT ![s] = [q EXCEPT !.parts = left, !.pc = pc]]
    BY <2>1, <2>3 DEF Inv, TypeOK
  <2> QED
    BY <2>2, <2>4
<1>6. left \in SUBSET (Services \X SUBSET Addresses) /\ p[2] \subseteq Addresses
  BY <1>1, <1>4 DEF SendRecords
<1>7. pc \in {"check", "route", "deliver", "sent", "failed"}
  BY <1>2, <1>4 DEF SendRecords
<1>8. m \in SendRecords
  BY <1>4, <1>6, <1>7 DEF SendRecords
<1>9. Fits(s, m, delivered')
  <2>1. send[s].pc # "sent" /\ (pc = "check" => send[s].pc = "check")
    BY <1>2, <1>4 DEF Fits
  <2>2. kind # "secondary" =>
          /\ \A q \in left : q[2] \subseteq open
          /\ \A b \in Addresses : <<s, b>> \in delivered' => b \in open
    BY <1>1, <1>3, <1>4 DEF Fits
  <2>3. pc = "sent" => left = {}
    BY <1>2, <2>1
  <2>4. pc \in {"deliver", "sent"} => send[s].pc = "deliver"
    BY <1>2, <2>1
  <2>5. ASSUME NEW b \in Addresses, Reaches(s, send[s], delivered, b)
        PROVE  Reaches(s, m, delivered', b)
    <3>1. CASE <<s, b>> \in delivered
      BY <1>3, <3>1 DEF Reaches
    <3>2. CASE \E q \in send[s].parts : b \in q[2]
      <4>1. PICK q \in send[s].parts : b \in q[2]
        BY <3>2
      <4>2. CASE q = p
        BY <1>3, <4>1, <4>2 DEF Reaches
      <4>3. CASE q # p
        BY <1>1, <4>1, <4>3 DEF Reaches
      <4> QED
        BY <4>2, <4>3
    <3> QED
      BY <2>5, <3>1, <3>2 DEF Reaches
  <2>6. open \subseteq Addresses
    BY <1>4 DEF SendRecords
  <2>7. pc \in {"deliver", "sent"} =>
          IF kind = "secondary" THEN \E b \in Addresses \ {Primary} : Reaches(s, m, delivered', b)
          ELSE \A b \in open : Reaches(s, m, delivered', b)
    BY <1>4, <2>4, <2>5, <2>6 DEF Fits
  <2>8. m.kind = kind /\ m.pc = pc /\ m.asked = asked /\ m.open = open /\ m.parts = left
    OBVIOUS
  <2> HIDE DEF m
  <2> QED
    BY <1>4, <2>1, <2>2, <2>3, <2>7, <2>8 DEF Fits
<1>10. faults' \in 0..MaxFaults
  BY <1>3 DEF Inv, TypeOK
<1> HIDE DEF m
<1>11. PICK b \in SendRecords : b = m
  BY <1>8
<1>12. PICK R \in SUBSET Addresses : R = p[2]
  BY <1>6
<1> QED
  BY <1>3, <1>5, <1>9, <1>10, <1>11, <1>12, MailStep

LEMMA DeliverFailsKeeps ==
  ASSUME Inv, NEW s \in Sends, NEW p \in send[s].parts, DeliverFails(s, p)
  PROVE  Inv'
<1>1. PICK left : left = send[s].parts \ {p}
  OBVIOUS
<1> DEFINE kind == send[s].kind
           asked == send[s].asked
           open == send[s].open
           m == [kind |-> kind, pc |-> "failed", asked |-> asked, open |-> open, parts |-> left]
<1>2. /\ send[s] # None /\ Fault
      /\ send' = [send EXCEPT ![s].parts = @ \ {p}, ![s].pc = "failed"]
      /\ UNCHANGED <<bounces, delivered, sqs, clock>>
  BY DEF DeliverFails
<1>3. send[s] \in SendRecords /\ Fits(s, send[s], delivered)
  BY <1>2 DEF Inv, TypeOK, MailsFit
<1>4. send' = [send EXCEPT ![s] = m]
  <2>1. PICK q \in SendRecords : q = send[s]
    BY <1>3
  <2>2. [q EXCEPT !.parts = left, !.pc = "failed"] = m
    BY <2>1, PartedFields
  <2>3. send' = [send EXCEPT ![s].parts = left, ![s].pc = "failed"]
    BY <1>1, <1>2
  <2>4. send' = [send EXCEPT ![s] = [q EXCEPT !.parts = left, !.pc = "failed"]]
    BY <2>1, <2>3 DEF Inv, TypeOK
  <2> QED
    BY <2>2, <2>4
<1>5. left \in SUBSET (Services \X SUBSET Addresses)
  BY <1>1, <1>3 DEF SendRecords
<1>6. m \in SendRecords
  BY <1>3, <1>5 DEF SendRecords
<1>7. Fits(s, m, delivered)
  BY <1>1, <1>3 DEF Fits
<1>8. delivered' = delivered \cup ({s} \X {}) /\ Fits(s, m, delivered')
  BY <1>2, <1>7
<1>9. faults' \in 0..MaxFaults
  BY <1>2, MailAssumption DEF Inv, TypeOK, Fault
<1> HIDE DEF m
<1>10. PICK b \in SendRecords : b = m
  BY <1>6
<1>11. PICK R \in SUBSET Addresses : R = {}
  OBVIOUS
<1> QED
  BY <1>2, <1>4, <1>8, <1>9, <1>10, <1>11, MailStep

-----------------------------------------------------------------------------
(* The queue.                                                              *)

LEMMA FaultCounts ==
  ASSUME Inv, Fault
  PROVE  faults' \in 0..MaxFaults
BY MailAssumption DEF Inv, TypeOK, Fault

LEMMA BounceKeeps ==
  ASSUME Inv, NEW s \in Sends, NEW a \in Addresses, NEW m \in Notes, NEW type \in Types,
         NEW sane \in BOOLEAN, Bounce(s, a, m, type, sane)
  PROVE  Inv'
<1> DEFINE n == [addr |-> a, type |-> type, sane |-> sane]
<1>1. queue' = [k \in DOMAIN queue \cup {m} |-> IF k = m THEN n ELSE queue[k]]
  BY DEF Bounce
<1>2. UNCHANGED <<mail, handler, fetch, told, kept, lost, clock, faults>>
  BY DEF Bounce
<1>3. n \in NoteRecords
  BY DEF NoteRecords
<1> HIDE DEF n
<1>4. DOMAIN queue' \subseteq Notes /\ \A k \in DOMAIN queue' : queue'[k] \in NoteRecords
  BY <1>1, <1>3 DEF Inv, TypeOK
<1>5. TypeOK'
  BY <1>2, <1>4 DEF Inv, TypeOK, mail
<1>6. BouncesInOrder' /\ HandlersOK' /\ NoBounceIsForgotten'
  BY <1>2 DEF Inv, BouncesInOrder, HandlersOK, NoBounceIsForgotten, mail
<1> QED
  BY <1>2, <1>5, <1>6, QueueStep DEF mail

LEMMA ReceiveKeeps ==
  ASSUME Inv, NEW f \in Fetches, NEW g \in Fetches, NEW m \in Notes \cup {None},
         NEW h \in Handlers, Receive(f, g, m, h)
  PROVE  Inv'
<1>1. fetch' = [fetch EXCEPT ![g] = "waiting"]
      /\ UNCHANGED <<mail, told, kept, lost, clock, faults>>
  BY DEF Receive
<1>2. fetch' \in [Fetches -> {"none", "waiting", "timer"}]
  BY <1>1 DEF Inv, TypeOK
<1>3. /\ DOMAIN queue' \subseteq Notes /\ \A k \in DOMAIN queue' : queue'[k] \in NoteRecords
      /\ handler' \in [Handlers -> HandlerRecords \cup {None}]
      /\ HandlersOK'
  <2>1. CASE UNCHANGED <<queue, handler>>
    BY <1>1, <2>1 DEF Inv, TypeOK, HandlersOK
  <2>2. CASE m \in DOMAIN queue /\ queue[m].sane /\ queue' = queue
             /\ handler' = [handler EXCEPT ![h] = [note |-> m, record |-> queue[m], pc |-> 1]]
    <3> DEFINE r == [note |-> m, record |-> queue[m], pc |-> 1]
    <3>1. r \in HandlerRecords /\ r.pc # 2
      BY <2>2 DEF Inv, TypeOK, HandlerRecords
    <3> HIDE DEF r
    <3>2. handler' = [handler EXCEPT ![h] = r]
      BY <2>2 DEF r
    <3>3. handler' \in [Handlers -> HandlerRecords \cup {None}]
      BY <3>1, <3>2 DEF Inv, TypeOK
    <3>4. HandlersOK'
      BY <1>1, <3>1, <3>2 DEF Inv, TypeOK, HandlersOK
    <3> QED
      BY <2>2, <3>3, <3>4 DEF Inv, TypeOK
  <2>3. CASE handler' = handler /\ queue' = [k \in DOMAIN queue \ {m} |-> queue[k]]
    BY <1>1, <2>3 DEF Inv, TypeOK, HandlersOK
  <2> QED
    BY <2>1, <2>2, <2>3 DEF Receive
<1>4. TypeOK'
  BY <1>1, <1>2, <1>3 DEF Inv, TypeOK, mail
<1>5. BouncesInOrder' /\ NoBounceIsForgotten'
  BY <1>1 DEF Inv, BouncesInOrder, NoBounceIsForgotten, mail
<1> QED
  BY <1>1, <1>3, <1>4, <1>5, QueueStep DEF mail

LEMMA FetchKeeps ==
  ASSUME Inv, NEW f \in Fetches, ReceiveError(f) \/ FetchAgain(f)
  PROVE  Inv'
<1>1. UNCHANGED <<mail, queue, handler, told, kept, lost, clock>>
  BY DEF ReceiveError, FetchAgain
<1>2. fetch' \in [Fetches -> {"none", "waiting", "timer"}]
  BY DEF Inv, TypeOK, ReceiveError, FetchAgain
<1>3. faults' \in 0..MaxFaults
  BY FaultCounts DEF Inv, TypeOK, ReceiveError, FetchAgain
<1>4. TypeOK'
  BY <1>1, <1>2, <1>3 DEF Inv, TypeOK, mail
<1>5. BouncesInOrder' /\ HandlersOK' /\ NoBounceIsForgotten'
  BY <1>1 DEF Inv, BouncesInOrder, HandlersOK, NoBounceIsForgotten, mail
<1> QED
  BY <1>1, <1>4, <1>5, QueueStep DEF mail

LEMMA CrashKeeps ==
  ASSUME Inv, NEW f \in Fetches, Crash(f)
  PROVE  Inv'
<1>1. /\ handler' = [h \in Handlers |-> None]
      /\ UNCHANGED <<mail, queue, told, kept, lost, clock>>
  BY DEF Crash
<1>2. fetch' \in [Fetches -> {"none", "waiting", "timer"}] /\ faults' \in 0..MaxFaults
  BY FaultCounts DEF Crash
<1>3. TypeOK'
  BY <1>1, <1>2 DEF Inv, TypeOK, mail
<1>4. BouncesInOrder' /\ HandlersOK' /\ NoBounceIsForgotten'
  BY <1>1 DEF Inv, BouncesInOrder, HandlersOK, NoBounceIsForgotten, mail
<1> QED
  BY <1>1, <1>3, <1>4, QueueStep DEF mail

\* What a handler does next is to record or to delete.
LEMMA HandlerStep ==
  ASSUME Inv, NEW h \in Handlers, Step(h), handler[h] # None,
         kept \subseteq kept', lost \subseteq lost',
         handler[h].pc = 1 => handler[h].note \in kept' \cup lost'
  PROVE  /\ handler' \in [Handlers -> HandlerRecords \cup {None}]
         /\ HandlersOK'
<1>1. handler[h] \in HandlerRecords /\ handler \in [Handlers -> HandlerRecords \cup {None}]
  BY DEF Inv, TypeOK
<1>2. PICK q \in HandlerRecords : q = handler[h]
  BY <1>1
<1> DEFINE r == [q EXCEPT !.pc = 2]
<1>3. r \in HandlerRecords /\ r.note = q.note /\ r.pc = 2
  BY DEF HandlerRecords
<1>4. handler' = [handler EXCEPT ![h] = IF q.pc = 1 THEN r ELSE None]
  BY <1>2 DEF Step
<1> HIDE DEF r
<1>5. handler' \in [Handlers -> HandlerRecords \cup {None}]
  BY <1>1, <1>3, <1>4
<1>6. ASSUME NEW k \in Handlers, handler'[k] # None, handler'[k].pc = 2
      PROVE  handler'[k].note \in kept' \cup lost'
  <2>1. CASE k = h
    <3>1. q.pc = 1 /\ handler'[k] = r
      BY <1>1, <1>4, <1>6, <2>1
    <3> QED
      BY <1>2, <1>3, <3>1
  <2>2. CASE k # h
    <3>1. handler'[k] = handler[k]
      BY <1>1, <1>4, <2>2
    <3> QED
      BY <1>6, <3>1 DEF Inv, HandlersOK
  <2> QED
    BY <2>1, <2>2
<1> QED
  BY <1>5, <1>6 DEF HandlersOK

LEMMA RecordKeeps ==
  ASSUME Inv, NEW h \in Handlers, Record(h)
  PROVE  Inv'
<1> DEFINE note == handler[h].note
           record == handler[h].record
<1>1. PICK a : a = record.addr
  OBVIOUS
<1>2. PICK b : b = [type |-> record.type, at |-> clock]
  OBVIOUS
<1>3. /\ At(h, "record") /\ Step(h)
      /\ Len(bounces[a]) < MaxBounces
      /\ bounces' = [bounces EXCEPT ![a] = Cons(b, @)]
      /\ kept' = kept \cup {note}
      /\ UNCHANGED <<send, delivered, queue, fetch, told, lost, clock, faults>>
  BY <1>1, <1>2 DEF Record
<1>4. handler[h] # None /\ handler[h] \in HandlerRecords
  BY <1>3 DEF At, Inv, TypeOK
<1>5. note \in Notes /\ record \in NoteRecords
  BY <1>4 DEF HandlerRecords
<1>6. a \in Addresses /\ b \in Bounces /\ b.at = clock /\ clock \in Nat
  BY <1>1, <1>2, <1>5, MailAssumption DEF NoteRecords, Bounces, Inv, TypeOK, Times
<1>7. handler' \in [Handlers -> HandlerRecords \cup {None}] /\ HandlersOK'
  BY <1>3, <1>4, HandlerStep
<1>8. PICK q \in Seq(Bounces) : q = bounces[a]
  BY <1>6 DEF Inv, TypeOK
<1>9. /\ Cons(b, q) \in Seq(Bounces) /\ Len(Cons(b, q)) = Len(q) + 1 /\ Len(q) \in Nat
      /\ Cons(b, q)[1] = b
      /\ \A i \in 2..(Len(q) + 1) : Cons(b, q)[i] = q[i - 1] /\ i - 1 \in 1..Len(q)
  BY <1>6 DEF Cons
<1>10. bounces' = [bounces EXCEPT ![a] = Cons(b, q)]
  BY <1>3, <1>8
<1>11. Len(q) + 1 <= MaxBounces
  BY <1>3, <1>8, <1>9, MailAssumption
<1> DEFINE L == Len(q)
           c == Cons(b, q)
<1>12. /\ Ordered(q)
       /\ \A i \in 1..L : q[i].at <= clock /\ q[i].at \in Nat
  <2>1. Ordered(q) /\ \A i \in 1..Len(q) : q[i].at <= clock
    BY <1>6, <1>8 DEF Inv, BouncesInOrder
  <2>2. \A i \in 1..Len(q) : q[i] \in Bounces
    OBVIOUS
  <2>3. \A i \in 1..Len(q) : q[i].at \in Nat
    BY <2>2, MailAssumption DEF Bounces, Times
  <2> QED
    BY <2>1, <2>3
<1> HIDE DEF c, L
<1>13. \A i \in 1..(L + 1) : c[i].at \in Nat /\ c[i].at <= clock
  <2>1. SUFFICES ASSUME NEW i \in 1..(L + 1) PROVE c[i].at \in Nat /\ c[i].at <= clock
    OBVIOUS
  <2>2. CASE i = 1
    BY <1>6, <1>9, <2>2 DEF c, L
  <2>3. CASE i # 1
    <3>1. i \in 2..(L + 1) /\ c[i] = q[i - 1] /\ i - 1 \in 1..L
      BY <1>9, <2>3 DEF c, L
    <3> QED
      BY <1>12, <3>1
  <2> QED
    BY <2>2, <2>3
<1>14. ASSUME NEW i \in 1..(L + 1), NEW j \in 1..(L + 1), i <= j PROVE c[j].at <= c[i].at
  <2>1. CASE i = 1
    BY <1>6, <1>9, <1>13, <2>1 DEF c, L
  <2>2. CASE i # 1
    <3>1. /\ i \in 2..(L + 1) /\ j \in 2..(L + 1) /\ L \in Nat
          /\ c[i] = q[i - 1] /\ i - 1 \in 1..L /\ c[j] = q[j - 1] /\ j - 1 \in 1..L
          /\ i - 1 <= j - 1
      BY <1>9, <1>14, <2>2 DEF c, L
    <3> QED
      BY <1>12, <3>1 DEF Ordered, L
  <2> QED
    BY <2>1, <2>2
<1>15. Ordered(c) /\ Len(c) = L + 1
  BY <1>9, <1>14 DEF Ordered, c, L
<1>16. bounces' \in [Addresses -> Seq(Bounces)] /\ \A x \in Addresses : Len(bounces'[x]) <= MaxBounces
  BY <1>6, <1>9, <1>10, <1>11 DEF Inv, TypeOK
<1>17. BouncesInOrder'
  <2>1. SUFFICES ASSUME NEW x \in Addresses
                 PROVE  Ordered(bounces'[x]) /\ \A i \in 1..Len(bounces'[x]) : bounces'[x][i].at <= clock
    BY <1>3 DEF BouncesInOrder
  <2>2. CASE x = a
    <3>1. bounces'[x] = c
      BY <1>6, <1>10, <2>2 DEF c, Inv, TypeOK
    <3> QED
      BY <1>13, <1>15, <3>1
  <2>3. CASE x # a
    <3>1. bounces'[x] = bounces[x]
      BY <1>10, <2>3 DEF Inv, TypeOK
    <3> QED
      BY <3>1 DEF Inv, BouncesInOrder
  <2> QED
    BY <2>2, <2>3
<1>18. TypeOK'
  BY <1>3, <1>5, <1>7, <1>16 DEF Inv, TypeOK
<1>19. NoBounceIsForgotten'
  BY <1>3 DEF Inv, NoBounceIsForgotten
<1> QED
  BY <1>3, <1>7, <1>17, <1>18, <1>19, QueueStep

LEMMA RecordFailsKeeps ==
  ASSUME Inv, NEW h \in Handlers, RecordFails(h)
  PROVE  Inv'
<1> DEFINE note == handler[h].note
<1>1. /\ At(h, "record") /\ Step(h) /\ Fault
      /\ lost' = lost \cup {note}
      /\ UNCHANGED <<mail, queue, fetch, told, kept, clock>>
  BY DEF RecordFails
<1>2. handler[h] # None /\ note \in Notes
  BY <1>1 DEF At, Inv, TypeOK, HandlerRecords
<1>3. handler' \in [Handlers -> HandlerRecords \cup {None}] /\ HandlersOK'
  BY <1>1, <1>2, HandlerStep
<1>4. TypeOK'
  BY <1>1, <1>2, <1>3, FaultCounts DEF Inv, TypeOK, mail
<1>5. BouncesInOrder' /\ NoBounceIsForgotten'
  BY <1>1 DEF Inv, BouncesInOrder, NoBounceIsForgotten, mail
<1> QED
  BY <1>1, <1>3, <1>4, <1>5, QueueStep DEF mail

LEMMA DeleteKeeps ==
  ASSUME Inv, NEW h \in Handlers, Delete(h)
  PROVE  Inv'
<1> DEFINE note == handler[h].note
<1>1. /\ At(h, "delete") /\ Step(h)
      /\ queue' = [k \in DOMAIN queue \ {note} |-> queue[k]]
      /\ told' = told \cup {note}
      /\ UNCHANGED <<mail, fetch, kept, lost, clock, faults>>
  BY DEF Delete
<1>2. handler[h] # None /\ handler[h] \in HandlerRecords
  BY <1>1 DEF At, Inv, TypeOK
<1>3. note \in Notes /\ handler[h].pc \in 1..2
  BY <1>2 DEF HandlerRecords
<1>4. handler[h].pc = 2
  BY <1>1, <1>3 DEF At, RecordThenDelete
<1>5. note \in kept \cup lost
  BY <1>2, <1>4 DEF Inv, HandlersOK
<1>6. handler' \in [Handlers -> HandlerRecords \cup {None}] /\ HandlersOK'
  BY <1>1, <1>2, <1>4, HandlerStep
<1>7. TypeOK'
  BY <1>1, <1>3, <1>6 DEF Inv, TypeOK, mail
<1>8. BouncesInOrder' /\ NoBounceIsForgotten'
  BY <1>1, <1>5 DEF Inv, BouncesInOrder, NoBounceIsForgotten, mail
<1> QED
  BY <1>1, <1>6, <1>7, <1>8, QueueStep DEF mail

LEMMA TickKeeps ==
  ASSUME Inv, Tick
  PROVE  Inv'
<1>1. clock \in Nat /\ clock' = clock + 1 /\ clock' \in Times /\ UNCHANGED <<mail, sqs, faults>>
  BY MailAssumption DEF Inv, TypeOK, Times, Tick
<1>2. TypeOK'
  BY <1>1 DEF Inv, TypeOK, mail, sqs
<1>3. BouncesInOrder'
  <2>1. ASSUME NEW a \in Addresses, NEW i \in 1..Len(bounces[a]) PROVE bounces[a][i].at <= clock'
    <3>1. bounces[a][i].at <= clock /\ bounces[a] \in Seq(Bounces)
      BY DEF Inv, BouncesInOrder, TypeOK
    <3>2. bounces[a][i].at \in Nat
      <4>1. bounces[a][i] \in Bounces
        BY <3>1
      <4> QED
        BY <4>1, MailAssumption DEF Bounces, Times
    <3> QED
      BY <1>1, <3>1, <3>2
  <2> QED
    BY <1>1, <2>1 DEF Inv, BouncesInOrder, mail
<1>4. HandlersOK' /\ NoBounceIsForgotten'
  BY <1>1 DEF Inv, HandlersOK, NoBounceIsForgotten, sqs
<1> QED
  BY <1>1, <1>2, <1>3, <1>4, QueueStep DEF mail

-----------------------------------------------------------------------------
(* The theorems.                                                           *)

LEMMA NextInv == Inv /\ [Next]_vars => Inv'
<1> SUFFICES ASSUME Inv, [Next]_vars PROVE Inv'
  OBVIOUS
<1>1. CASE \E s \in Sends : \E kind \in Kinds, list \in Lists : Start(s, kind, list)
  BY <1>1, StartKeeps
<1>2. CASE \E s \in Sends : Check(s) \/ CheckFails(s)
  BY <1>2, CheckKeeps, CheckFailsKeeps
<1>3. CASE \E s \in Sends : \E a \in Addresses, route \in [Addresses -> Services] : Route(s, a, route)
  BY <1>3, RouteKeeps
<1>4. CASE \E s \in Sends : send[s] # None /\ \E p \in send[s].parts : Deliver(s, p) \/ DeliverFails(s, p)
  <2>1. PICK s \in Sends : \E p \in send[s].parts : Deliver(s, p) \/ DeliverFails(s, p)
    BY <1>4
  <2>2. PICK p \in send[s].parts : Deliver(s, p) \/ DeliverFails(s, p)
    BY <2>1
  <2> QED
    BY <2>2, DeliverKeeps, DeliverFailsKeeps
<1>5. CASE \E s \in Sends : \E a \in Addresses, m \in Notes, t \in Types, b \in BOOLEAN : Bounce(s, a, m, t, b)
  BY <1>5, BounceKeeps
<1>6. CASE \E f \in Fetches : \E g \in Fetches, m \in Notes \cup {None}, h \in Handlers : Receive(f, g, m, h)
  BY <1>6, ReceiveKeeps
<1>7. CASE \E f \in Fetches : ReceiveError(f) \/ FetchAgain(f) \/ Crash(f)
  BY <1>7, FetchKeeps, CrashKeeps
<1>8. CASE \E h \in Handlers : Record(h) \/ RecordFails(h) \/ Delete(h)
  BY <1>8, RecordKeeps, RecordFailsKeeps, DeleteKeeps
<1>9. CASE Tick
  BY <1>9, TickKeeps
<1>10. CASE UNCHANGED vars
  <2>1. TypeOK' /\ BouncesInOrder' /\ MailsFit'
    BY <1>10 DEF vars, mail, sqs, Inv, TypeOK, BouncesInOrder, MailsFit
  <2>2. HandlersOK' /\ NoBounceIsForgotten'
    BY <1>10 DEF vars, mail, sqs, Inv, HandlersOK, NoBounceIsForgotten
  <2> QED
    BY <2>1, <2>2 DEF Inv
<1> QED
  BY <1>1, <1>2, <1>3, <1>4, <1>5, <1>6, <1>7, <1>8, <1>9, <1>10 DEF Next

LEMMA InvHolds == Spec => []Inv
<1>1. Init => Inv
  BY InitInv
<1>2. Inv /\ [Next]_vars => Inv'
  BY NextInv
<1> QED
  BY <1>1, <1>2, PTL DEF Spec

LEMMA InvIsOpen == Inv => MailIsForTheOpen
<1> SUFFICES ASSUME Inv PROVE MailIsForTheOpen
  OBVIOUS
<1>1. GatedAreTooMany
  <2>1. clock \in Nat
    BY MailAssumption DEF Inv, TypeOK, Times
  <2> QED
    BY <2>1, GatedIsTooMany DEF Inv, TypeOK, BouncesInOrder, GatedAreTooMany
<1>2. OnlyOpenAreMailed
  <2>1. SUFFICES ASSUME NEW s \in Sends, NEW a \in Addresses, <<s, a>> \in delivered,
                        send[s].kind # "secondary"
                 PROVE  a \in send[s].open
    BY DEF OnlyOpenAreMailed, Inv, TypeOK
  <2>2. send[s] # None
    BY <2>1 DEF Inv, MailsFit
  <2>3. Fits(s, send[s], delivered)
    BY <2>2 DEF Inv, MailsFit
  <2> QED
    BY <2>1, <2>3 DEF Fits
<1>3. SentReachesAll
  <2>1. SUFFICES ASSUME NEW s \in Sends, send[s] # None, send[s].pc = "sent"
                 PROVE  IF send[s].kind = "secondary"
                        THEN \E a \in Addresses \ {Primary} : <<s, a>> \in delivered
                        ELSE {s} \X send[s].open \subseteq delivered
    BY DEF SentReachesAll
  <2>2. Fits(s, send[s], delivered)
    BY <2>1 DEF Inv, MailsFit
  <2>3. send[s].parts = {}
    BY <2>1, <2>2 DEF Fits
  <2>4. \A a : Reaches(s, send[s], delivered, a) => <<s, a>> \in delivered
    BY <2>3 DEF Reaches
  <2>5. IF send[s].kind = "secondary"
        THEN \E a \in Addresses \ {Primary} : Reaches(s, send[s], delivered, a)
        ELSE \A a \in send[s].open : Reaches(s, send[s], delivered, a)
    BY <2>1, <2>2 DEF Fits
  <2> QED
    BY <2>4, <2>5
<1> QED
  BY <1>1, <1>2, <1>3 DEF MailIsForTheOpen

\* Every variable has its type: among others, no mail is checked for an address
\* that the account does not have, nor sent by a service that does not exist.
THEOREM MailTypes == Spec => []TypeOK
<1>1. Inv => TypeOK
  BY DEF Inv
<1> QED
  BY <1>1, InvHolds, PTL

\* Whatever the tiers are and however bounces and mails interleave, applyRules
\* gates exactly the addresses that bounced too often; none of those that were
\* gated gets mail, and a mail that counts as sent was accepted for everyone
\* who was not (bounces.js, senders/index.js getSafeMailer, senders/email.js send).
THEOREM OpenAreMailed == Spec => []MailIsForTheOpen
BY InvHolds, InvIsOpen, PTL

\* Wherever the process of the notifications stops, and however often SQS hands
\* one out, none leaves the queue before its bounce is recorded, unless the
\* database refused it (email/bounces.js handleBounce, sqs.js).
THEOREM BouncesAreRecorded == Spec => []NoBounceIsForgotten
<1>1. Inv => NoBounceIsForgotten
  BY DEF Inv
<1> QED
  BY <1>1, InvHolds, PTL
=============================================================================
