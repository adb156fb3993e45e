------------------------------ MODULE MqttProofs ------------------------------
(***************************************************************************)
(* What is proved of the MQTT session: the records of coreMQTT             *)
(* (MqttRecords), and what the box and the broker are promised             *)
(* (MqttSession, Delivery).                                                *)
(***************************************************************************)
EXTENDS MqttSession, SequenceTheorems, FiniteSetTheorems, WellFoundedInduction, TLAPS

-----------------------------------------------------------------------------
(* The records of coreMQTT: MQTT_ReserveState, MQTT_UpdateStatePublish and MQTT_UpdateStateAck *)
(* change the state of the packet id that they are called with, and of no other one, also when  *)
(* compactRecords moves them. *)

\* An array of records in which every id comes once
RecordArray(n, ids, states) == [1..n -> [id : ids, state : states] \cup {Empty}]
OneEach(a) == \A i, j \in Places(a) : a[i].id = a[j].id => i = j

\* findInRecord returns the place of an id, or 0 when the id has none.
LEMMA FindRight ==
  ASSUME NEW n \in Nat, NEW ids, NEW states, NEW a \in RecordArray(n, ids, states), NEW id
  PROVE  /\ DOMAIN a = 1..n
         /\ FindInRecord(a, id) = 0 => \A i \in 1..n : a[i].id # id
         /\ FindInRecord(a, id) # 0 => FindInRecord(a, id) \in 1..n /\ a[FindInRecord(a, id)].id = id
<1>1. DOMAIN a = 1..n  BY DEF RecordArray
<1>2. CASE \E i \in 1..n : a[i].id = id
  <2> DEFINE f == CHOOSE i \in 1..n : a[i].id = id
  <2>1. f \in 1..n /\ a[f].id = id  BY <1>2
  <2>2. FindInRecord(a, id) = f  BY <1>1, <1>2 DEF FindInRecord
  <2> QED  BY <1>1, <2>1, <2>2
<1>3. CASE ~\E i \in 1..n : a[i].id = id
  <2>1. FindInRecord(a, id) = 0  BY <1>1, <1>3 DEF FindInRecord
  <2> QED  BY <1>1, <1>3, <2>1
<1> QED  BY <1>2, <1>3

\* What the records say of an id (core_mqtt_state.c), if each id has one.
LEMMA StateRight ==
  ASSUME NEW n \in Nat, NEW ids, NEW states, NEW a \in RecordArray(n, ids, states),
         NoId \notin ids, "Null" \notin states, OneEach(a)
  PROVE  /\ \A i \in 1..n : a[i].id # NoId => /\ FindInRecord(a, a[i].id) = i /\ StateOf(a, a[i].id) = a[i].state
                                              /\ a[i].id \in ids /\ a[i].state \in states
         /\ \A id \in ids : StateOf(a, id) = "Null" <=> FindInRecord(a, id) = 0
         /\ \A id \in ids : (\A i \in 1..n : a[i].id # id) => StateOf(a, id) = "Null"
         /\ \A id \in ids : StateOf(a, id) \in states \cup {"Null"}
<1>1. ASSUME NEW i \in 1..n, a[i].id # NoId
      PROVE  /\ FindInRecord(a, a[i].id) = i /\ StateOf(a, a[i].id) = a[i].state
             /\ a[i].id \in ids /\ a[i].state \in states
  <2> DEFINE f == FindInRecord(a, a[i].id)
  <2>1. f \in 1..n /\ a[f].id = a[i].id  BY FindRight
  <2>2. f = i  BY <1>1, <2>1, FindRight DEF OneEach, Places
  <2>3. StateOf(a, a[i].id) = a[i].state  BY <2>2 DEF StateOf
  <2>4. a[i].id \in ids /\ a[i].state \in states  BY <1>1 DEF RecordArray, Empty
  <2> QED  BY <2>2, <2>3, <2>4
<1>2. ASSUME NEW id \in ids, FindInRecord(a, id) # 0 PROVE StateOf(a, id) \in states
  <2> DEFINE f == FindInRecord(a, id)
  <2>1. f \in 1..n /\ a[f].id = id  BY <1>2, FindRight
  <2> QED  BY <1>1, <2>1
<1>3. ASSUME NEW id \in ids, FindInRecord(a, id) = 0 PROVE StateOf(a, id) = "Null"
  BY <1>3 DEF StateOf
<1>4. ASSUME NEW id \in ids, \A i \in 1..n : a[i].id # id PROVE FindInRecord(a, id) = 0
  BY <1>4, FindRight
<1> QED  BY <1>1, <1>2, <1>3, <1>4

\* A set of natural numbers has a smallest member (for the searches of core_mqtt_state.c).
LEMMA Least ==
  ASSUME NEW T \in SUBSET Nat, T # {}
  PROVE  \E x \in T : \A y \in T : x <= y
<1>1. PICK x \in T : \A y \in T : <<y, x>> \notin OpToRel(<, Nat)
  BY WFMin, NatLessThanWellFounded, Zenon
<1>2. ASSUME NEW y \in T PROVE x <= y
  <2>1. x \in Nat /\ y \in Nat /\ <<y, x>> \notin {ss \in Nat \X Nat : ss[1] < ss[2]}
    BY <1>1 DEF OpToRel
  <2> QED  BY <2>1
<1> QED  BY <1>2

\* The search for a free place (addRecord) runs from the end and stops at the last record.
LEMMA PlaceAfterLast ==
  ASSUME NEW n \in Nat \ {0}, NEW P \in SUBSET (1..n), n \notin P
  PROVE  \E i \in 1..n : i - 1 \in P \cup {0} /\ \A j \in P : j < i
<1> DEFINE T == {i \in 1..n : \A j \in P : j < i}
<1>1. T \in SUBSET Nat /\ n \in T  OBVIOUS
<1>2. PICK i \in T : \A y \in T : i <= y
  <2> HIDE DEF T
  <2> QED  BY <1>1, Least
<1>3. CASE i = 1  BY <1>3
<1>4. CASE i # 1
  <2>1. i - 1 \in 1..n /\ i - 1 \notin T  BY <1>2, <1>4
  <2>2. PICK j \in P : ~(j < i - 1)  BY <2>1
  <2>3. j = i - 1  BY <1>2, <2>2
  <2> QED  BY <1>2, <2>2, <2>3
<1> QED  BY <1>3, <1>4

\* The places of the records in their order: the k-th of them is one that k of them do not
\* come after (compactRecords).
LEMMA RankRight ==
  ASSUME NEW n \in Nat, NEW P \in SUBSET (1..n)
  PROVE  /\ IsFiniteSet(P) /\ Cardinality(P) \in 0..n
         /\ \A i \in P : Cardinality({j \in P : j <= i}) \in 1..Cardinality(P)
         /\ \A i, u \in P : Cardinality({j \in P : j <= i}) = Cardinality({j \in P : j <= u}) => i = u
         /\ \A k \in 1..Cardinality(P) : \E i \in P : Cardinality({j \in P : j <= i}) = k
<1> DEFINE Upto(i) == {j \in P : j <= i}
           rank == [i \in P |-> Cardinality(Upto(i))]
           m == Cardinality(P)
<1>1. IsFiniteSet(1..n) /\ Cardinality(1..n) = n  BY FS_Interval
<1>2. IsFiniteSet(P) /\ m \in Nat /\ m <= n  BY <1>1, FS_Subset, FS_CardinalityType
<1>3. ASSUME NEW i \in P
      PROVE  IsFiniteSet(Upto(i)) /\ Cardinality(Upto(i)) \in 1..m
  <2>1. Upto(i) \in SUBSET P /\ i \in Upto(i)  OBVIOUS
  <2>2. IsFiniteSet(Upto(i)) /\ Cardinality(Upto(i)) <= m /\ Cardinality(Upto(i)) \in Nat
    BY <1>2, <2>1, FS_Subset, FS_CardinalityType
  <2>3. Cardinality(Upto(i)) # 0  BY <2>1, <2>2, FS_EmptySet
  <2> QED  BY <1>2, <2>2, <2>3
<1>4. ASSUME NEW i \in P, NEW u \in P, i < u PROVE Cardinality(Upto(i)) # Cardinality(Upto(u))
  <2>1. Upto(i) \in SUBSET Upto(u) /\ u \in Upto(u) /\ u \notin Upto(i)
    <3>1. i \in Int /\ u \in Int /\ \A j \in P : j \in Int  OBVIOUS
    <3>2. u <= u /\ ~(u <= i) /\ \A j \in P : j <= i => j <= u  BY <1>4, <3>1
    <3> QED  BY <3>2, Zenon
  <2>2. Upto(u) # Upto(i)  BY <2>1
  <2> HIDE DEF Upto
  <2> QED  BY <1>3, <2>1, <2>2, FS_Subset
<1>5. ASSUME NEW i \in P, NEW u \in P, Cardinality(Upto(i)) = Cardinality(Upto(u)) PROVE i = u
  <2>1. i \in Int /\ u \in Int  OBVIOUS
  <2> HIDE DEF Upto
  <2> QED  BY <1>4, <1>5, <2>1
<1>6. rank \in Injection(P, 1..m)
  <2> HIDE DEF Upto, m
  <2>1. rank \in [P -> 1..m]  BY <1>3
  <2>2. IsInjective(rank)  BY <1>5 DEF IsInjective
  <2> QED  BY <2>1, <2>2 DEF Injection
<1>7. rank \in Surjection(P, 1..m)
  <2> HIDE DEF rank, m
  <2>1. IsFiniteSet(1..m) /\ Cardinality(1..m) = m  BY <1>2, FS_Interval
  <2> QED  BY <1>6, <2>1, FS_Injection DEF m
<1>8. \A k \in 1..m : \E i \in P : Cardinality(Upto(i)) = k
  <2>1. \A k \in 1..m : \E i \in P : rank[i] = k
    <3> HIDE DEF rank, m
    <3> QED  BY <1>7 DEF Surjection
  <2> HIDE DEF Upto, m
  <2> QED  BY <2>1
<1> QED  BY <1>2, <1>3, <1>5, <1>8

\* compactRecords keeps what is recorded, each record once and in the first places.
LEMMA UsedRight ==
  ASSUME NEW n \in Nat, NEW a, DOMAIN a = 1..n
  PROVE  LET m == Cardinality(Places(a)) IN
         /\ m \in 0..n /\ DOMAIN Used(a) = 1..m
         /\ \E pick \in [1..m -> Places(a)] :
              /\ \A k \in 1..m : Used(a)[k] = a[pick[k]]
              /\ \A k, l \in 1..m : pick[k] = pick[l] => k = l
              /\ \A i \in Places(a) : \E k \in 1..m : pick[k] = i
<1> DEFINE P == Places(a)
           m == Cardinality(P)
           Rank(i) == Cardinality({j \in P : j <= i})
           pick == [k \in 1..m |-> CHOOSE i \in P : Rank(i) = k]
<1>1. P \in SUBSET (1..n)  BY DEF Places
<1>2. /\ m \in 0..n /\ \A i \in P : Rank(i) \in 1..m
      /\ \A i, u \in P : Rank(i) = Rank(u) => i = u
      /\ \A k \in 1..m : \E i \in P : Rank(i) = k
  <2> HIDE DEF P
  <2> QED  BY <1>1, RankRight
<1>3. Used(a) = [k \in 1..m |-> a[CHOOSE i \in P : Rank(i) = k]]  BY DEF Used
<1> HIDE DEF P, m, Rank
<1>4. ASSUME NEW k \in 1..m PROVE pick[k] \in P /\ Rank(pick[k]) = k
  BY <1>2
<1>5. DOMAIN Used(a) = 1..m /\ \A k \in 1..m : Used(a)[k] = a[pick[k]]  BY <1>3
<1>6. pick \in [1..m -> P]  BY <1>4
<1> HIDE DEF pick
<1>7. \A k, l \in 1..m : pick[k] = pick[l] => k = l  BY <1>4
<1>8. \A i \in P : \E k \in 1..m : pick[k] = i  BY <1>2, <1>4
<1> QED  BY <1>2, <1>5, <1>6, <1>7, <1>8 DEF P, m

\* compactRecords moves the records to the front and loses none.
LEMMA CompactRight ==
  ASSUME NEW n \in Nat, NEW ids, NEW states, NEW a \in RecordArray(n, ids, states),
         NoId \notin ids, "Null" \notin states, OneEach(a)
  PROVE  LET c == CompactRecords(a) IN
         /\ c \in RecordArray(n, ids, states) /\ OneEach(c)
         /\ \A id \in ids : StateOf(c, id) = StateOf(a, id)
<1> DEFINE m == Cardinality(Places(a))
           c == CompactRecords(a)
           R == [id : ids, state : states] \cup {Empty}
<1>1. DOMAIN a = 1..n /\ a \in Seq(R) /\ Len(a) = n
  <2>1. a \in [1..n -> R]  BY DEF RecordArray
  <2> HIDE DEF R
  <2> QED  BY <2>1
<1>2. m \in 0..n /\ DOMAIN Used(a) = 1..m  BY <1>1, UsedRight
<1>3. PICK pick \in [1..m -> Places(a)] :
        /\ \A k \in 1..m : Used(a)[k] = a[pick[k]]
        /\ \A k, l \in 1..m : pick[k] = pick[l] => k = l
        /\ \A i \in Places(a) : \E k \in 1..m : pick[k] = i
  BY <1>1, UsedRight
<1>4. Places(a) \subseteq 1..n /\ \A i \in Places(a) : a[i].id # NoId /\ a[i] \in R
  BY <1>1 DEF Places, RecordArray
<1> HIDE DEF m, R
<1>5. Used(a) \in Seq(R) /\ Len(Used(a)) = m
  <2>1. Used(a) = [k \in 1..m |-> Used(a)[k]]
    <3>1. Used(a) = [k \in DOMAIN Used(a) |-> Used(a)[k]]  BY DEF Used
    <3> QED  BY <1>2, <3>1
  <2>2. \A k \in 1..m : Used(a)[k] \in R  BY <1>3, <1>4
  <2> HIDE DEF Used
  <2>3. Used(a) \in [1..m -> R]  BY <2>1, <2>2
  <2> QED  BY <1>2, <2>3
<1>6. NoRecords(n - m) \in Seq(R) /\ Len(NoRecords(n - m)) = n - m /\ \A i \in 1..n - m : NoRecords(n - m)[i] = Empty
  <2>1. NoRecords(n - m) \in [1..n - m -> R] /\ n - m \in Nat  BY <1>2 DEF NoRecords, R
  <2> QED  BY <2>1 DEF NoRecords
<1>7. c = Used(a) \o NoRecords(n - m)  BY <1>1, <1>5 DEF CompactRecords
<1>8. c \in Seq(R) /\ Len(c) = n /\ \A k \in 1..n : c[k] = IF k <= m THEN a[pick[k]] ELSE Empty
  <2>1. /\ Used(a) \o NoRecords(n - m) \in Seq(R)
        /\ Len(Used(a) \o NoRecords(n - m)) = Len(Used(a)) + Len(NoRecords(n - m))
        /\ \A k \in 1..Len(Used(a)) + Len(NoRecords(n - m)) : (Used(a) \o NoRecords(n - m))[k] =
              IF k <= Len(Used(a)) THEN Used(a)[k] ELSE NoRecords(n - m)[k - Len(Used(a))]
    <3>1. Used(a) \in Seq(R) /\ NoRecords(n - m) \in Seq(R)  BY <1>5, <1>6, Zenon
    <3>2. PICK v, w : v = Used(a) /\ w = NoRecords(n - m)  OBVIOUS
    <3>3. v \in Seq(R) /\ w \in Seq(R)  BY <3>1, <3>2, Zenon
    <3>4. /\ v \o w \in Seq(R) /\ Len(v \o w) = Len(v) + Len(w)
          /\ \A k \in 1..Len(v) + Len(w) : (v \o w)[k] = IF k <= Len(v) THEN v[k] ELSE w[k - Len(v)]
      BY <3>3, ConcatProperties, Zenon
    <3> QED  BY <3>2, <3>4, Zenon
  <2>2. m + (n - m) = n  BY <1>2
  <2>3. ASSUME NEW k \in 1..n PROVE c[k] = IF k <= m THEN a[pick[k]] ELSE Empty
    <3>1. CASE k <= m  BY <1>2, <1>3, <1>5, <1>6, <1>7, <2>1, <2>2, <3>1
    <3>2. CASE ~(k <= m)
      <4>1. k - m \in 1..n - m  BY <1>2, <3>2
      <4> QED  BY <1>2, <1>5, <1>6, <1>7, <2>1, <2>2, <3>2, <4>1
    <3> QED  BY <3>1, <3>2
  <2> QED  BY <1>5, <1>6, <1>7, <2>1, <2>2, <2>3
<1> HIDE DEF c
<1>9. c \in RecordArray(n, ids, states) /\ DOMAIN c = 1..n
  <2>1. c \in [1..n -> R]  BY <1>8
  <2> QED  BY <2>1 DEF RecordArray, R
<1>10. ASSUME NEW k \in Places(c) PROVE k \in 1..m /\ c[k] = a[pick[k]] /\ pick[k] \in Places(a)
  <2>1. k \in 1..n /\ c[k].id # NoId  BY <1>9 DEF Places
  <2>2. k <= m  BY <1>8, <2>1 DEF Empty
  <2> QED  BY <1>2, <1>3, <1>8, <2>1, <2>2
<1>11. OneEach(c)
  <2> SUFFICES ASSUME NEW i \in Places(c), NEW j \in Places(c), c[i].id = c[j].id PROVE i = j
    BY DEF OneEach
  <2>1. pick[i] = pick[j]  BY <1>10 DEF OneEach
  <2> QED  BY <1>3, <1>10, <2>1
<1>12. ASSUME NEW id \in ids PROVE StateOf(c, id) = StateOf(a, id)
  <2>1. CASE \E k \in Places(c) : c[k].id = id
    <3>1. PICK k \in Places(c) : c[k].id = id  BY <2>1
    <3>2. StateOf(c, id) = c[k].state  BY <1>9, <1>11, <3>1, StateRight DEF Places
    <3>3. StateOf(a, id) = a[pick[k]].state  BY <1>1, <1>4, <1>10, <3>1, StateRight
    <3> QED  BY <1>10, <3>1, <3>2, <3>3
  <2>2. CASE ~\E k \in Places(c) : c[k].id = id
    <3>1. \A k \in 1..n : c[k].id # id  BY <1>9, <2>2 DEF Places
    <3>2. StateOf(c, id) = "Null"  BY <1>9, <1>11, <3>1, StateRight
    <3>3. ASSUME NEW i \in 1..n, a[i].id = id PROVE FALSE
      <4>1. i \in Places(a)  BY <1>1, <3>3 DEF Places
      <4>2. PICK k \in 1..m : pick[k] = i  BY <1>3, <4>1
      <4>3. k \in 1..n /\ c[k] = a[i]  BY <1>2, <1>8, <4>2
      <4> QED  BY <3>1, <3>3, <4>3
    <3>4. StateOf(a, id) = "Null"  BY <3>3, StateRight
    <3> QED  BY <3>2, <3>4
  <2> QED  BY <2>1, <2>2
<1> QED  BY <1>9, <1>11, <1>12 DEF c

\* addRecord takes no id that is there, and nothing when there is no room.
LEMMA AddRight ==
  ASSUME NEW n \in Nat \ {0}, NEW ids, NEW states, NEW a \in RecordArray(n, ids, states),
         NoId \notin ids, "Null" \notin states, OneEach(a), NEW id \in ids, NEW st \in states
  PROVE  LET r == AddRecord(a, id, st) IN
         /\ r.records \in RecordArray(n, ids, states) /\ OneEach(r.records)
         /\ r.status \in {"StateCollision", "NoMemory", "Success"}
         /\ r.status = "StateCollision" <=> StateOf(a, id) # "Null"
         /\ \A x \in ids : StateOf(r.records, x) = IF r.status = "Success" /\ x = id THEN st ELSE StateOf(a, x)
<1> DEFINE c == IF Len(a) \in Places(a) THEN CompactRecords(a) ELSE a
           status == IF FindInRecord(c, id) # 0 THEN "StateCollision"
                     ELSE IF Len(c) \in Places(c) THEN "NoMemory" ELSE "Success"
           free == CHOOSE i \in 1..Len(c) : i - 1 \in Places(c) \cup {0} /\ \A j \in Places(c) : j < i
           d == IF status = "Success" THEN [c EXCEPT ![free] = [id |-> id, state |-> st]] ELSE c
<1>1. AddRecord(a, id, st) = [status |-> status, records |-> d]  BY DEF AddRecord
<1>2. c \in RecordArray(n, ids, states) /\ OneEach(c) /\ \A x \in ids : StateOf(c, x) = StateOf(a, x)
  BY CompactRight
<1> HIDE DEF c
<1>3. DOMAIN c = 1..n /\ Len(c) = n
  <2>1. c \in [1..n -> [id : ids, state : states] \cup {Empty}]  BY <1>2 DEF RecordArray
  <2> QED  BY <2>1
<1>4. status = "StateCollision" <=> StateOf(a, id) # "Null"  BY <1>2, StateRight
<1>5. CASE status # "Success"
  <2>1. d = c  BY <1>5
  <2> QED  BY <1>1, <1>2, <1>4, <1>5, <2>1
<1>6. CASE status = "Success"
  <2>1. FindInRecord(c, id) = 0 /\ n \notin Places(c)  BY <1>3, <1>6
  <2>2. Places(c) \in SUBSET (1..n)  BY <1>3 DEF Places
  <2>3. free \in 1..n /\ \A j \in Places(c) : j < free  BY <1>3, <2>1, <2>2, PlaceAfterLast
  <2> HIDE DEF free, status
  <2>4. free \notin Places(c)  BY <2>3
  <2>5. d = [c EXCEPT ![free] = [id |-> id, state |-> st]]  BY <1>6
  <2> HIDE DEF d
  <2>6. d \in RecordArray(n, ids, states) /\ DOMAIN d = 1..n  BY <1>2, <1>3, <2>3, <2>5 DEF RecordArray
  <2>7. d[free].id = id /\ d[free].state = st /\ \A i \in 1..n : i # free => d[i] = c[i]
    BY <1>3, <2>3, <2>5
  <2>8. \A i \in 1..n : c[i].id # id  BY <1>2, <2>1, FindRight
  <2>9. OneEach(d)
    <3> SUFFICES ASSUME NEW i \in Places(d), NEW j \in Places(d), d[i].id = d[j].id PROVE i = j
      BY DEF OneEach
    <3>1. i \in 1..n /\ j \in 1..n  BY <2>6 DEF Places
    <3> QED  BY <1>2, <1>3, <2>6, <2>7, <2>8, <3>1 DEF OneEach, Places
  <2>10. ASSUME NEW x \in ids PROVE StateOf(d, x) = IF x = id THEN st ELSE StateOf(c, x)
    <3>1. CASE x = id
      <4>1. d[free].id # NoId  BY <2>7
      <4> QED  BY <2>3, <2>6, <2>7, <2>9, <3>1, <4>1, StateRight
    <3>2. CASE x # id /\ \E i \in 1..n : c[i].id = x
      <4>1. PICK i \in 1..n : c[i].id = x  BY <3>2
      <4>2. x # NoId  OBVIOUS
      <4>3. i # free  BY <1>3, <2>4, <4>1, <4>2 DEF Places
      <4>4. d[i] = c[i]  BY <2>7, <4>3
      <4>5. StateOf(c, x) = c[i].state  BY <1>2, <4>1, <4>2, StateRight
      <4>6. StateOf(d, x) = d[i].state  BY <2>6, <2>9, <4>1, <4>2, <4>4, StateRight
      <4> QED  BY <3>2, <4>4, <4>5, <4>6
    <3>3. CASE x # id /\ ~\E i \in 1..n : c[i].id = x
      <4>1. \A i \in 1..n : d[i].id # x  BY <2>3, <2>7, <3>3
      <4> QED  BY <1>2, <2>6, <2>9, <3>3, <4>1, StateRight
    <3> QED  BY <3>1, <3>2, <3>3
  <2> QED  BY <1>1, <1>2, <1>4, <1>6, <2>6, <2>9, <2>10
<1> QED  BY <1>5, <1>6

\* updateRecord changes the one record, or deletes it.
LEMMA UpdateRight ==
  ASSUME NEW n \in Nat \ {0}, NEW ids, NEW states, NEW a \in RecordArray(n, ids, states),
         NoId \notin ids, "Null" \notin states, OneEach(a), NEW id \in ids, StateOf(a, id) # "Null",
         NEW st \in states \cup {"PublishDone"}, "PublishDone" \notin states
  PROVE  LET u == UpdateRecord(a, FindInRecord(a, id), st) IN
         /\ u \in RecordArray(n, ids, states) /\ OneEach(u)
         /\ \A x \in ids : StateOf(u, x) = IF x # id THEN StateOf(a, x)
                                          ELSE IF st = "PublishDone" THEN "Null" ELSE st
<1> DEFINE f == FindInRecord(a, id)
           u == UpdateRecord(a, f, st)
<1>1. f \in 1..n /\ a[f].id = id /\ id # NoId /\ DOMAIN a = 1..n
  BY StateRight, FindRight
<1> HIDE DEF f
<1>2. u = [a EXCEPT ![f] = IF st = "PublishDone" THEN Empty ELSE [a[f] EXCEPT !.state = st]]
  BY DEF UpdateRecord
<1>3. a[f] \in [id : ids, state : states]  BY <1>1 DEF RecordArray, Empty
<1>4. [a[f] EXCEPT !.state = st] = [id |-> id, state |-> st]  BY <1>1, <1>3
<1>5. DOMAIN u = 1..n /\ u[f] = (IF st = "PublishDone" THEN Empty ELSE [id |-> id, state |-> st])
        /\ \A i \in 1..n : i # f => u[i] = a[i]
  BY <1>1, <1>2, <1>4
<1>6. u \in RecordArray(n, ids, states)  BY <1>1, <1>2, <1>4 DEF RecordArray
<1> HIDE DEF u
<1>7. OneEach(u)
  <2> SUFFICES ASSUME NEW i \in Places(u), NEW j \in Places(u), u[i].id = u[j].id PROVE i = j
    BY DEF OneEach
  <2>1. i \in 1..n /\ j \in 1..n /\ u[i].id # NoId /\ u[j].id # NoId  BY <1>5 DEF Places
  <2>2. u[i].id = a[i].id /\ u[j].id = a[j].id  BY <1>1, <1>5, <2>1 DEF Empty
  <2> QED  BY <1>1, <2>1, <2>2 DEF OneEach, Places
<1>8. ASSUME NEW x \in ids
      PROVE  StateOf(u, x) = IF x # id THEN StateOf(a, x) ELSE IF st = "PublishDone" THEN "Null" ELSE st
  <2>0. x # NoId  OBVIOUS
  <2>1. CASE x = id /\ st = "PublishDone"
    <3>1. ASSUME NEW i \in 1..n PROVE u[i].id # x
      <4>1. CASE i = f  BY <1>5, <2>0, <2>1, <4>1 DEF Empty
      <4>2. CASE i # f
        <5>1. u[i] = a[i]  BY <1>5, <4>2
        <5> QED  BY <1>1, <2>0, <2>1, <4>2, <5>1 DEF OneEach, Places
      <4> QED  BY <4>1, <4>2
    <3> QED  BY <1>6, <1>7, <2>1, <3>1, StateRight
  <2>2. CASE x = id /\ st # "PublishDone"
    <3>1. u[f].id = x /\ u[f].state = st  BY <1>5, <2>2
    <3> QED  BY <1>1, <1>6, <1>7, <2>0, <2>2, <3>1, StateRight
  <2>3. CASE x # id /\ \E i \in 1..n : a[i].id = x
    <3>1. PICK i \in 1..n : a[i].id = x  BY <2>3
    <3>2. u[i] = a[i]  BY <1>1, <1>5, <2>3, <3>1
    <3>3. StateOf(a, x) = a[i].state  BY <2>0, <3>1, StateRight
    <3>4. StateOf(u, x) = u[i].state  BY <1>6, <1>7, <2>0, <3>1, <3>2, StateRight
    <3> QED  BY <2>3, <3>2, <3>3, <3>4
  <2>4. CASE x # id /\ ~\E i \in 1..n : a[i].id = x
    <3>1. \A i \in 1..n : u[i].id # x  BY <1>5, <2>0, <2>4 DEF Empty
    <3> QED  BY <1>6, <1>7, <2>4, <3>1, StateRight
  <2> QED  BY <2>1, <2>2, <2>3, <2>4
<1> QED  BY <1>6, <1>7, <1>8 DEF u, f

\* MQTT_UpdateStatePublish for a publish that is sent, again or for the first time
LEMMA SendRight ==
  ASSUME NEW n \in Nat \ {0}, NEW ids, NEW states, NEW a \in RecordArray(n, ids, states),
         NoId \notin ids, states = {"PublishSend", "PubAckPending"}, OneEach(a), NEW id \in ids,
         StateOf(a, id) # "Null"
  PROVE  LET u == UpdateStatePublish(a, id, "SEND") IN
         /\ u.status = "Success" /\ u.records \in RecordArray(n, ids, states) /\ OneEach(u.records)
         /\ \A x \in ids : StateOf(u.records, x) = IF x = id THEN "PubAckPending" ELSE StateOf(a, x)
<1> DEFINE f == FindInRecord(a, id)
<1>1. "Null" \notin states /\ "PublishDone" \notin states /\ "PubAckPending" \in states  OBVIOUS
<1>2. f # 0 /\ a[f].state \in states
  BY <1>1, StateRight DEF StateOf
<1>3. UpdateStatePublish(a, id, "SEND") =
        [status |-> "Success", records |-> UpdateRecord(a, f, "PubAckPending")]
  BY <1>2 DEF UpdateStatePublish, CalculateStatePublish, ValidateTransitionPublish
<1>4. /\ UpdateRecord(a, f, "PubAckPending") \in RecordArray(n, ids, states)
      /\ OneEach(UpdateRecord(a, f, "PubAckPending"))
      /\ \A x \in ids : StateOf(UpdateRecord(a, f, "PubAckPending"), x) =
            IF x = id THEN "PubAckPending" ELSE StateOf(a, x)
  BY <1>1, UpdateRight
<1> HIDE DEF f
<1> QED  BY <1>3, <1>4

\* MQTT_UpdateStateAck for a publish that waits for its acknowledgement, or to be acknowledged
LEMMA AckRight ==
  ASSUME NEW n \in Nat \ {0}, NEW ids, NEW states, NEW a \in RecordArray(n, ids, states),
         NoId \notin ids, "Null" \notin states, "PublishDone" \notin states, OneEach(a), NEW id \in ids,
         StateOf(a, id) \in {"PubAckPending", "PubAckSend"}
  PROVE  LET u == UpdateStateAck(a, id) IN
         /\ u.status = "Success" /\ u.records \in RecordArray(n, ids, states) /\ OneEach(u.records)
         /\ \A x \in ids : StateOf(u.records, x) = IF x = id THEN "Null" ELSE StateOf(a, x)
<1> DEFINE f == FindInRecord(a, id)
<1>1. f # 0 /\ a[f].state \in {"PubAckPending", "PubAckSend"} /\ StateOf(a, id) # "Null"
  BY StateRight DEF StateOf
<1>2. UpdateStateAck(a, id) = [status |-> "Success", records |-> UpdateRecord(a, f, "PublishDone")]
  BY <1>1 DEF UpdateStateAck, ValidateTransitionAck
<1>3. /\ UpdateRecord(a, f, "PublishDone") \in RecordArray(n, ids, states)
      /\ OneEach(UpdateRecord(a, f, "PublishDone"))
      /\ \A x \in ids : StateOf(UpdateRecord(a, f, "PublishDone"), x) =
            IF x = id THEN "Null" ELSE StateOf(a, x)
  BY <1>1, UpdateRight
<1> HIDE DEF f
<1> QED  BY <1>2, <1>3

-----------------------------------------------------------------------------
(* The packets of a connection *)

\* The packets of a connection, and those of one type and one id
In(q) == {q[i] : i \in 1..Len(q)}
Has(q, t, id) == \E p \in In(q) : p.type = t /\ p.id = id
Once(q, t) == \A i, j \in 1..Len(q) : q[i].type = t /\ q[j].type = t /\ q[i].id = q[j].id => i = j

\* A packet that is sent is the last one of its connection, and a new one of its type and id
\* if there was none (Sent, Reply).
LEMMA AppendIn ==
  ASSUME NEW S, NEW q \in Seq(S), NEW p \in S
  PROVE  /\ Append(q, p) \in Seq(S) /\ In(Append(q, p)) = In(q) \cup {p}
         /\ \A t : Once(q, t) /\ (p.type = t => ~Has(q, t, p.id)) => Once(Append(q, p), t)
<1> DEFINE r == Append(q, p)
           n == Len(q)
<1>1. /\ n \in Nat /\ r \in Seq(S) /\ Len(r) = n + 1 /\ r[n + 1] = p
      /\ \A i \in 1..n : r[i] = q[i]
  BY AppendProperties, LenProperties
<1> HIDE DEF r, n
<1>2. In(r) = {r[i] : i \in 1..n + 1} /\ In(q) = {q[i] : i \in 1..n}  BY <1>1 DEF In, n
<1>3. In(r) = In(q) \cup {p}  BY <1>1, <1>2
<1>4. ASSUME NEW t, Once(q, t), p.type = t => ~Has(q, t, p.id) PROVE Once(r, t)
  <2> SUFFICES ASSUME NEW i \in 1..n + 1, NEW j \in 1..n + 1, i < j, r[i].type = t, r[j].type = t, r[i].id = r[j].id
               PROVE  FALSE
    BY <1>1 DEF Once
  <2>1. i \in 1..n /\ r[i] = q[i] /\ q[i] \in In(q)  BY <1>1, <1>2
  <2>2. CASE j = n + 1  BY <1>1, <1>4, <2>1, <2>2 DEF Has
  <2>3. CASE j # n + 1
    <3>1. j \in 1..n /\ r[j] = q[j]  BY <1>1, <2>3
    <3> QED  BY <1>4, <2>1, <3>1 DEF Once, n
  <2> QED  BY <2>2, <2>3
<1> QED  BY <1>1, <1>3, <1>4 DEF r

\* A packet that is taken was the first one of its connection, and of its type and id the only
\* one if each is there once.
LEMMA TailIn ==
  ASSUME NEW S, NEW q \in Seq(S), q # <<>>
  PROVE  /\ Head(q) \in S /\ Head(q) \in In(q) /\ Tail(q) \in Seq(S) /\ In(q) = In(Tail(q)) \cup {Head(q)}
         /\ \A t : Once(q, t) => Once(Tail(q), t) /\ (Head(q).type = t => ~Has(Tail(q), t, Head(q).id))
<1> DEFINE r == Tail(q)
           n == Len(q)
<1>1. /\ n \in Nat \ {0} /\ r \in Seq(S) /\ Len(r) = n - 1 /\ Head(q) = q[1] /\ Head(q) \in S
      /\ \A i \in 1..n - 1 : r[i] = q[i + 1]
  BY HeadTailProperties, EmptySeq
<1>2. In(r) = {r[i] : i \in 1..n - 1} /\ In(q) = {q[i] : i \in 1..n}
  BY <1>1 DEF In
<1> HIDE DEF r, n
<1>3. In(q) = In(r) \cup {Head(q)}
  <2>1. ASSUME NEW i \in 1..n PROVE q[i] \in In(r) \cup {Head(q)}
    <3>1. CASE i = 1  BY <1>1, <3>1
    <3>2. CASE i # 1
      <4>1. i - 1 \in 1..n - 1 /\ i - 1 + 1 = i  BY <1>1, <3>2
      <4>2. r[i - 1] = q[i]  BY <1>1, <4>1
      <4> QED  BY <1>2, <4>1, <4>2
    <3> QED  BY <3>1, <3>2
  <2>2. ASSUME NEW i \in 1..n - 1 PROVE r[i] \in In(q)
    <3>1. i + 1 \in 1..n /\ r[i] = q[i + 1]  BY <1>1
    <3> QED  BY <1>2, <3>1
  <2>3. q[1] \in In(q)  BY <1>1, <1>2
  <2> QED  BY <1>1, <1>2, <2>1, <2>2, <2>3
<1>4. ASSUME NEW t, Once(q, t) PROVE Once(r, t) /\ (Head(q).type = t => ~Has(r, t, Head(q).id))
  <2>1. ASSUME NEW i \in 1..n - 1, NEW j \in 1..n - 1, r[i].type = t, r[j].type = t, r[i].id = r[j].id PROVE i = j
    <3>1. i + 1 \in 1..n /\ j + 1 \in 1..n /\ r[i] = q[i + 1] /\ r[j] = q[j + 1]  BY <1>1
    <3>2. i + 1 = j + 1  BY <1>4, <2>1, <3>1 DEF Once, n
    <3> QED  BY <3>2
  <2>2. ASSUME Head(q).type = t, NEW i \in 1..n - 1, r[i].type = t, r[i].id = Head(q).id PROVE FALSE
    <3>1. i + 1 \in 1..n /\ 1 \in 1..n /\ r[i] = q[i + 1] /\ i + 1 # 1  BY <1>1
    <3> QED  BY <1>1, <1>4, <2>2, <3>1 DEF Once, n
  <2> QED  BY <1>1, <1>2, <2>1, <2>2 DEF Once, Has
<1> QED  BY <1>1, <1>2, <1>3, <1>4 DEF r

\* A connection that is gone, or only has one packet on it
LEMMA FewIn ==
  /\ In(<<>>) = {} /\ \A t : Once(<<>>, t)
  /\ \A p : In(<<p>>) = {p} /\ \A t : Once(<<p>>, t)
BY DEF In, Once

-----------------------------------------------------------------------------
(* The inductive invariant *)

PacketIds == 1..LastId

ToBroker == [type : {"CONNECT", "PINGREQ"}, id : {NoId}] \cup [type : {"SUBSCRIBE"}, id : PacketIds]
              \cup [type : {"PUBACK"}, id : BrokerIds]
              \cup [type : {"PUBLISH"}, id : PacketIds, msg : Messages \cup {Garbage}]
ToClient == [type : {"CONNACK"}, present : BOOLEAN] \cup [type : {"PINGRESP"}, id : {NoId}]
              \cup [type : {"SUBACK", "PUBACK"}, id : PacketIds]
              \cup [type : {"PUBLISH"}, id : BrokerIds, msg : Commands]

\* What the broker gets for a message
Contents == Messages \cup {Garbage}

Outgoing(id) == Has(toBroker, "PUBLISH", id)
Answered(id) == Has(toClient, "PUBACK", id)

\* The records of received publishes hold the id.
Known(b) == StateOf(incoming, b) # "Null"

Typed ==
  /\ phase \in {"offline", "connack", "resend", "subscribe", "suback", "serving"}
  /\ at \in 1..Slots \cup 1..Topics /\ nextId \in PacketIds /\ subId \in 0..LastId
  /\ phase = "resend" => at \in 1..Slots
  /\ phase \in {"subscribe", "suback"} => at \in 1..Topics
  /\ ping \in BOOLEAN /\ steady \in BOOLEAN /\ session \in BOOLEAN /\ lost \in BOOLEAN
  /\ slots \in [1..Slots -> [id : PacketIds, msg : Messages] \cup {Free}]
  /\ outgoing \in RecordArray(Records, PacketIds, {"PublishSend", "PubAckPending"})
  /\ incoming \in RecordArray(Records, BrokerIds, {"PubAckSend"})
  /\ link \in {"up", "cut"}
  /\ toBroker \in Seq(ToBroker) /\ toClient \in Seq(ToClient)
  /\ unacked \in [BrokerIds -> Commands \cup {NoMessage}]
  /\ reached \subseteq Held \X Contents /\ handed \subseteq Commands

\* The packets that are kept have ids and messages of their own, and a record that waits.
SlotsApart ==
  \A s, u \in Places(slots) : slots[s].id = slots[u].id \/ slots[s].msg = slots[u].msg => s = u
KeptWait == \A s \in Places(slots) : StateOf(outgoing, slots[s].id) = "PubAckPending"

\* A CONNECT is alone on a connection, and its answer is the first that comes.
Connecting ==
  /\ \A p \in In(toBroker) : p.type = "CONNECT" =>
       /\ toBroker = <<Packet("CONNECT", NoId)>> /\ toClient = <<>>
       /\ phase = "connack" \/ (phase = "offline" /\ link = "cut")
  /\ phase = "connack" =>
       /\ \A p \in In(toBroker) : p.type = "CONNECT"
       /\ \A i \in 1..Len(toClient) : toClient[i].type = IF i = 1 THEN "CONNACK" ELSE "PUBLISH"
  /\ phase = "connack" /\ link = "up" => toBroker # <<>> \/ toClient # <<>>
  /\ phase # "connack" => \A p \in In(toClient) : p.type # "CONNACK"

\* The broker has a session after a CONNECT, and a lost one has been lost for the box.
SessionKnown ==
  /\ link = "up" /\ (\A p \in In(toBroker) : p.type # "CONNECT") => session
  /\ ~session => lost
  /\ \A p \in In(toClient) : p.type = "CONNACK" /\ ~p.present => lost

\* A kept packet is under way once in a connection, or its answer is.
OutboundOnce ==
  /\ Once(toBroker, "PUBLISH") /\ Once(toClient, "PUBACK")
  /\ \A id \in PacketIds : ~(Outgoing(id) /\ Answered(id))
  /\ phase # "offline" => \A id \in PacketIds :
       Outgoing(id) \/ Answered(id) => StateOf(outgoing, id) = "PubAckPending"
  /\ phase \in {"connack", "resend"} => \A s \in Places(slots) :
       phase = "connack" \/ s >= at => ~Outgoing(slots[s].id) /\ ~Answered(slots[s].id)

\* What is under way is what is kept, and what is answered has reached the broker.
OutboundSame == \A s \in Places(slots) :
  /\ \A p \in In(toBroker) : p.type = "PUBLISH" /\ p.id = slots[s].id => p.msg \in ContentLater(slots[s].msg)
  /\ Answered(slots[s].id) => \E r \in reached : r[1] = slots[s].msg

\* A command of the broker is under way once, or its answer is, in a session that goes on.
InboundOnce ==
  /\ Once(toBroker, "PUBACK") /\ Once(toClient, "PUBLISH")
  /\ \A b \in BrokerIds : ~(Has(toBroker, "PUBACK", b) /\ Has(toClient, "PUBLISH", b))

CommandsApart == \A b, c \in BrokerIds : unacked[b] = unacked[c] /\ unacked[b] # NoMessage => b = c

InboundSame ==
  /\ session => \A p \in In(toClient) : p.type = "PUBLISH" => p.msg = unacked[p.id]
  /\ session => \A b \in BrokerIds : Has(toBroker, "PUBACK", b) => unacked[b] # NoMessage
  /\ ~lost => \A b \in BrokerIds : Has(toBroker, "PUBACK", b) =>
       unacked[b] \in handed /\ ~Known(b)
  /\ ~lost => \A b \in BrokerIds : Known(b) => unacked[b] \in handed

Connection == Connecting /\ SessionKnown
Outbound   == SlotsApart /\ OneEach(outgoing) /\ KeptWait /\ OutboundOnce /\ OutboundSame
Inbound    == OneEach(incoming) /\ InboundOnce /\ CommandsApart /\ InboundSame
SessionInv == Typed /\ Connection /\ Outbound /\ Inbound

-----------------------------------------------------------------------------
(* What the calls do to the packets of a connection *)

Shrinks(q, r)  == In(r) \subseteq In(q) /\ \A t : Once(q, t) => Once(r, t)
Grows(q, r, p) == /\ In(r) \subseteq In(q) \cup {p}
                  /\ \A t : Once(q, t) /\ (p.type = t => ~Has(q, t, p.id)) => Once(r, t)

\* What the types of packets that come from the broker carry (HandlePuback, HandlePublish, Connack)
LEMMA FromBroker ==
  ASSUME NEW p \in ToClient
  PROVE  /\ p.type \in {"CONNACK", "PINGRESP", "SUBACK", "PUBACK", "PUBLISH"}
         /\ p.type = "CONNACK" => p.present \in BOOLEAN
         /\ p.type = "PUBACK" => p.id \in PacketIds
         /\ p.type = "SUBACK" => p.id \in PacketIds
         /\ p.type = "PUBLISH" => p.id \in BrokerIds /\ p.msg \in Commands
BY DEF ToClient

\* What the types of packets that go to the broker carry (BrokerReads)
LEMMA FromBox ==
  ASSUME NEW p \in ToBroker
  PROVE  /\ p.type \in {"CONNECT", "PINGREQ", "SUBSCRIBE", "PUBACK", "PUBLISH"}
         /\ p.type = "CONNECT" => p = Packet("CONNECT", NoId)
         /\ p.type = "PUBACK" => p.id \in BrokerIds
         /\ p.type = "SUBSCRIBE" => p.id \in PacketIds
         /\ p.type = "PUBLISH" => p.id \in PacketIds /\ p.msg \in Messages \cup {Garbage}
BY DEF ToBroker, Packet

\* The packets that the calls and the broker make are of these types.
LEMMA Made ==
  /\ Packet("CONNECT", NoId) \in ToBroker /\ Packet("PINGREQ", NoId) \in ToBroker
  /\ Packet("PINGRESP", NoId) \in ToClient
  /\ \A id \in PacketIds : Packet("SUBSCRIBE", id) \in ToBroker /\ Packet("SUBACK", id) \in ToClient
                             /\ Packet("PUBACK", id) \in ToClient
  /\ \A id \in PacketIds, m \in Messages \cup {Garbage} : Publish(id, m) \in ToBroker
  /\ \A b \in BrokerIds : Packet("PUBACK", b) \in ToBroker
  /\ \A b \in BrokerIds, c \in Commands : Publish(b, c) \in ToClient
  /\ \A y \in BOOLEAN : [type |-> "CONNACK", present |-> y] \in ToClient
BY DEF Packet, Publish, ToBroker, ToClient

\* sendPacket: the packet is the last one on the connection, or vanishes.
LEMMA SentRight ==
  ASSUME toBroker \in Seq(ToBroker), NEW p \in ToBroker, Sent(p)
  PROVE  toBroker' \in Seq(ToBroker) /\ Grows(toBroker, toBroker', p) /\ link' = link
<1>1. CASE toBroker' = Append(toBroker, p) /\ link' = link
  BY <1>1, AppendIn DEF Grows
<1>2. CASE toBroker' = toBroker /\ link' = link
  BY <1>2 DEF Grows
<1> QED  BY <1>1, <1>2 DEF Sent

\* A packet that has been read, or a connection that is given up
LEMMA ReadRight ==
  ASSUME NEW S, NEW q \in Seq(S), NEW r, r = q \/ r = <<>> \/ (q # <<>> /\ r = Tail(q))
  PROVE  r \in Seq(S) /\ Shrinks(q, r)
<1>1. CASE r = q  BY <1>1 DEF Shrinks
<1>2. CASE r = <<>>  BY <1>2, FewIn, EmptySeq DEF Shrinks
<1>3. CASE q # <<>> /\ r = Tail(q)  BY <1>3, TailIn DEF Shrinks
<1> QED  BY <1>1, <1>2, <1>3

\* The answer of the broker gets to a box that has the connection.
LEMMA ReplyRight ==
  ASSUME toClient \in Seq(ToClient), NEW p \in ToClient, Reply(<<p>>)
  PROVE  /\ toClient' \in Seq(ToClient) /\ Grows(toClient, toClient', p)
         /\ toClient' = IF link = "up" THEN Append(toClient, p) ELSE toClient
<1>1. toClient \o <<p>> = Append(toClient, p)  BY AppendIsConcat
<1>2. toClient' = IF link = "up" THEN Append(toClient, p) ELSE toClient  BY <1>1 DEF Reply
<1>3. CASE link = "up"  BY <1>2, <1>3, AppendIn DEF Grows
<1>4. CASE link # "up"  BY <1>2, <1>4 DEF Grows
<1> QED  BY <1>2, <1>3, <1>4

\* The broker publishes again, in a session that goes on, each command that has not been
\* acknowledged, after its CONNACK.
LEMMA UnansweredRight ==
  ASSUME MqttAssumption, unacked \in [BrokerIds -> Commands \cup {NoMessage}], NEW y \in BOOLEAN
  PROVE  LET q == <<[type |-> "CONNACK", present |-> y]>> \o Unanswered IN
         /\ q \in Seq(ToClient) /\ Len(q) > 0 /\ q[1] = [type |-> "CONNACK", present |-> y]
         /\ \A i \in 2..Len(q) : q[i].id \in BrokerIds /\ q[i].msg = unacked[q[i].id] /\ q[i].type = "PUBLISH"
         /\ \A i, j \in 2..Len(q) : q[i].id = q[j].id => i = j
         /\ Len(q) <= 1 + Cardinality(BrokerIds)
<1> DEFINE B == {b \in BrokerIds : unacked[b] # NoMessage}
           ids == SetToSeq(B)
           n == Cardinality(B)
           c == [type |-> "CONNACK", present |-> y]
           q == <<c>> \o Unanswered
<1>1. IsFiniteSet(B)  BY FS_Subset DEF MqttAssumption
<1>2. n \in Nat /\ ids \in [1..n -> B] /\ \A i, j \in 1..n : ids[i] = ids[j] => i = j
  <2> HIDE DEF B
  <2>1. n \in Nat /\ ExistsBijection(1..n, B)  BY <1>1, FS_CardinalityType
  <2>2. \E f \in [1..n -> B] : IsInjective(f)
    BY <2>1 DEF ExistsBijection, Bijection, Injection
  <2>3. ids = CHOOSE f \in [1..n -> B] : IsInjective(f)  BY DEF SetToSeq
  <2>4. ids \in [1..n -> B] /\ IsInjective(ids)  BY <2>2, <2>3
  <2> HIDE DEF ids, n
  <2> QED  BY <2>1, <2>4 DEF IsInjective
<1>3. Unanswered = [i \in DOMAIN ids |-> Publish(ids[i], unacked[ids[i]])]  BY DEF Unanswered
<1> HIDE DEF ids, n, c
<1>4. DOMAIN ids = 1..n /\ \A i \in 1..n : ids[i] \in BrokerIds /\ unacked[ids[i]] \in Commands
  BY <1>2
<1>5. Unanswered = [i \in 1..n |-> Publish(ids[i], unacked[ids[i]])] /\ \A i \in 1..n : Publish(ids[i], unacked[ids[i]]) \in ToClient
  BY <1>3, <1>4, Made
<1>6. Unanswered \in Seq(ToClient) /\ Len(Unanswered) = n
  BY <1>2, <1>5
<1>7. c \in ToClient /\ <<c>> \in Seq(ToClient) /\ Len(<<c>>) = 1 /\ <<c>>[1] = c
  BY Made DEF c
<1>8. /\ q \in Seq(ToClient) /\ Len(q) = Len(<<c>>) + Len(Unanswered)
      /\ \A i \in 1..Len(<<c>>) + Len(Unanswered) : q[i] =
            IF i <= Len(<<c>>) THEN <<c>>[i] ELSE Unanswered[i - Len(<<c>>)]
  BY <1>6, <1>7, ConcatProperties
<1> HIDE DEF q
<1>9. Len(q) = n + 1 /\ q[1] = c  BY <1>2, <1>6, <1>7, <1>8
<1>13. Len(q) <= 1 + Cardinality(BrokerIds)
  <2>1. n <= Cardinality(BrokerIds) /\ Cardinality(BrokerIds) \in Nat
    BY FS_Subset, FS_CardinalityType DEF MqttAssumption, n
  <2> QED  BY <1>2, <1>9, <2>1
<1>10. ASSUME NEW i \in 2..Len(q)
       PROVE  i - 1 \in 1..n /\ q[i] = Publish(ids[i - 1], unacked[ids[i - 1]])
  <2>1. i - 1 \in 1..n /\ ~(i <= 1) /\ i \in 1..n + 1  BY <1>2, <1>9
  <2> QED  BY <1>2, <1>5, <1>6, <1>7, <1>8, <2>1
<1>11. ASSUME NEW i \in 2..Len(q)
       PROVE  /\ q[i].id \in BrokerIds /\ q[i].msg = unacked[q[i].id] /\ q[i].type = "PUBLISH"
              /\ q[i].id = ids[i - 1]
  <2>1. i - 1 \in 1..n /\ q[i] = Publish(ids[i - 1], unacked[ids[i - 1]])  BY <1>10
  <2> DEFINE x == Publish(ids[i - 1], unacked[ids[i - 1]])
  <2>2. x.id = ids[i - 1] /\ x.msg = unacked[ids[i - 1]] /\ x.type = "PUBLISH"  BY DEF Publish
  <2> QED  BY <1>4, <2>1, <2>2
<1>12. ASSUME NEW i \in 2..Len(q), NEW j \in 2..Len(q), q[i].id = q[j].id PROVE i = j
  <2>1. i - 1 = j - 1  BY <1>2, <1>10, <1>11, <1>12
  <2> QED  BY <1>2, <1>9, <2>1
<1> QED  BY <1>2, <1>8, <1>9, <1>11, <1>12, <1>13 DEF c, q

-----------------------------------------------------------------------------
(* Types *)

\* What the rest of the proofs uses of the constants
LEMMA Sizes ==
  /\ Slots \in Nat \ {0} /\ Records \in Nat \ {0} /\ LastId \in Nat \ {0} /\ Topics \in Nat \ {0}
  /\ NoId \notin BrokerIds /\ NoId \notin PacketIds /\ IsFiniteSet(BrokerIds)
  /\ NoMessage \notin Messages /\ NoMessage \notin Commands /\ Garbage \notin Messages
  /\ PacketIds = 1..LastId /\ {"PublishSend", "PubAckPending"} \cap {"Null", "PublishDone"} = {}
  /\ 1 \in PacketIds /\ 1 \in 1..Slots /\ 1 \in 1..Topics /\ NoId \in 0..LastId
BY MqttAssumption, MessageAssumption DEF NoId, PacketIds

\* MQTT_Publish of a packet that is sent again (handlePublishResend) leaves the records as they are.
LEMMA ResentRight ==
  ASSUME Typed, OneEach(outgoing), NEW id \in PacketIds, StateOf(outgoing, id) = "PubAckPending"
  PROVE  LET r == Resent(outgoing, id) IN
         /\ r.records \in RecordArray(Records, PacketIds, {"PublishSend", "PubAckPending"}) /\ OneEach(r.records)
         /\ \A x \in PacketIds : StateOf(r.records, x) = StateOf(outgoing, x)
<1> DEFINE S == {"PublishSend", "PubAckPending"}
           r == ReserveState(outgoing, id)
<1>1. outgoing \in RecordArray(Records, PacketIds, S) /\ Records \in Nat \ {0} /\ NoId \notin PacketIds
      /\ "Null" \notin S /\ "PublishSend" \in S
  BY Sizes DEF Typed
<1>2. S = {"PublishSend", "PubAckPending"}  OBVIOUS
<1> HIDE DEF S
<1>3. /\ r.records \in RecordArray(Records, PacketIds, S) /\ OneEach(r.records) /\ r.status = "StateCollision"
      /\ \A x \in PacketIds : StateOf(r.records, x) = StateOf(outgoing, x)
  BY <1>1, AddRight DEF ReserveState
<1>4. Resent(outgoing, id) = UpdateStatePublish(r.records, id, "SEND")
  BY <1>3 DEF Resent
<1> HIDE DEF r
<1> QED  BY <1>1, <1>2, <1>3, <1>4, SendRight

\* MQTT_Publish of a new packet: its id gets a record, or the records hold what they held.
LEMMA ReservedRight ==
  ASSUME Typed, OneEach(outgoing)
  PROVE  LET r == ReserveState(outgoing, nextId)
             u == UpdateStatePublish(r.records, nextId, "SEND")
         IN /\ r.records \in RecordArray(Records, PacketIds, {"PublishSend", "PubAckPending"}) /\ OneEach(r.records)
            /\ \A x \in PacketIds : StateOf(outgoing, x) # "Null" => StateOf(r.records, x) = StateOf(outgoing, x)
            /\ r.status = "Success" =>
                 /\ StateOf(outgoing, nextId) = "Null"
                 /\ u.records \in RecordArray(Records, PacketIds, {"PublishSend", "PubAckPending"}) /\ OneEach(u.records)
                 /\ \A x \in PacketIds : StateOf(u.records, x) = IF x = nextId THEN "PubAckPending" ELSE StateOf(outgoing, x)
<1> DEFINE S == {"PublishSend", "PubAckPending"}
           r == ReserveState(outgoing, nextId)
<1>1. outgoing \in RecordArray(Records, PacketIds, S) /\ Records \in Nat \ {0} /\ NoId \notin PacketIds
      /\ "Null" \notin S /\ "PublishSend" \in S /\ nextId \in PacketIds
  BY Sizes DEF Typed
<1>2. S = {"PublishSend", "PubAckPending"}  OBVIOUS
<1> HIDE DEF S
<1>3. /\ r.records \in RecordArray(Records, PacketIds, S) /\ OneEach(r.records)
      /\ r.status = "StateCollision" <=> StateOf(outgoing, nextId) # "Null"
      /\ \A x \in PacketIds : StateOf(r.records, x) =
            IF r.status = "Success" /\ x = nextId THEN "PublishSend" ELSE StateOf(outgoing, x)
  BY <1>1, AddRight DEF ReserveState
<1> HIDE DEF r
<1>4. \A x \in PacketIds : StateOf(outgoing, x) # "Null" => StateOf(r.records, x) = StateOf(outgoing, x)
  BY <1>1, <1>3
<1>5. ASSUME r.status = "Success"
      PROVE  LET u == UpdateStatePublish(r.records, nextId, "SEND") IN
             /\ StateOf(outgoing, nextId) = "Null"
             /\ u.records \in RecordArray(Records, PacketIds, S) /\ OneEach(u.records)
             /\ \A x \in PacketIds : StateOf(u.records, x) = IF x = nextId THEN "PubAckPending" ELSE StateOf(outgoing, x)
  <2>1. StateOf(r.records, nextId) = "PublishSend" /\ StateOf(outgoing, nextId) = "Null"  BY <1>1, <1>3, <1>5
  <2> DEFINE u == UpdateStatePublish(r.records, nextId, "SEND")
  <2>2. /\ u.records \in RecordArray(Records, PacketIds, S) /\ OneEach(u.records)
        /\ \A x \in PacketIds : StateOf(u.records, x) = IF x = nextId THEN "PubAckPending" ELSE StateOf(r.records, x)
    BY <1>1, <1>2, <1>3, <2>1, SendRight
  <2> HIDE DEF u
  <2>3. \A x \in PacketIds : StateOf(u.records, x) = IF x = nextId THEN "PubAckPending" ELSE StateOf(outgoing, x)
    BY <1>3, <2>2
  <2> QED  BY <2>1, <2>2, <2>3 DEF u
<1> QED  BY <1>2, <1>3, <1>4, <1>5 DEF r

\* handlePublishAcks: the acknowledgement that a record waits for takes that record away.
LEMMA AckedRight ==
  ASSUME Typed, OneEach(outgoing), NEW id \in PacketIds, StateOf(outgoing, id) = "PubAckPending"
  PROVE  LET u == UpdateStateAck(outgoing, id) IN
         /\ u.status = "Success" /\ OneEach(u.records)
         /\ u.records \in RecordArray(Records, PacketIds, {"PublishSend", "PubAckPending"})
         /\ \A x \in PacketIds : StateOf(u.records, x) = IF x = id THEN "Null" ELSE StateOf(outgoing, x)
<1> DEFINE S == {"PublishSend", "PubAckPending"}
<1>1. outgoing \in RecordArray(Records, PacketIds, S) /\ Records \in Nat \ {0} /\ NoId \notin PacketIds
      /\ "Null" \notin S /\ "PublishDone" \notin S
  BY Sizes DEF Typed
<1> HIDE DEF S
<1>2. LET u == UpdateStateAck(outgoing, id) IN
      /\ u.status = "Success" /\ OneEach(u.records) /\ u.records \in RecordArray(Records, PacketIds, S)
      /\ \A x \in PacketIds : StateOf(u.records, x) = IF x = id THEN "Null" ELSE StateOf(outgoing, x)
  BY <1>1, AckRight
<1> QED  BY <1>2 DEF S

\* handleIncomingPublish: a received publish gets a record, unless it has one or there is no
\* room; the record goes when the acknowledgement has been sent.
LEMMA ReceivedRight ==
  ASSUME Typed, OneEach(incoming), NEW id \in BrokerIds
  PROVE  LET r == UpdateStatePublish(incoming, id, "RECEIVE")
             u == UpdateStateAck(r.records, id)
         IN /\ r.status \in {"StateCollision", "NoMemory", "Success"} /\ (r.status = "StateCollision" <=> Known(id))
            /\ r.records \in RecordArray(Records, BrokerIds, {"PubAckSend"}) /\ OneEach(r.records)
            /\ \A x \in BrokerIds : StateOf(r.records, x) # "Null" => Known(x) \/ (x = id /\ r.status = "Success")
            /\ r.status # "NoMemory" =>
                 /\ u.records \in RecordArray(Records, BrokerIds, {"PubAckSend"}) /\ OneEach(u.records)
                 /\ \A x \in BrokerIds : StateOf(u.records, x) # "Null" => Known(x) /\ x # id
<1> DEFINE S == {"PubAckSend"}
           r == UpdateStatePublish(incoming, id, "RECEIVE")
           u == UpdateStateAck(r.records, id)
<1>1. incoming \in RecordArray(Records, BrokerIds, S) /\ Records \in Nat \ {0} /\ NoId \notin BrokerIds
      /\ "Null" \notin S /\ "PubAckSend" \in S /\ "PublishDone" \notin S
  BY Sizes DEF Typed
<1>2. S = {"PubAckSend"}  OBVIOUS
<1> HIDE DEF S
<1>3. r = AddRecord(incoming, id, "PubAckSend")  BY DEF UpdateStatePublish, CalculateStatePublish
<1>4. /\ r.status \in {"StateCollision", "NoMemory", "Success"} /\ (r.status = "StateCollision" <=> Known(id))
      /\ r.records \in RecordArray(Records, BrokerIds, S) /\ OneEach(r.records)
      /\ \A x \in BrokerIds : StateOf(r.records, x) =
            IF r.status = "Success" /\ x = id THEN "PubAckSend" ELSE StateOf(incoming, x)
  BY <1>1, <1>3, AddRight DEF Known
<1> HIDE DEF r
<1>5. \A x \in BrokerIds : StateOf(r.records, x) # "Null" => Known(x) \/ (x = id /\ r.status = "Success")
  BY <1>4 DEF Known
<1>6. ASSUME r.status # "NoMemory"
      PROVE  /\ u.records \in RecordArray(Records, BrokerIds, S) /\ OneEach(u.records)
             /\ \A x \in BrokerIds : StateOf(u.records, x) # "Null" => Known(x) /\ x # id
  <2>1. StateOf(incoming, id) \in S \cup {"Null"}  BY <1>1, StateRight DEF Typed
  <2>2. StateOf(r.records, id) = "PubAckSend"  BY <1>2, <1>4, <1>6, <2>1 DEF Known
  <2>3. /\ u.records \in RecordArray(Records, BrokerIds, S) /\ OneEach(u.records)
        /\ \A x \in BrokerIds : StateOf(u.records, x) = IF x = id THEN "Null" ELSE StateOf(r.records, x)
    BY <1>1, <1>4, <2>2, AckRight
  <2> HIDE DEF u
  <2> QED  BY <1>5, <2>3
<1> QED  BY <1>2, <1>4, <1>5, <1>6 DEF r, u

\* RAM after a start (mqtt_operations.c, core_mqtt.c)
LEMMA BootedTyped ==
  ASSUME Typed, Booted, steady' \in BOOLEAN PROVE Typed'
<1>1. slots' \in [1..Slots -> [id : PacketIds, msg : Messages] \cup {Free}]  BY DEF Booted, NoSlots
<1>2. /\ outgoing' \in RecordArray(Records, PacketIds, {"PublishSend", "PubAckPending"})
      /\ incoming' \in RecordArray(Records, BrokerIds, {"PubAckSend"})
  BY DEF Booted, NoRecords, RecordArray
<1>3. reached' \subseteq Held' \X Contents  BY DEF Booted
<1>4. toClient' \in Seq(ToClient)  BY DEF Booted
<1>5. phase' = "offline" /\ at' = 1 /\ nextId' = 1 /\ subId' = NoId /\ ping' = FALSE /\ link' = "cut" /\ lost' = TRUE
  BY DEF Booted
<1>6. UNCHANGED <<toBroker, session, unacked, handed>>  BY DEF Booted, broker
<1> QED  BY <1>1, <1>2, <1>3, <1>4, <1>5, <1>6, Sizes DEF Typed

\* EstablishMqttSession and mqtt_subscribe_init keep the session's state in its types.
LEMMA CallTyped ==
  ASSUME Typed, OneEach(outgoing), KeptWait, Call
  PROVE  Typed'
<1> USE Sizes
<1>1. CASE Connect
  <2>1. toBroker' \in Seq(ToBroker) /\ toClient' \in Seq(ToClient)  BY <1>1, Made DEF Connect
  <2>2. phase' = "connack" /\ nextId' = 1 /\ ping' = FALSE /\ link' = "up"  BY <1>1 DEF Connect
  <2>3. UNCHANGED <<at, subId, slots, outgoing, incoming, session, unacked, steady, reached, lost, handed>>
    BY <1>1 DEF Connect, broker, ghosts
  <2>4. Held' = Held  BY <2>3 DEF Held
  <2> QED  BY <2>1, <2>2, <2>3, <2>4, Sizes DEF Typed
<1>2. CASE ConnackFails
  <2>1. toClient' \in Seq(ToClient)  BY <1>2 DEF ConnackFails, Hangup
  <2> QED  BY <1>2, <2>1 DEF ConnackFails, Hangup, Typed, broker, ghosts, Held
<1>3. CASE Connack
  <2>1. toClient' \in Seq(ToClient)  BY <1>3, ReadRight DEF Connack, Typed
  <2>2. CASE UNCHANGED <<slots, outgoing, incoming, reached, lost>> /\ phase' = "resend"
    BY <1>3, <2>1, <2>2 DEF Connack, Typed, broker, Held
  <2>3. CASE ForgetSession /\ phase' = "subscribe"
    <3>1. slots' \in [1..Slots -> [id : PacketIds, msg : Messages] \cup {Free}]  BY <2>3 DEF ForgetSession, NoSlots
    <3>2. /\ outgoing' \in RecordArray(Records, PacketIds, {"PublishSend", "PubAckPending"})
          /\ incoming' \in RecordArray(Records, BrokerIds, {"PubAckSend"})
      BY <2>3 DEF ForgetSession, NoRecords, RecordArray
    <3>3. reached' \subseteq Held' \X Contents /\ lost' \in BOOLEAN  BY <2>3 DEF ForgetSession
    <3> QED  BY <1>3, <2>1, <2>3, <3>1, <3>2, <3>3 DEF Connack, Typed, broker
  <2> QED  BY <1>3, <2>2, <2>3 DEF Connack
<1>4. CASE Resend
  <2>1. at \in 1..Slots /\ phase = "resend"  BY <1>4 DEF Resend, Typed
  <2>2. /\ toBroker' \in Seq(ToBroker) /\ link' \in {"up", "cut"}
        /\ outgoing' \in RecordArray(Records, PacketIds, {"PublishSend", "PubAckPending"})
        /\ NextPacket \/ (phase' = "offline" /\ at' = 1)
    <3>1. CASE slots[at] = Free
      BY <1>4, <3>1 DEF Resend, Typed
    <3>2. CASE slots[at] # Free
      <4>1. slots[at].id \in PacketIds /\ slots[at].msg \in Messages  BY <2>1, <3>2 DEF Typed
      <4>2. at \in Places(slots)  BY <2>1, <4>1 DEF Places, Typed
      <4>3. StateOf(outgoing, slots[at].id) = "PubAckPending"  BY <4>2 DEF KeptWait
      <4>4. outgoing' \in RecordArray(Records, PacketIds, {"PublishSend", "PubAckPending"})
        <5>1. Resent(outgoing, slots[at].id).records \in RecordArray(Records, PacketIds, {"PublishSend", "PubAckPending"})
          BY <4>1, <4>3, ResentRight
        <5> QED  BY <1>4, <3>2, <5>1 DEF Resend
      <4>5. CASE SendFails /\ phase' = "offline" /\ at' = 1
        BY <4>4, <4>5 DEF SendFails, Typed
      <4>6. CASE \E m \in ContentLater(slots[at].msg) : Sent(Publish(slots[at].id, m)) /\ NextPacket
        <5>1. PICK m \in ContentLater(slots[at].msg) : Sent(Publish(slots[at].id, m)) /\ NextPacket  BY <4>6
        <5>2. m \in Messages \cup {Garbage}  BY <4>1 DEF ContentLater
        <5>3. Publish(slots[at].id, m) \in ToBroker  BY <4>1, <5>2, Made
        <5> QED  BY <4>4, <5>1, <5>3, SentRight DEF Typed
      <4> QED  BY <1>4, <3>2, <4>5, <4>6 DEF Resend
    <3> QED  BY <3>1, <3>2
  <2>3. /\ phase' \in {"resend", "subscribe", "offline"} /\ at' \in 1..Slots \cup 1..Topics
        /\ phase' = "resend" => at' \in 1..Slots
        /\ phase' = "subscribe" => at' \in 1..Topics
    BY <2>1, <2>2 DEF NextPacket
  <2> QED  BY <1>4, <2>2, <2>3 DEF Resend, Typed, broker, ghosts, Held
<1>5. CASE SubscribeToTopic
  <2>1. nextId' \in PacketIds /\ subId' \in 0..LastId
    BY <1>5 DEF SubscribeToTopic, FollowingId, Typed
  <2>2. toBroker' \in Seq(ToBroker) /\ link' \in {"up", "cut"}
    <3>1. CASE Sent(Packet("SUBSCRIBE", nextId))  BY <3>1, Made, SentRight DEF Typed
    <3>2. CASE SendFails  BY <3>2 DEF SendFails, Typed
    <3> QED  BY <1>5, <3>1, <3>2 DEF SubscribeToTopic
  <2>3. /\ phase' \in {"subscribe", "suback", "serving"} /\ at' \in 1..Slots \cup 1..Topics
        /\ phase' \in {"subscribe", "suback"} => at' \in 1..Topics
    BY <1>5 DEF SubscribeToTopic, NextTopic, Typed
  <2> QED  BY <1>5, <2>1, <2>2, <2>3 DEF SubscribeToTopic, Typed, broker, ghosts, Held
<1>6. CASE WaitForPacketAckFails
  <2>1. /\ phase' \in {"subscribe", "serving"} /\ at' \in 1..Slots \cup 1..Topics
        /\ phase' = "subscribe" => at' \in 1..Topics
    BY <1>6 DEF WaitForPacketAckFails, NextTopic, Typed
  <2> QED  BY <1>6, <2>1 DEF WaitForPacketAckFails, Typed, broker, network, ghosts, Held
<1> QED  BY <1>1, <1>2, <1>3, <1>4, <1>5, <1>6 DEF Call

\* What the acknowledgement of a kept packet does (HandlePuback): it is waited for, so that
\* MQTT_ProcessLoop goes on.
LEMMA PubackRight ==
  ASSUME Typed, OneEach(outgoing), OutboundOnce, HandlePuback
  PROVE  LET id == Head(toClient).id IN
         /\ toClient # <<>> /\ Head(toClient).type = "PUBACK" /\ id \in PacketIds /\ phase \in {"suback", "serving"}
         /\ Answered(id) /\ StateOf(outgoing, id) = "PubAckPending"
         /\ toClient' = Tail(toClient) /\ slots' = CleanupOutgoingPublish(id)
         /\ OneEach(outgoing') /\ outgoing' \in RecordArray(Records, PacketIds, {"PublishSend", "PubAckPending"})
         /\ \A x \in PacketIds : StateOf(outgoing', x) = IF x = id THEN "Null" ELSE StateOf(outgoing, x)
         /\ reached' = {r \in reached : \E s \in 1..Slots : slots'[s].msg = r[1]}
         /\ (phase = "suback" /\ NextTopic) \/ UNCHANGED <<phase, at>>
         /\ UNCHANGED <<nextId, subId, ping, incoming, link, toBroker, session, unacked, steady, lost, handed>>
<1> DEFINE id == Head(toClient).id
           u == UpdateStateAck(outgoing, id)
<1>1. toClient # <<>> /\ Head(toClient).type = "PUBACK" /\ phase \in {"suback", "serving"}
  BY DEF HandlePuback, Receives
<1>2. Head(toClient) \in ToClient /\ Head(toClient) \in In(toClient)  BY <1>1, TailIn DEF Typed
<1>3. id \in PacketIds /\ Answered(id)  BY <1>1, <1>2, FromBroker DEF Answered, Has
<1>4. StateOf(outgoing, id) = "PubAckPending"  BY <1>1, <1>3 DEF OutboundOnce
<1>5. /\ u.status = "Success" /\ OneEach(u.records)
      /\ u.records \in RecordArray(Records, PacketIds, {"PublishSend", "PubAckPending"})
      /\ \A x \in PacketIds : StateOf(u.records, x) = IF x = id THEN "Null" ELSE StateOf(outgoing, x)
  BY <1>3, <1>4, AckedRight
<1>6. /\ outgoing' = u.records /\ slots' = CleanupOutgoingPublish(id)
      /\ reached' = {r \in reached : \E s \in 1..Slots : slots'[s].msg = r[1]}
      /\ Acknowledged(id)
      /\ UNCHANGED <<nextId, subId, ping, incoming, toBroker, broker, steady, lost, handed>>
  BY <1>5 DEF HandlePuback
<1> HIDE DEF u
<1>7. toClient' = Tail(toClient) /\ UNCHANGED link /\ ((phase = "suback" /\ NextTopic) \/ UNCHANGED <<phase, at>>)
  BY <1>6 DEF Acknowledged
<1>8. UNCHANGED <<nextId, subId, ping, incoming, toBroker, session, unacked, steady, lost, handed>>
  BY <1>6 DEF broker
<1> QED  BY <1>1, <1>3, <1>4, <1>5, <1>6, <1>7, <1>8

\* What a publish of the broker does (HandlePublish): MQTT_ProcessLoop acknowledges it or fails.
LEMMA PublishRight ==
  ASSUME Typed, OneEach(incoming), HandlePublish
  PROVE  LET b == Head(toClient).id
             new == ~Known(b) /\ handed' = handed \cup {Head(toClient).msg}
         IN /\ toClient # <<>> /\ Head(toClient).type = "PUBLISH" /\ b \in BrokerIds /\ phase \in {"suback", "serving"}
            /\ Head(toClient).msg \in Commands
            /\ OneEach(incoming') /\ incoming' \in RecordArray(Records, BrokerIds, {"PubAckSend"})
            /\ new \/ handed' = handed
            /\ \/ /\ Sent(Packet("PUBACK", b)) /\ (new \/ Known(b))
                  /\ \A x \in BrokerIds : Known(x)' => Known(x) /\ x # b
                  /\ toClient' = Tail(toClient) /\ UNCHANGED <<phase, at>>
               \/ /\ UNCHANGED toBroker /\ link' \in {link, "cut"}
                  /\ \A x \in BrokerIds : Known(x)' => Known(x) \/ (x = b /\ new)
                  /\ \/ phase' = "offline" /\ at' = 1 /\ link' = "cut" /\ toClient' = <<>>
                     \/ phase = "suback" /\ NextTopic /\ toClient' = Tail(toClient)
            /\ UNCHANGED <<nextId, subId, ping, slots, outgoing, session, unacked, steady, reached, lost>>
<1> DEFINE b == Head(toClient).id
           r == UpdateStatePublish(incoming, b, "RECEIVE")
           u == UpdateStateAck(r.records, b)
           new == ~Known(b) /\ handed' = handed \cup {Head(toClient).msg}
<1>1. toClient # <<>> /\ Head(toClient).type = "PUBLISH" /\ phase \in {"suback", "serving"}
  BY DEF HandlePublish, Receives
<1>2. Head(toClient) \in ToClient  BY <1>1, TailIn DEF Typed
<1>3. b \in BrokerIds /\ Head(toClient).msg \in Commands  BY <1>1, <1>2, FromBroker
<1>4. /\ r.status \in {"StateCollision", "NoMemory", "Success"} /\ (r.status = "StateCollision" <=> Known(b))
      /\ r.records \in RecordArray(Records, BrokerIds, {"PubAckSend"}) /\ OneEach(r.records)
      /\ \A x \in BrokerIds : StateOf(r.records, x) # "Null" => Known(x) \/ (x = b /\ r.status = "Success")
      /\ r.status # "NoMemory" =>
           /\ u.records \in RecordArray(Records, BrokerIds, {"PubAckSend"}) /\ OneEach(u.records)
           /\ \A x \in BrokerIds : StateOf(u.records, x) # "Null" => Known(x) /\ x # b
  BY <1>3, ReceivedRight
<1>5. /\ handed' = IF r.status = "Success" THEN handed \cup {Head(toClient).msg} ELSE handed
      /\ \/ /\ r.status # "NoMemory" /\ Sent(Packet("PUBACK", b)) /\ incoming' = u.records
            /\ toClient' = Tail(toClient) /\ UNCHANGED <<phase, at>>
         \/ r.status # "NoMemory" /\ SendFails /\ incoming' = r.records /\ LoopFails({link, "cut"})
         \/ r.status = "NoMemory" /\ incoming' = r.records /\ LoopFails({link}) /\ UNCHANGED toBroker
  BY DEF HandlePublish
<1>6. UNCHANGED <<nextId, subId, ping, slots, outgoing, session, unacked, steady, reached, lost>>
  BY DEF HandlePublish, broker
<1> HIDE DEF r, u
<1>7. r.status = "Success" => new  BY <1>4, <1>5
<1>8. r.status # "Success" => handed' = handed  BY <1>5
<1> HIDE DEF new
<1>9. CASE r.status # "NoMemory" /\ Sent(Packet("PUBACK", b)) /\ incoming' = u.records
           /\ toClient' = Tail(toClient) /\ UNCHANGED <<phase, at>>
  <2>1. OneEach(incoming') /\ incoming' \in RecordArray(Records, BrokerIds, {"PubAckSend"})
        /\ (\A x \in BrokerIds : Known(x)' => Known(x) /\ x # b) /\ (new \/ Known(b))
    BY <1>4, <1>7, <1>9 DEF Known
  <2> QED  BY <1>1, <1>3, <1>6, <1>7, <1>8, <1>9, <2>1 DEF new
<1>10. CASE r.status # "NoMemory" /\ SendFails /\ incoming' = r.records /\ LoopFails({link, "cut"})
  <2>1. OneEach(incoming') /\ incoming' \in RecordArray(Records, BrokerIds, {"PubAckSend"})
        /\ \A x \in BrokerIds : Known(x)' => Known(x) \/ (x = b /\ new)
    BY <1>4, <1>7, <1>10 DEF Known
  <2>2. /\ UNCHANGED toBroker /\ link' \in {link, "cut"}
        /\ \/ phase' = "offline" /\ at' = 1 /\ link' = "cut" /\ toClient' = <<>>
           \/ phase = "suback" /\ NextTopic /\ toClient' = Tail(toClient)
    BY <1>1, <1>10 DEF SendFails, LoopFails, Hangup
  <2> QED  BY <1>1, <1>3, <1>6, <1>7, <1>8, <2>1, <2>2 DEF new
<1>11. CASE r.status = "NoMemory" /\ incoming' = r.records /\ LoopFails({link}) /\ UNCHANGED toBroker
  <2>1. OneEach(incoming') /\ incoming' \in RecordArray(Records, BrokerIds, {"PubAckSend"})
        /\ \A x \in BrokerIds : Known(x)' => Known(x)
    BY <1>4, <1>11 DEF Known
  <2>2. /\ UNCHANGED toBroker /\ link' \in {link, "cut"}
        /\ \/ phase' = "offline" /\ at' = 1 /\ link' = "cut" /\ toClient' = <<>>
           \/ phase = "suback" /\ NextTopic /\ toClient' = Tail(toClient)
    BY <1>1, <1>11 DEF LoopFails, Hangup
  <2> QED  BY <1>1, <1>3, <1>6, <1>7, <1>8, <1>11, <2>1, <2>2 DEF new
<1> QED  BY <1>5, <1>9, <1>10, <1>11

\* What is kept, and where: a place is used or free.
LEMMA SlotsTyped ==
  ASSUME Typed
  PROVE  /\ DOMAIN slots = 1..Slots /\ Places(slots) \subseteq 1..Slots
         /\ \A s \in Places(slots) : slots[s].id \in PacketIds /\ slots[s].msg \in Messages /\ slots[s].msg # NoMessage
         /\ \A s \in 1..Slots : s \notin Places(slots) => slots[s] = Free
         /\ Held = {slots[s].msg : s \in Places(slots)}
<1>1. DOMAIN slots = 1..Slots /\ Places(slots) = {s \in 1..Slots : slots[s].id # NoId}  BY DEF Typed, Places
<1>2. \A s \in 1..Slots : slots[s] \in [id : PacketIds, msg : Messages] \cup {Free}  BY DEF Typed
<1>3. \A s \in Places(slots) : slots[s].id \in PacketIds /\ slots[s].msg \in Messages /\ slots[s].msg # NoMessage
  BY <1>1, <1>2, Sizes DEF Free
<1>4. \A s \in 1..Slots : s \notin Places(slots) => slots[s] = Free /\ slots[s].msg = NoMessage
  BY <1>1, <1>2, Sizes DEF Free
<1>5. Held = {slots[s].msg : s \in Places(slots)}
  BY <1>1, <1>3, <1>4 DEF Held
<1> QED  BY <1>1, <1>3, <1>4, <1>5

\* What a packet brings is a pair of a message that is kept under its id and of a content.
LEMMA ArrivedRight ==
  ASSUME Typed, NEW p, p.id \in PacketIds
  PROVE  /\ p.msg \in Contents => Arrived(p) \subseteq Held \X Contents
         /\ \A x \in Arrived(p) : \E s \in Places(slots) : slots[s].id = p.id /\ x = <<slots[s].msg, p.msg>>
         /\ \A s \in Places(slots) : slots[s].id = p.id => <<slots[s].msg, p.msg>> \in Arrived(p)
<1>1. \A s \in 1..Slots : slots[s].id = p.id => s \in Places(slots)  BY SlotsTyped, Sizes DEF Free
<1>2. \A x \in Arrived(p) : \E s \in Places(slots) : slots[s].id = p.id /\ x = <<slots[s].msg, p.msg>>
  BY <1>1 DEF Arrived
<1>3. \A s \in Places(slots) : slots[s].id = p.id => <<slots[s].msg, p.msg>> \in Arrived(p)
  BY SlotsTyped DEF Arrived
<1>4. \A s \in Places(slots) : slots[s].msg \in Held  BY SlotsTyped
<1> QED  BY <1>2, <1>3, <1>4

\* PublishToTopic finds a free place when not all are used.
LEMMA FreeSlot ==
  ASSUME Typed, Len(Kept) < Slots
  PROVE  LET f == CHOOSE f \in 1..Slots : 1..f \ Places(slots) = {f} IN f \in 1..Slots \ Places(slots)
<1> DEFINE P == Places(slots)
           m == Cardinality(P)
           T == (1..Slots) \ P
<1>1. DOMAIN slots = 1..Slots /\ P \in SUBSET (1..Slots) /\ Slots \in Nat \ {0}  BY SlotsTyped, Sizes
<1>2. m \in 0..Slots /\ DOMAIN Kept = 1..m  BY <1>1, UsedRight DEF Kept
<1>3. Len(Kept) = m
  <2>1. Kept = [k \in DOMAIN Kept |-> Kept[k]]  BY DEF Kept, Used
  <2> HIDE DEF m
  <2>2. Kept = [k \in 1..m |-> Kept[k]] /\ m \in Nat  BY <1>1, <1>2, <2>1
  <2> QED  BY <2>2
<1>4. m # Slots  BY <1>2, <1>3
<1>5. P # 1..Slots  BY <1>1, <1>4, FS_Interval
<1>6. T \in SUBSET Nat /\ T # {}
  <2> HIDE DEF P
  <2>1. \E y \in 1..Slots : y \notin P  BY <1>1, <1>5
  <2> QED  BY <1>1, <2>1
<1>7. PICK f \in T : \A y \in T : f <= y
  <2> HIDE DEF T
  <2> QED  BY <1>6, Least
<1> HIDE DEF P
<1>8. f \in 1..Slots /\ 1..f \ P = {f}  BY <1>1, <1>7
<1>9. \A g \in 1..Slots : 1..g \ P = {g} => g \in (1..Slots) \ P  OBVIOUS
<1> QED  BY <1>8, <1>9 DEF P

\* What PublishToTopic does: the message has a place, a record and a packet, or none of them.
LEMMA PublishToTopicRight ==
  ASSUME Typed, OneEach(outgoing), NEW m \in Messages, PublishToTopic(m)
  PROVE  /\ phase = "serving" /\ Room /\ m \notin Held /\ nextId' \in PacketIds
         /\ OneEach(outgoing') /\ outgoing' \in RecordArray(Records, PacketIds, {"PublishSend", "PubAckPending"})
         /\ \A x \in PacketIds : StateOf(outgoing, x) # "Null" => StateOf(outgoing', x) = StateOf(outgoing, x)
         /\ \/ /\ StateOf(outgoing, nextId) = "Null" /\ StateOf(outgoing', nextId) = "PubAckPending"
               /\ Sent(Publish(nextId, m))
               /\ \E f \in 1..Slots \ Places(slots) :
                    slots' = [slots EXCEPT ![f] = [id |-> nextId, msg |-> m]]
            \/ UNCHANGED <<slots, toBroker>> /\ link' \in {link, "cut"}
         /\ UNCHANGED <<phase, at, subId, ping, incoming, toClient, session, unacked, steady, reached, lost, handed>>
<1> DEFINE r == ReserveState(outgoing, nextId)
           u == UpdateStatePublish(r.records, nextId, "SEND")
           f == CHOOSE f \in 1..Slots : 1..f \ Places(slots) = {f}
<1>1. phase = "serving" /\ Room /\ m \notin Held /\ Len(Kept) < Slots /\ nextId \in PacketIds
  BY DEF PublishToTopic, Typed
<1>2. nextId' \in PacketIds  BY Sizes DEF PublishToTopic, FollowingId, Typed
<1>3. UNCHANGED <<phase, at, subId, ping, incoming, toClient, session, unacked, steady, reached, lost, handed>>
  BY DEF PublishToTopic, broker, ghosts
<1>4. /\ r.records \in RecordArray(Records, PacketIds, {"PublishSend", "PubAckPending"}) /\ OneEach(r.records)
      /\ \A x \in PacketIds : StateOf(outgoing, x) # "Null" => StateOf(r.records, x) = StateOf(outgoing, x)
      /\ r.status = "Success" =>
           /\ StateOf(outgoing, nextId) = "Null"
           /\ u.records \in RecordArray(Records, PacketIds, {"PublishSend", "PubAckPending"}) /\ OneEach(u.records)
           /\ \A x \in PacketIds : StateOf(u.records, x) = IF x = nextId THEN "PubAckPending" ELSE StateOf(outgoing, x)
  BY ReservedRight
<1>5. \/ /\ r.status = "Success" /\ Sent(Publish(nextId, m)) /\ outgoing' = u.records
         /\ slots' = [slots EXCEPT ![f] = [id |-> nextId, msg |-> m]]
      \/ /\ (r.status = "Success" /\ SendFails) \/ (r.status # "Success" /\ UNCHANGED <<link, toBroker>>)
         /\ outgoing' = r.records /\ UNCHANGED slots
  BY DEF PublishToTopic
<1>6. f \in 1..Slots \ Places(slots)  BY <1>1, FreeSlot
<1> HIDE DEF r, u, f
<1>7. CASE r.status = "Success" /\ Sent(Publish(nextId, m)) /\ outgoing' = u.records
           /\ slots' = [slots EXCEPT ![f] = [id |-> nextId, msg |-> m]]
  <2>1. /\ OneEach(outgoing') /\ outgoing' \in RecordArray(Records, PacketIds, {"PublishSend", "PubAckPending"})
        /\ \A x \in PacketIds : StateOf(outgoing, x) # "Null" => StateOf(outgoing', x) = StateOf(outgoing, x)
        /\ StateOf(outgoing, nextId) = "Null" /\ StateOf(outgoing', nextId) = "PubAckPending"
    BY <1>1, <1>4, <1>7
  <2> QED  BY <1>1, <1>2, <1>3, <1>6, <1>7, <2>1
<1>8. CASE /\ (r.status = "Success" /\ SendFails) \/ (r.status # "Success" /\ UNCHANGED <<link, toBroker>>)
           /\ outgoing' = r.records /\ UNCHANGED slots
  <2>1. UNCHANGED <<slots, toBroker>> /\ link' \in {link, "cut"}  BY <1>8 DEF SendFails
  <2> QED  BY <1>1, <1>2, <1>3, <1>4, <1>8, <2>1
<1> QED  BY <1>5, <1>7, <1>8

\* The wait for a SUBACK goes on or ends (NextTopic).
LEMMA NextTopicTyped ==
  ASSUME Typed, (phase = "suback" /\ NextTopic) \/ (phase \in {"suback", "serving"} /\ UNCHANGED <<phase, at>>)
  PROVE  /\ phase' \in {"subscribe", "suback", "serving"} /\ at' \in 1..Slots \cup 1..Topics
         /\ phase' \in {"subscribe", "suback"} => at' \in 1..Topics
<1>1. CASE phase = "suback" /\ NextTopic  BY <1>1, Sizes DEF NextTopic, Typed
<1>2. CASE phase \in {"suback", "serving"} /\ UNCHANGED <<phase, at>>  BY <1>2 DEF Typed
<1> QED  BY <1>1, <1>2

\* MQTT_ProcessLoop keeps the session's state in its types.
LEMMA ProcessLoopTyped ==
  ASSUME Typed, OneEach(outgoing), OneEach(incoming), OutboundOnce, ProcessLoop, steady' = steady
  PROVE  Typed'
<1>1. CASE HandlePuback
  <2> DEFINE id == Head(toClient).id
  <2>1. /\ toClient # <<>> /\ phase \in {"suback", "serving"} /\ id \in PacketIds
        /\ toClient' = Tail(toClient) /\ slots' = CleanupOutgoingPublish(id)
        /\ outgoing' \in RecordArray(Records, PacketIds, {"PublishSend", "PubAckPending"})
        /\ reached' = {r \in reached : \E s \in 1..Slots : slots'[s].msg = r[1]}
        /\ (phase = "suback" /\ NextTopic) \/ UNCHANGED <<phase, at>>
        /\ UNCHANGED <<nextId, subId, ping, incoming, link, toBroker, session, unacked, steady, lost, handed>>
    BY <1>1, PubackRight
  <2> HIDE DEF id
  <2>2. toClient' \in Seq(ToClient)  BY <2>1, ReadRight DEF Typed
  <2>3. slots' \in [1..Slots -> [id : PacketIds, msg : Messages] \cup {Free}]
    BY <2>1 DEF CleanupOutgoingPublish, Typed
  <2>4. reached' \subseteq Held' \X Contents
    <3> SUFFICES ASSUME NEW x \in reached' PROVE x \in Held' \X Contents  OBVIOUS
    <3>1. x \in Held \X Contents /\ NoMessage \notin Held  BY <2>1 DEF Typed, Held
    <3>2. x[1] \in Held'  BY <2>1, <3>1 DEF Held
    <3> QED  BY <3>1, <3>2
  <2>5. /\ phase' \in {"subscribe", "suback", "serving"} /\ at' \in 1..Slots \cup 1..Topics
        /\ phase' \in {"subscribe", "suback"} => at' \in 1..Topics
    BY <2>1, NextTopicTyped
  <2> QED  BY <2>1, <2>2, <2>3, <2>4, <2>5 DEF Typed
<1>2. CASE HandleSuback
  <2>1. CASE Booted
    <3>1. steady' \in BOOLEAN  BY DEF Typed
    <3> QED  BY <2>1, <3>1, BootedTyped
  <2>2. CASE Acknowledged(subId) /\ UNCHANGED <<nextId, subId, ping, slots, outgoing, incoming, toBroker, broker, ghosts>>
    <3>1. /\ toClient' = Tail(toClient) /\ link' = link /\ phase \in {"suback", "serving"} /\ toClient # <<>>
          /\ (phase = "suback" /\ NextTopic) \/ UNCHANGED <<phase, at>>
      BY <1>2, <2>2 DEF Acknowledged, HandleSuback, Receives
    <3>2. toClient' \in Seq(ToClient)  BY <3>1, ReadRight DEF Typed
    <3>3. /\ phase' \in {"subscribe", "suback", "serving"} /\ at' \in 1..Slots \cup 1..Topics
          /\ phase' \in {"subscribe", "suback"} => at' \in 1..Topics
      BY <3>1, NextTopicTyped
    <3>4. UNCHANGED <<nextId, subId, ping, slots, outgoing, incoming, toBroker, session, unacked, reached, lost, handed>>
      BY <2>2 DEF broker, ghosts
    <3>5. Held' = Held  BY <3>4 DEF Held
    <3> QED  BY <3>1, <3>2, <3>3, <3>4, <3>5 DEF Typed
  <2> QED  BY <1>2, <2>1, <2>2 DEF HandleSuback
<1>3. CASE HandlePublish
  <2> DEFINE b == Head(toClient).id
  <2>1. /\ toClient # <<>> /\ b \in BrokerIds /\ phase \in {"suback", "serving"} /\ Head(toClient).msg \in Commands
        /\ incoming' \in RecordArray(Records, BrokerIds, {"PubAckSend"})
        /\ handed' = handed \cup {Head(toClient).msg} \/ handed' = handed
        /\ \/ /\ Sent(Packet("PUBACK", b)) /\ toClient' = Tail(toClient) /\ UNCHANGED <<phase, at>>
           \/ /\ UNCHANGED toBroker /\ link' \in {link, "cut"}
              /\ \/ phase' = "offline" /\ at' = 1 /\ link' = "cut" /\ toClient' = <<>>
                 \/ phase = "suback" /\ NextTopic /\ toClient' = Tail(toClient)
        /\ UNCHANGED <<nextId, subId, ping, slots, outgoing, session, unacked, steady, reached, lost>>
    BY <1>3, PublishRight
  <2> HIDE DEF b
  <2>2. toBroker' \in Seq(ToBroker) /\ link' \in {"up", "cut"}
    <3>1. CASE Sent(Packet("PUBACK", b))  BY <2>1, <3>1, Made, SentRight DEF Typed
    <3>2. CASE UNCHANGED toBroker /\ link' \in {link, "cut"}  BY <3>2 DEF Typed
    <3> QED  BY <2>1, <3>1, <3>2
  <2>3. toClient' \in Seq(ToClient)  BY <2>1, ReadRight DEF Typed
  <2>4. /\ phase' \in {"subscribe", "suback", "serving", "offline"} /\ at' \in 1..Slots \cup 1..Topics
        /\ phase' \in {"subscribe", "suback"} => at' \in 1..Topics
    <3>1. CASE phase' = "offline" /\ at' = 1  BY <3>1, Sizes
    <3>2. CASE (phase = "suback" /\ NextTopic) \/ UNCHANGED <<phase, at>>
      BY <2>1, <3>2, NextTopicTyped
    <3> QED  BY <2>1, <3>1, <3>2
  <2>5. handed' \subseteq Commands  BY <2>1 DEF Typed
  <2>6. Held' = Held  BY <2>1 DEF Held
  <2> QED  BY <2>1, <2>2, <2>3, <2>4, <2>5, <2>6 DEF Typed
<1>4. CASE HandlePingresp
  <2>1. toClient' \in Seq(ToClient)  BY <1>4, ReadRight DEF HandlePingresp, Receives, Typed
  <2>2. /\ ping' = FALSE
        /\ UNCHANGED <<phase, at, nextId, subId, slots, outgoing, incoming, link, toBroker, session, unacked,
                       reached, lost, handed>>
    BY <1>4 DEF HandlePingresp, broker, ghosts
  <2>3. Held' = Held  BY <2>2 DEF Held
  <2> QED  BY <2>1, <2>2, <2>3 DEF Typed
<1> QED  BY <1>1, <1>2, <1>3, <1>4 DEF ProcessLoop

\* What the broker does with a packet: its answer, and what it notes (BrokerReads).
LEMMA BrokerReadsRight ==
  ASSUME MqttAssumption, Typed, BrokerReads
  PROVE  LET p == Head(toBroker) IN
         /\ toBroker # <<>> /\ p \in ToBroker /\ p \in In(toBroker) /\ toBroker' = Tail(toBroker)
         /\ \/ /\ p.type = "CONNECT" /\ session' = TRUE /\ UNCHANGED <<unacked, reached>>
               /\ Reply(<<[type |-> "CONNACK", present |-> session]>> \o Unanswered)
            \/ /\ p.type = "PUBLISH" /\ p.id \in PacketIds /\ Reply(<<Packet("PUBACK", p.id)>>)
               /\ reached' = reached \cup Arrived(p) /\ UNCHANGED <<session, unacked>>
            \/ /\ p.type = "SUBSCRIBE" /\ p.id \in PacketIds /\ Reply(<<Packet("SUBACK", p.id)>>)
               /\ UNCHANGED <<session, unacked, reached>>
            \/ /\ p.type = "PINGREQ" /\ Reply(<<Packet("PINGRESP", NoId)>>)
               /\ UNCHANGED <<session, unacked, reached>>
            \/ /\ p.type = "PUBACK" /\ p.id \in BrokerIds /\ unacked' = [unacked EXCEPT ![p.id] = NoMessage]
               /\ UNCHANGED <<session, toClient, reached>>
         /\ UNCHANGED <<phase, at, nextId, subId, ping, slots, outgoing, incoming, link, steady, lost, handed>>
<1> DEFINE p == Head(toBroker)
<1>1. toBroker # <<>> /\ toBroker' = Tail(toBroker)  BY DEF BrokerReads
<1>2. p \in ToBroker /\ p \in In(toBroker)  BY <1>1, TailIn DEF Typed
<1>3. UNCHANGED <<phase, at, nextId, subId, ping, slots, outgoing, incoming, link, steady, lost, handed>>
  BY DEF BrokerReads, control
<1>4. \/ /\ p.type = "CONNECT" /\ session' = TRUE /\ UNCHANGED <<unacked, reached>>
         /\ Reply(<<[type |-> "CONNACK", present |-> session]>> \o Unanswered)
      \/ /\ p.type = "PUBLISH" /\ Reply(<<Packet("PUBACK", p.id)>>)
         /\ reached' = reached \cup Arrived(p) /\ UNCHANGED <<session, unacked>>
      \/ /\ p.type = "SUBSCRIBE" /\ Reply(<<Packet("SUBACK", p.id)>>)
         /\ UNCHANGED <<session, unacked, reached>>
      \/ /\ p.type = "PINGREQ" /\ Reply(<<Packet("PINGRESP", NoId)>>)
         /\ UNCHANGED <<session, unacked, reached>>
      \/ /\ p.type = "PUBACK" /\ unacked' = [unacked EXCEPT ![p.id] = NoMessage]
         /\ UNCHANGED <<session, toClient, reached>>
  BY DEF BrokerReads, broker
<1> HIDE DEF p
<1>5. /\ p.type = "PUBACK" => p.id \in BrokerIds
      /\ p.type = "SUBSCRIBE" => p.id \in PacketIds
      /\ p.type = "PUBLISH" => p.id \in PacketIds
  BY <1>2, FromBox
<1> QED  BY <1>1, <1>2, <1>3, <1>4, <1>5 DEF p

\* The answer to a CONNECT is a CONNACK with the broker's commands after it, or is lost.
LEMMA AnsweredRight ==
  ASSUME MqttAssumption, Typed, Reply(<<[type |-> "CONNACK", present |-> session]>> \o Unanswered), toClient = <<>>
  PROVE  /\ toClient' \in Seq(ToClient)
         /\ link # "up" => toClient' = <<>>
         /\ link = "up" => Len(toClient') > 0
         /\ \A i \in 1..Len(toClient') : toClient'[i].type = IF i = 1 THEN "CONNACK" ELSE "PUBLISH"
         /\ \A p \in In(toClient') : /\ p.type = "CONNACK" => p.present = session
                                     /\ p.type # "CONNACK" => p.type = "PUBLISH" /\ p.id \in BrokerIds /\ p.msg = unacked[p.id]
         /\ Once(toClient', "PUBLISH") /\ Len(toClient') <= 1 + Cardinality(BrokerIds)
<1> DEFINE c == [type |-> "CONNACK", present |-> session]
           q == <<c>> \o Unanswered
<1>1. /\ q \in Seq(ToClient) /\ Len(q) > 0 /\ q[1] = c
      /\ \A i \in 2..Len(q) : q[i].id \in BrokerIds /\ q[i].msg = unacked[q[i].id] /\ q[i].type = "PUBLISH"
      /\ \A i, j \in 2..Len(q) : q[i].id = q[j].id => i = j
      /\ Len(q) <= 1 + Cardinality(BrokerIds)
  BY UnansweredRight DEF Typed
<1>2. toClient' = IF link = "up" THEN <<>> \o q ELSE <<>>  BY DEF Reply
<1>3. <<>> \o q = q  BY <1>1, ConcatEmptySeq
<1>4. c.type = "CONNACK" /\ c.present = session  OBVIOUS
<1> HIDE DEF q, c
<1>5. CASE link = "up"
  <2>1. toClient' = q  BY <1>2, <1>3, <1>5
  <2>2. \A i \in 1..Len(q) : i = 1 \/ i \in 2..Len(q)  BY <1>1
  <2>3. \A i \in 1..Len(q) : q[i].type = IF i = 1 THEN "CONNACK" ELSE "PUBLISH"
    BY <1>1, <1>4, <2>2
  <2>4. \A p \in In(q) : /\ p.type = "CONNACK" => p.present = session
                         /\ p.type # "CONNACK" => p.type = "PUBLISH" /\ p.id \in BrokerIds /\ p.msg = unacked[p.id]
    BY <1>1, <1>4, <2>2 DEF In
  <2>5. Once(q, "PUBLISH")  BY <1>1, <2>2, <2>3 DEF Once
  <2> QED  BY <1>1, <1>5, <2>1, <2>3, <2>4, <2>5
<1>6. CASE link # "up"
  <2>1. toClient' = <<>>  BY <1>2, <1>6
  <2>2. In(<<>>) = {} /\ Once(<<>>, "PUBLISH") /\ <<>> \in Seq(ToClient) /\ Len(<<>>) = 0  BY FewIn, EmptySeq
  <2>3. Cardinality(BrokerIds) \in Nat  BY FS_CardinalityType DEF MqttAssumption
  <2> QED  BY <1>6, <2>1, <2>2, <2>3
<1> QED  BY <1>5, <1>6

\* Each step keeps the session's state in its types.
LEMMA StepTyped ==
  ASSUME MqttAssumption, Typed, OneEach(outgoing), OneEach(incoming), KeptWait, OutboundOnce, Connecting, MqttNext
  PROVE  Typed'
<1>1. CASE Call  BY <1>1, CallTyped
<1>2. CASE ProcessLoop
  <2>1. steady' = steady  BY <1>2 DEF ProcessLoop, HandlePuback, HandleSuback, HandlePublish, HandlePingresp
  <2> QED  BY <1>2, <2>1, ProcessLoopTyped
<1>3. CASE KeepAlive
  <2>1. toBroker' \in Seq(ToBroker) /\ link' = link  BY <1>3, Made, SentRight DEF KeepAlive, Typed
  <2>2. /\ ping' = TRUE
        /\ UNCHANGED <<phase, at, nextId, subId, slots, outgoing, incoming, toClient, session, unacked, steady,
                       reached, lost, handed>>
    BY <1>3 DEF KeepAlive, broker, ghosts
  <2>3. Held' = Held  BY <2>2 DEF Held
  <2> QED  BY <2>1, <2>2, <2>3 DEF Typed
<1>4. CASE ServiceEnds
  <2>1. toClient' \in Seq(ToClient)  BY <1>4, EmptySeq DEF ServiceEnds, Hangup
  <2>2. phase' = "offline" /\ at' = 1 /\ link' = "cut"  BY <1>4 DEF ServiceEnds, Hangup
  <2>3. UNCHANGED <<nextId, subId, ping, slots, outgoing, incoming, toBroker, session, unacked, steady,
                    reached, lost, handed>>
    BY <1>4 DEF ServiceEnds, broker, ghosts
  <2>4. Held' = Held  BY <2>3 DEF Held
  <2> QED  BY <2>1, <2>2, <2>3, <2>4, Sizes DEF Typed
<1>5. ASSUME NEW m \in Messages, PublishToTopic(m) PROVE Typed'
  <2>1. /\ nextId' \in PacketIds /\ outgoing' \in RecordArray(Records, PacketIds, {"PublishSend", "PubAckPending"})
        /\ \/ /\ Sent(Publish(nextId, m))
              /\ \E f \in 1..Slots \ Places(slots) : slots' = [slots EXCEPT ![f] = [id |-> nextId, msg |-> m]]
           \/ UNCHANGED <<slots, toBroker>> /\ link' \in {link, "cut"}
        /\ UNCHANGED <<phase, at, subId, ping, incoming, toClient, session, unacked, steady, reached, lost, handed>>
    BY <1>5, PublishToTopicRight
  <2>2. CASE UNCHANGED <<slots, toBroker>> /\ link' \in {link, "cut"}
    <3>1. Held' = Held  BY <2>2 DEF Held
    <3> QED  BY <2>1, <2>2, <3>1 DEF Typed
  <2>3. CASE /\ Sent(Publish(nextId, m))
             /\ \E f \in 1..Slots \ Places(slots) : slots' = [slots EXCEPT ![f] = [id |-> nextId, msg |-> m]]
    <3>1. PICK f \in 1..Slots \ Places(slots) : slots' = [slots EXCEPT ![f] = [id |-> nextId, msg |-> m]]
      BY <2>3
    <3>2. nextId \in PacketIds /\ Publish(nextId, m) \in ToBroker  BY Made DEF Typed
    <3>3. toBroker' \in Seq(ToBroker) /\ link' = link  BY <2>3, <3>2, SentRight DEF Typed
    <3>4. slots' \in [1..Slots -> [id : PacketIds, msg : Messages] \cup {Free}]
      BY <3>1, <3>2 DEF Typed
    <3>5. reached \subseteq Held' \X Contents
      <4>1. f \in 1..Slots /\ slots[f] = Free  BY SlotsTyped
      <4>2. \A s \in 1..Slots : slots[s].msg # NoMessage => slots'[s] = slots[s]
        BY <3>1, <4>1 DEF Free, Typed
      <4>3. Held \subseteq Held'  BY <4>2 DEF Held
      <4> QED  BY <4>3 DEF Typed
    <3> QED  BY <2>1, <3>3, <3>4, <3>5 DEF Typed
  <2> QED  BY <2>1, <2>2, <2>3
<1>6. ASSUME NEW b \in BrokerIds, NEW c \in Commands, BrokerPublishes(b, c) PROVE Typed'
  <2>1. toClient' \in Seq(ToClient)  BY <1>6, Made, AppendIn DEF BrokerPublishes, Typed
  <2>2. unacked' \in [BrokerIds -> Commands \cup {NoMessage}] /\ handed' \subseteq Commands
    BY <1>6 DEF BrokerPublishes, Typed
  <2>3. UNCHANGED <<phase, at, nextId, subId, ping, slots, outgoing, incoming, link, toBroker, session, steady, reached, lost>>
    BY <1>6 DEF BrokerPublishes, control
  <2>4. Held' = Held  BY <2>3 DEF Held
  <2> QED  BY <2>1, <2>2, <2>3, <2>4 DEF Typed
<1>7. CASE BrokerReads
  <2> DEFINE p == Head(toBroker)
  <2>1. /\ toBroker # <<>> /\ p \in ToBroker /\ p \in In(toBroker) /\ toBroker' = Tail(toBroker)
        /\ UNCHANGED <<phase, at, nextId, subId, ping, slots, outgoing, incoming, link, steady, lost, handed>>
    BY <1>7, BrokerReadsRight
  <2>2. /\ toClient' \in Seq(ToClient) /\ session' \in BOOLEAN
        /\ unacked' \in [BrokerIds -> Commands \cup {NoMessage}]
        /\ reached' \subseteq Held \X Contents
    <3>1. CASE /\ p.type = "CONNECT" /\ session' = TRUE /\ UNCHANGED <<unacked, reached>>
               /\ Reply(<<[type |-> "CONNACK", present |-> session]>> \o Unanswered)
      <4>1. toClient = <<>>  BY <2>1, <3>1 DEF Connecting
      <4> QED  BY <3>1, <4>1, AnsweredRight DEF Typed
    <3>2. CASE /\ p.type = "PUBLISH" /\ p.id \in PacketIds /\ Reply(<<Packet("PUBACK", p.id)>>)
               /\ reached' = reached \cup Arrived(p) /\ UNCHANGED <<session, unacked>>
      <4>1. p.msg \in Contents  BY <2>1, <3>2, FromBox DEF Contents
      <4>2. Arrived(p) \subseteq Held \X Contents  BY <3>2, <4>1, ArrivedRight
      <4> QED  BY <3>2, <4>2, Made, ReplyRight DEF Typed
    <3>3. CASE /\ p.type = "SUBSCRIBE" /\ p.id \in PacketIds /\ Reply(<<Packet("SUBACK", p.id)>>)
               /\ UNCHANGED <<session, unacked, reached>>
      BY <3>3, Made, ReplyRight DEF Typed
    <3>4. CASE /\ p.type = "PINGREQ" /\ Reply(<<Packet("PINGRESP", NoId)>>)
               /\ UNCHANGED <<session, unacked, reached>>
      BY <3>4, Made, ReplyRight DEF Typed
    <3>5. CASE /\ p.type = "PUBACK" /\ p.id \in BrokerIds /\ unacked' = [unacked EXCEPT ![p.id] = NoMessage]
               /\ UNCHANGED <<session, toClient, reached>>
      BY <3>5 DEF Typed
    <3> QED  BY <1>7, <3>1, <3>2, <3>3, <3>4, <3>5, BrokerReadsRight
  <2>3. toBroker' \in Seq(ToBroker)  BY <2>1, ReadRight DEF Typed
  <2>4. Held' = Held  BY <2>1 DEF Held
  <2> HIDE DEF p
  <2> QED  BY <2>1, <2>2, <2>3, <2>4 DEF Typed
<1>8. CASE BrokerForgets
  <2>1. unacked' \in [BrokerIds -> Commands \cup {NoMessage}] /\ session' = FALSE /\ lost' = TRUE
    BY <1>8 DEF BrokerForgets, NoUnacked
  <2>2. UNCHANGED <<phase, at, nextId, subId, ping, slots, outgoing, incoming, link, toBroker, toClient, steady, reached, handed>>
    BY <1>8 DEF BrokerForgets, control, network
  <2>3. Held' = Held  BY <2>2 DEF Held
  <2> QED  BY <2>1, <2>2, <2>3 DEF Typed
<1>9. CASE Cut
  <2>1. /\ link' = "cut"
        /\ UNCHANGED <<phase, at, nextId, subId, ping, slots, outgoing, incoming, toBroker, toClient, session, unacked,
                       steady, reached, lost, handed>>
    BY <1>9 DEF Cut, control, broker, ghosts
  <2>2. Held' = Held  BY <2>1 DEF Held
  <2> QED  BY <2>1, <2>2 DEF Typed
<1>10. CASE PowerCut
  <2>1. Booted /\ steady' \in BOOLEAN  BY <1>10 DEF PowerCut, Typed
  <2> QED  BY <2>1, BootedTyped
<1>11. CASE Settle
  <2>1. /\ steady' = TRUE
        /\ UNCHANGED <<phase, at, nextId, subId, ping, slots, outgoing, incoming, link, toBroker, toClient, session, unacked,
                       reached, lost, handed>>
    BY <1>11 DEF Settle, control, network, broker, ghosts
  <2>2. Held' = Held  BY <2>1 DEF Held
  <2> QED  BY <2>1, <2>2 DEF Typed
<1> QED  BY <1>1, <1>2, <1>3, <1>4, <1>5, <1>6, <1>7, <1>8, <1>9, <1>10, <1>11 DEF MqttNext

-----------------------------------------------------------------------------
(* The connection *)

\* Once the session is open, no CONNECT and no CONNACK is under way.
LEMMA CalmConnection ==
  ASSUME Connection, phase \notin {"offline", "connack"}, phase' # "connack", link' = "up" => link = "up",
         \A p \in In(toBroker') : p.type = "CONNECT" => p \in In(toBroker),
         \A p \in In(toClient') : p.type = "CONNACK" => p \in In(toClient),
         session' = session, lost' = lost
  PROVE  Connection'
<1>1. \A p \in In(toBroker) : p.type # "CONNECT"  BY DEF Connection, Connecting
<1>2. \A p \in In(toClient) : p.type # "CONNACK"  BY DEF Connection, Connecting
<1>3. \A p \in In(toBroker') : p.type # "CONNECT"  BY <1>1
<1>4. \A p \in In(toClient') : p.type # "CONNACK"  BY <1>2
<1>5. Connecting'  BY <1>3, <1>4 DEF Connecting
<1>6. link' = "up" => session  BY <1>1 DEF Connection, SessionKnown
<1>7. SessionKnown'  BY <1>4, <1>6 DEF Connection, SessionKnown
<1> QED  BY <1>5, <1>7 DEF Connection

\* A start and a connection that is given up take what comes from the broker away
\* (DisconnectMqttSession).
LEMMA HangupConnection ==
  ASSUME Connection, phase' = "offline", link' = "cut", toClient' = <<>>, toBroker' = toBroker,
         session' = session, lost' = lost \/ lost' = TRUE
  PROVE  Connection'
<1>1. In(toClient') = {}  BY FewIn
<1>2. Connecting'  BY <1>1 DEF Connection, Connecting
<1>3. SessionKnown'  BY <1>1 DEF Connection, SessionKnown
<1> QED  BY <1>2, <1>3 DEF Connection

\* EstablishMqttSession and mqtt_subscribe_init keep the order of a connection.
LEMMA CallConnection ==
  ASSUME MqttAssumption, Typed, OneEach(outgoing), KeptWait, Connection, Call
  PROVE  Connection'
<1>1. CASE Connect
  <2>1. /\ phase' = "connack" /\ link' = "up" /\ toBroker' = <<Packet("CONNECT", NoId)>> /\ toClient' = <<>>
        /\ UNCHANGED <<session, lost>>
    BY <1>1 DEF Connect, broker, ghosts
  <2>2. /\ In(toBroker') = {Packet("CONNECT", NoId)} /\ In(toClient') = {} /\ Len(toClient') = 0
        /\ Packet("CONNECT", NoId).type = "CONNECT" /\ toBroker' # <<>>
    BY <2>1, FewIn DEF Packet
  <2>3. Connecting'  BY <2>1, <2>2 DEF Connecting
  <2>4. SessionKnown'  BY <2>1, <2>2 DEF Connection, SessionKnown
  <2> QED  BY <2>3, <2>4 DEF Connection
<1>2. CASE ConnackFails
  <2>1. /\ phase' = "offline" /\ link' = "cut" /\ toClient' = <<>> /\ UNCHANGED <<toBroker, session, lost>>
    BY <1>2 DEF ConnackFails, Hangup, broker, ghosts
  <2> QED  BY <2>1, HangupConnection
<1>3. CASE Connack
  <2>1. /\ phase = "connack" /\ toClient # <<>> /\ toClient' = Tail(toClient) /\ UNCHANGED <<link, toBroker, session>>
        /\ phase' \in {"resend", "subscribe"} /\ (lost' = lost \/ lost' = ~session)
    BY <1>3 DEF Connack, ForgetSession, broker
  <2>2. \A p \in In(toBroker) : p.type # "CONNECT"  BY <2>1 DEF Connection, Connecting
  <2>3. \A p \in In(toClient') : p.type # "CONNACK"
    <3>1. toClient \in Seq(ToClient) /\ Len(toClient) \in Nat /\ Tail(toClient) \in Seq(ToClient)
          /\ Len(Tail(toClient)) = Len(toClient) - 1 /\ \A i \in 1..Len(Tail(toClient)) : Tail(toClient)[i] = toClient[i + 1]
      BY <2>1, HeadTailProperties, LenProperties DEF Typed
    <3>2. \A i \in 1..Len(toClient) : toClient[i].type = IF i = 1 THEN "CONNACK" ELSE "PUBLISH"
      BY <2>1 DEF Connection, Connecting
    <3>3. ASSUME NEW i \in 1..Len(Tail(toClient)) PROVE Tail(toClient)[i].type = "PUBLISH"
      <4>1. i + 1 \in 1..Len(toClient) /\ i + 1 # 1 /\ Tail(toClient)[i] = toClient[i + 1]  BY <3>1
      <4> QED  BY <3>2, <4>1
    <3> QED  BY <2>1, <3>3 DEF In
  <2>4. Connecting'  BY <2>1, <2>2, <2>3 DEF Connecting
  <2>5. SessionKnown'
    <3>1. ASSUME ~session PROVE lost'
      <4>1. lost  BY <3>1 DEF Connection, SessionKnown
      <4>2. CASE lost' = lost  BY <4>1, <4>2
      <4>3. CASE lost' = ~session  BY <3>1, <4>3, Zenon
      <4> QED  BY <2>1, <4>2, <4>3
    <3>2. link = "up" => session  BY <2>2 DEF Connection, SessionKnown
    <3> QED  BY <2>1, <2>3, <3>1, <3>2 DEF SessionKnown
  <2> QED  BY <2>4, <2>5 DEF Connection
<1>4. CASE Resend
  <2>1. /\ phase = "resend" /\ phase' \in {"resend", "subscribe", "offline"} /\ UNCHANGED <<toClient, session, lost>>
    BY <1>4 DEF Resend, NextPacket, broker, ghosts
  <2>2. /\ \A p \in In(toBroker') : p.type = "CONNECT" => p \in In(toBroker)
        /\ link' = "up" => link = "up"
    <3>1. CASE UNCHANGED <<link, toBroker>>  BY <3>1
    <3>2. CASE SendFails  BY <3>2 DEF SendFails
    <3>3. CASE \E m \in ContentLater(slots[at].msg) : Sent(Publish(slots[at].id, m)) /\ slots[at] # Free
      <4>1. PICK m \in ContentLater(slots[at].msg) : Sent(Publish(slots[at].id, m)) /\ slots[at] # Free  BY <3>3
      <4>2. slots[at].id \in PacketIds /\ slots[at].msg \in Messages  BY <2>1, <4>1 DEF Typed
      <4>3. Publish(slots[at].id, m) \in ToBroker  BY <4>2, Made DEF ContentLater
      <4>4. Grows(toBroker, toBroker', Publish(slots[at].id, m)) /\ link' = link  BY <4>1, <4>3, SentRight DEF Typed
      <4> QED  BY <4>4 DEF Grows, Publish
    <3> QED  BY <1>4, <3>1, <3>2, <3>3 DEF Resend
  <2> QED  BY <2>1, <2>2, CalmConnection
<1>5. CASE SubscribeToTopic
  <2>1. /\ phase = "subscribe" /\ phase' \in {"subscribe", "suback", "serving"} /\ UNCHANGED <<toClient, session, lost>>
    BY <1>5 DEF SubscribeToTopic, NextTopic, broker, ghosts
  <2>2. /\ \A p \in In(toBroker') : p.type = "CONNECT" => p \in In(toBroker)
        /\ link' = "up" => link = "up"
    <3>1. CASE SendFails  BY <3>1 DEF SendFails
    <3>2. CASE Sent(Packet("SUBSCRIBE", nextId))
      <4>1. Packet("SUBSCRIBE", nextId) \in ToBroker  BY Made DEF Typed
      <4>2. Grows(toBroker, toBroker', Packet("SUBSCRIBE", nextId)) /\ link' = link  BY <3>2, <4>1, SentRight DEF Typed
      <4> QED  BY <4>2 DEF Grows, Packet
    <3> QED  BY <1>5, <3>1, <3>2 DEF SubscribeToTopic
  <2> QED  BY <2>1, <2>2, CalmConnection
<1>6. CASE WaitForPacketAckFails
  <2>1. /\ phase = "suback" /\ phase' \in {"subscribe", "suback", "serving"}
        /\ UNCHANGED <<link, toBroker, toClient, session, lost>>
    BY <1>6 DEF WaitForPacketAckFails, NextTopic, network, broker, ghosts
  <2> QED  BY <2>1, CalmConnection
<1> QED  BY <1>1, <1>2, <1>3, <1>4, <1>5, <1>6 DEF Call

\* MQTT_ProcessLoop keeps the order of a connection.
LEMMA ProcessLoopConnection ==
  ASSUME Typed, OneEach(outgoing), OneEach(incoming), OutboundOnce, Connection, ProcessLoop
  PROVE  Connection'
<1> DEFINE Kind(q, r, t) == \A p \in In(r) : p.type = t => p \in In(q)
<1>0. ASSUME toClient # <<>> PROVE Kind(toClient, Tail(toClient), "CONNACK")
  BY <1>0, ReadRight DEF Shrinks, Typed
<1>1. CASE HandlePuback
  <2>1. /\ toClient # <<>> /\ phase \in {"suback", "serving"} /\ toClient' = Tail(toClient)
        /\ (phase = "suback" /\ NextTopic) \/ UNCHANGED <<phase, at>>
        /\ UNCHANGED <<link, toBroker, session, lost>>
    BY <1>1, PubackRight
  <2>2. phase' # "connack"  BY <2>1 DEF NextTopic
  <2> QED  BY <1>0, <2>1, <2>2, CalmConnection
<1>2. CASE HandleSuback
  <2>1. CASE Booted
    <3>1. /\ phase' = "offline" /\ link' = "cut" /\ toClient' = <<>> /\ toBroker' = toBroker
          /\ session' = session /\ lost' = TRUE
      BY <2>1 DEF Booted, broker
    <3> QED  BY <3>1, HangupConnection
  <2>2. CASE Acknowledged(subId) /\ UNCHANGED <<nextId, subId, ping, slots, outgoing, incoming, toBroker, broker, ghosts>>
    <3>1. /\ toClient' = Tail(toClient) /\ link' = link /\ phase \in {"suback", "serving"} /\ toClient # <<>>
          /\ (phase = "suback" /\ NextTopic) \/ UNCHANGED <<phase, at>>
          /\ UNCHANGED <<toBroker, session, lost>>
      BY <1>2, <2>2 DEF Acknowledged, HandleSuback, Receives, broker, ghosts
    <3>2. phase' # "connack"  BY <3>1 DEF NextTopic
    <3> QED  BY <1>0, <3>1, <3>2, CalmConnection
  <2> QED  BY <1>2, <2>1, <2>2 DEF HandleSuback
<1>3. CASE HandlePublish
  <2> DEFINE b == Head(toClient).id
  <2>1. /\ toClient # <<>> /\ b \in BrokerIds /\ phase \in {"suback", "serving"}
        /\ \/ /\ Sent(Packet("PUBACK", b)) /\ toClient' = Tail(toClient) /\ UNCHANGED <<phase, at>>
           \/ /\ UNCHANGED toBroker /\ link' \in {link, "cut"}
              /\ \/ phase' = "offline" /\ at' = 1 /\ link' = "cut" /\ toClient' = <<>>
                 \/ phase = "suback" /\ NextTopic /\ toClient' = Tail(toClient)
        /\ UNCHANGED <<session, lost>>
    BY <1>3, PublishRight
  <2> HIDE DEF b
  <2>2. phase' # "connack"  BY <2>1 DEF NextTopic
  <2>3. Kind(toBroker, toBroker', "CONNECT") /\ (link' = "up" => link = "up")
    <3>1. CASE Sent(Packet("PUBACK", b))
      <4>1. Grows(toBroker, toBroker', Packet("PUBACK", b)) /\ link' = link
        BY <2>1, <3>1, Made, SentRight DEF Typed
      <4> QED  BY <4>1 DEF Grows, Packet
    <3>2. CASE UNCHANGED toBroker /\ link' \in {link, "cut"}  BY <3>2
    <3> QED  BY <2>1, <3>1, <3>2
  <2>4. Kind(toClient, toClient', "CONNACK")
    <3>1. CASE toClient' = <<>>  BY <3>1, FewIn
    <3>2. CASE toClient' = Tail(toClient)  BY <1>0, <2>1, <3>2
    <3> QED  BY <2>1, <3>1, <3>2
  <2> QED  BY <2>1, <2>2, <2>3, <2>4, CalmConnection
<1>4. CASE HandlePingresp
  <2>1. /\ toClient # <<>> /\ phase \in {"suback", "serving"} /\ toClient' = Tail(toClient)
        /\ UNCHANGED <<phase, link, toBroker, session, lost>>
    BY <1>4 DEF HandlePingresp, Receives, broker, ghosts
  <2> QED  BY <1>0, <2>1, CalmConnection
<1> QED  BY <1>1, <1>2, <1>3, <1>4 DEF ProcessLoop

\* The broker keeps the order of a connection: CONNACK, its commands, and its answers.
LEMMA BrokerConnection ==
  ASSUME MqttAssumption, Typed, Connection,
         BrokerReads \/ \E b \in BrokerIds, c \in Commands : BrokerPublishes(b, c)
  PROVE  Connection'
<1>1. CASE BrokerReads /\ Head(toBroker).type = "CONNECT"
  <2> DEFINE p == Head(toBroker)
  <2>1. /\ p \in In(toBroker) /\ toBroker' = Tail(toBroker)
        /\ session' = TRUE /\ UNCHANGED <<phase, link, lost>>
        /\ Reply(<<[type |-> "CONNACK", present |-> session]>> \o Unanswered)
    BY <1>1, BrokerReadsRight
  <2>2. /\ toBroker = <<Packet("CONNECT", NoId)>> /\ toClient = <<>>
        /\ phase = "connack" \/ (phase = "offline" /\ link = "cut")
    BY <1>1, <2>1 DEF Connection, Connecting
  <2>3. toBroker' = <<>> /\ In(toBroker') = {}  BY <2>1, <2>2, FewIn
  <2>4. /\ link # "up" => toClient' = <<>>
        /\ link = "up" => Len(toClient') > 0
        /\ \A i \in 1..Len(toClient') : toClient'[i].type = IF i = 1 THEN "CONNACK" ELSE "PUBLISH"
        /\ \A q \in In(toClient') : q.type = "CONNACK" => q.present = session
    BY <2>1, <2>2, AnsweredRight
  <2>5. link = "up" => toClient' # <<>>
    <3>1. Len(<<>>) = 0  OBVIOUS
    <3> QED  BY <2>4, <3>1
  <2>6. link # "up" => In(toClient') = {}  BY <2>4, FewIn
  <2>7. Connecting'  BY <2>1, <2>2, <2>3, <2>4, <2>5, <2>6 DEF Connecting
  <2>8. SessionKnown'
    <3>1. ASSUME NEW q \in In(toClient'), q.type = "CONNACK", ~q.present PROVE lost
      <4>1. q.present = session  BY <2>4, <3>1
      <4>2. ~session  BY <3>1, <4>1
      <4> QED  BY <4>2 DEF Connection, SessionKnown
    <3> QED  BY <2>1, <3>1 DEF SessionKnown
  <2> QED  BY <2>7, <2>8 DEF Connection
<1>2. CASE BrokerReads /\ Head(toBroker).type # "CONNECT"
  <2> DEFINE p == Head(toBroker)
  <2>1. /\ toBroker # <<>> /\ p \in In(toBroker) /\ toBroker' = Tail(toBroker)
        /\ UNCHANGED <<phase, link, lost>> /\ session' = session
        /\ (\E q \in ToClient : q.type # "CONNACK" /\ Reply(<<q>>)) \/ UNCHANGED toClient
    <3>1. \A id \in PacketIds \cup {NoId} : /\ Packet("PUBACK", id).type # "CONNACK"
                                           /\ Packet("SUBACK", id).type # "CONNACK"
                                           /\ Packet("PINGRESP", id).type # "CONNACK"
      BY DEF Packet
    <3> HIDE DEF p
    <3>2. LET q == Head(toBroker) IN
          /\ toBroker # <<>> /\ q \in In(toBroker) /\ toBroker' = Tail(toBroker)
          /\ UNCHANGED <<phase, link, lost>> /\ session' = session
          /\ \/ q.id \in PacketIds /\ Reply(<<Packet("PUBACK", q.id)>>)
             \/ q.id \in PacketIds /\ Reply(<<Packet("SUBACK", q.id)>>)
             \/ Reply(<<Packet("PINGRESP", NoId)>>)
             \/ UNCHANGED toClient
      BY <1>2, BrokerReadsRight
    <3> QED  BY <3>1, <3>2, Made DEF p
  <2>2. \A q \in In(toBroker) : q.type # "CONNECT"
    <3>1. ASSUME NEW q \in In(toBroker), q.type = "CONNECT" PROVE FALSE
      <4>1. toBroker = <<Packet("CONNECT", NoId)>>  BY <3>1 DEF Connection, Connecting
      <4>2. p = Packet("CONNECT", NoId)  BY <4>1
      <4> QED  BY <1>2, <4>2 DEF Packet
    <3> QED  BY <3>1
  <2>3. phase # "connack"  BY <2>1, <2>2 DEF Connection, Connecting
  <2>4. \A q \in In(toBroker') : q.type # "CONNECT"
    BY <2>1, <2>2, ReadRight DEF Shrinks, Typed
  <2>5. \A q \in In(toClient') : q.type # "CONNACK"
    <3>1. \A q \in In(toClient) : q.type # "CONNACK"  BY <2>3 DEF Connection, Connecting
    <3>2. CASE \E q \in ToClient : q.type # "CONNACK" /\ Reply(<<q>>)
      <4>1. PICK q \in ToClient : q.type # "CONNACK" /\ Reply(<<q>>)  BY <3>2
      <4>2. Grows(toClient, toClient', q)  BY <4>1, ReplyRight DEF Typed
      <4> QED  BY <3>1, <4>1, <4>2 DEF Grows
    <3> QED  BY <2>1, <3>1, <3>2
  <2>6. Connecting'  BY <2>1, <2>3, <2>4, <2>5 DEF Connecting
  <2>7. SessionKnown'  BY <2>1, <2>2, <2>5 DEF Connection, SessionKnown
  <2> QED  BY <2>6, <2>7 DEF Connection
<1>3. ASSUME NEW b \in BrokerIds, NEW c \in Commands, BrokerPublishes(b, c) PROVE Connection'
  <2> DEFINE q == Publish(b, c)
  <2>1. /\ link = "up" /\ toClient' = Append(toClient, q) /\ UNCHANGED <<phase, link, toBroker, session, lost>>
        /\ \A i \in DOMAIN toBroker : toBroker[i].type # "CONNECT"
    BY <1>3 DEF BrokerPublishes, control
  <2>2. q \in ToClient /\ q.type = "PUBLISH"  BY Made DEF Publish
  <2> HIDE DEF q
  <2>3. toBroker \in Seq(ToBroker) /\ DOMAIN toBroker = 1..Len(toBroker)  BY LenProperties DEF Typed
  <2>4. \A p \in In(toBroker) : p.type # "CONNECT"  BY <2>1, <2>3 DEF In
  <2>5. /\ Len(toClient) \in Nat /\ Len(toClient') = Len(toClient) + 1 /\ toClient'[Len(toClient) + 1] = q
        /\ \A i \in 1..Len(toClient) : toClient'[i] = toClient[i]
        /\ In(toClient') = In(toClient) \cup {q}
    BY <2>1, <2>2, AppendProperties, LenProperties, AppendIn DEF Typed
  <2>6. toClient' # <<>>
    <3>1. Len(<<>>) = 0  OBVIOUS
    <3> QED  BY <2>5, <3>1
  <2>7. phase = "connack" => toClient # <<>>
    <3>1. ASSUME toBroker # <<>> PROVE Head(toBroker) \in In(toBroker)  BY <2>3, <3>1, TailIn
    <3> QED  BY <2>1, <2>4, <3>1 DEF Connection, Connecting
  <2>8. phase = "connack" => \A i \in 1..Len(toClient') : toClient'[i].type = IF i = 1 THEN "CONNACK" ELSE "PUBLISH"
    <3>1. SUFFICES ASSUME phase = "connack", NEW i \in 1..Len(toClient')
                   PROVE  toClient'[i].type = IF i = 1 THEN "CONNACK" ELSE "PUBLISH"
      OBVIOUS
    <3>2. Len(toClient) # 0  BY <2>7, <3>1, EmptySeq DEF Typed
    <3>3. CASE i = Len(toClient) + 1
      <4>1. i # 1  BY <2>5, <3>2, <3>3
      <4> QED  BY <2>2, <2>5, <3>3, <4>1
    <3>4. CASE i # Len(toClient) + 1
      <4>1. i \in 1..Len(toClient)  BY <2>5, <3>1, <3>4
      <4> QED  BY <2>5, <3>1, <4>1 DEF Connection, Connecting
    <3> QED  BY <3>3, <3>4
  <2>9. Connecting'
    <3>1. phase # "connack" => \A p \in In(toClient') : p.type # "CONNACK"
      BY <2>2, <2>5 DEF Connection, Connecting
    <3>2. phase = "connack" => \A p \in In(toBroker) : p.type = "CONNECT"
      BY DEF Connection, Connecting
    <3> QED  BY <2>1, <2>4, <2>6, <2>8, <3>1, <3>2 DEF Connecting
  <2>10. SessionKnown'
    <3>1. \A p \in In(toClient') : p.type = "CONNACK" /\ ~p.present => lost
      BY <2>2, <2>5 DEF Connection, SessionKnown
    <3> QED  BY <2>1, <3>1 DEF Connection, SessionKnown
  <2> QED  BY <2>9, <2>10 DEF Connection
<1> QED  BY <1>1, <1>2, <1>3

\* Each step keeps the order of a connection.
LEMMA StepConnection ==
  ASSUME MqttAssumption, Typed, OneEach(outgoing), OneEach(incoming), KeptWait, OutboundOnce, Connection, MqttNext
  PROVE  Connection'
<1>1. CASE Call  BY <1>1, CallConnection
<1>2. CASE ProcessLoop  BY <1>2, ProcessLoopConnection
<1>3. CASE KeepAlive
  <2>1. /\ phase \in {"suback", "serving"} /\ Sent(Packet("PINGREQ", NoId)) /\ UNCHANGED <<phase, toClient, session, lost>>
    BY <1>3 DEF KeepAlive, broker, ghosts
  <2>2. Grows(toBroker, toBroker', Packet("PINGREQ", NoId)) /\ link' = link  BY <2>1, Made, SentRight DEF Typed
  <2>3. \A p \in In(toBroker') : p.type = "CONNECT" => p \in In(toBroker)  BY <2>2 DEF Grows, Packet
  <2> QED  BY <2>1, <2>2, <2>3, CalmConnection
<1>4. CASE ServiceEnds
  <2>1. phase' = "offline" /\ link' = "cut" /\ toClient' = <<>> /\ UNCHANGED <<toBroker, session, lost>>
    BY <1>4 DEF ServiceEnds, Hangup, broker, ghosts
  <2> QED  BY <2>1, HangupConnection
<1>5. ASSUME NEW m \in Messages, PublishToTopic(m) PROVE Connection'
  <2>1. /\ phase = "serving" /\ UNCHANGED <<phase, toClient, session, lost>>
        /\ Sent(Publish(nextId, m)) \/ (UNCHANGED toBroker /\ link' \in {link, "cut"})
    BY <1>5, PublishToTopicRight DEF Outbound
  <2>2. /\ \A p \in In(toBroker') : p.type = "CONNECT" => p \in In(toBroker)
        /\ link' = "up" => link = "up"
    <3>1. CASE Sent(Publish(nextId, m))
      <4>1. Publish(nextId, m) \in ToBroker  BY Made DEF Typed
      <4>2. Grows(toBroker, toBroker', Publish(nextId, m)) /\ link' = link  BY <3>1, <4>1, SentRight DEF Typed
      <4> QED  BY <4>2 DEF Grows, Publish
    <3>2. CASE UNCHANGED toBroker /\ link' \in {link, "cut"}  BY <3>2
    <3> QED  BY <2>1, <3>1, <3>2
  <2> QED  BY <2>1, <2>2, CalmConnection
<1>6. CASE BrokerReads \/ \E b \in BrokerIds, c \in Commands : BrokerPublishes(b, c)
  BY <1>6, BrokerConnection
<1>7. CASE BrokerForgets
  <2>1. link = "cut" /\ lost' = TRUE /\ UNCHANGED <<phase, link, toBroker, toClient>>
    BY <1>7 DEF BrokerForgets, control, network
  <2> QED  BY <2>1 DEF Connection, Connecting, SessionKnown
<1>8. CASE Cut
  <2>1. link = "up" /\ link' = "cut" /\ UNCHANGED <<phase, toBroker, toClient, session, lost>>
    BY <1>8 DEF Cut, control, broker, ghosts
  <2> QED  BY <2>1 DEF Connection, Connecting, SessionKnown
<1>9. CASE PowerCut
  <2>1. /\ phase' = "offline" /\ link' = "cut" /\ toClient' = <<>> /\ toBroker' = toBroker
        /\ session' = session /\ lost' = TRUE
    BY <1>9 DEF PowerCut, Booted, broker
  <2> QED  BY <2>1, HangupConnection
<1>10. CASE Settle
  <2>1. UNCHANGED <<phase, link, toBroker, toClient, session, lost>>
    BY <1>10 DEF Settle, control, network, broker, ghosts
  <2> QED  BY <2>1 DEF Connection, Connecting, SessionKnown
<1> QED  BY <1>1, <1>2, <1>3, <1>4, <1>5, <1>6, <1>7, <1>8, <1>9, <1>10 DEF MqttNext

-----------------------------------------------------------------------------
(* The outbox *)

\* A step that sends and answers no publish of the box, and keeps what is kept
LEMMA CalmOutbound ==
  ASSUME Typed, Typed', Outbound, slots' = slots, OneEach(outgoing'),
         \A x \in PacketIds : StateOf(outgoing, x) = "PubAckPending" => StateOf(outgoing', x) = "PubAckPending",
         Once(toBroker', "PUBLISH"), \A p \in In(toBroker') : p.type = "PUBLISH" => p \in In(toBroker),
         Once(toClient', "PUBACK"), \A p \in In(toClient') : p.type = "PUBACK" => p \in In(toClient),
         phase' # "offline" => phase # "offline",
         phase' = "connack" => phase = "connack",
         phase' = "resend" => phase = "connack" \/ (phase = "resend" /\ \A s \in Places(slots) : s >= at' => s >= at),
         reached \subseteq reached'
  PROVE  Outbound'
<1>1. Places(slots) \subseteq 1..Slots /\ \A s \in Places(slots) : slots[s].id \in PacketIds  BY SlotsTyped
<1>2. SlotsApart'  BY DEF Outbound, SlotsApart
<1>3. KeptWait'  BY <1>1 DEF Outbound, KeptWait
<1>4. \A id : (Outgoing(id)' => Outgoing(id)) /\ (Answered(id)' => Answered(id))
  BY DEF Outgoing, Answered, Has
<1>5. OutboundOnce'
  <2>1. \A id \in PacketIds : ~(Outgoing(id)' /\ Answered(id)')  BY <1>4 DEF Outbound, OutboundOnce
  <2>2. phase' # "offline" => \A id \in PacketIds :
          Outgoing(id)' \/ Answered(id)' => StateOf(outgoing', id) = "PubAckPending"
    BY <1>4 DEF Outbound, OutboundOnce
  <2>3. phase' \in {"connack", "resend"} => \A s \in Places(slots) :
          phase' = "connack" \/ s >= at' => ~Outgoing(slots[s].id)' /\ ~Answered(slots[s].id)'
    BY <1>4 DEF Outbound, OutboundOnce
  <2> QED  BY <2>1, <2>2, <2>3 DEF OutboundOnce
<1>6. OutboundSame'
  BY <1>4 DEF Outbound, OutboundSame
<1> QED  BY <1>2, <1>3, <1>5, <1>6 DEF Outbound

\* A start and a lost session leave nothing to be kept (cleanupOutgoingPublishes).
LEMMA EmptyOutbound ==
  ASSUME slots' = NoSlots, outgoing' = NoRecords(Records), phase' \notin {"connack", "resend"},
         Once(toBroker', "PUBLISH"), Once(toClient', "PUBACK"),
         \A id \in PacketIds : ~Answered(id)' /\ (phase' # "offline" => ~Outgoing(id)')
  PROVE  Outbound'
<1>1. Places(slots') = {}  BY DEF Places, NoSlots, Free
<1>2. OneEach(outgoing')  BY DEF OneEach, Places, NoRecords, Empty
<1>3. OutboundOnce'  BY DEF OutboundOnce
<1> QED  BY <1>1, <1>2, <1>3 DEF Outbound, SlotsApart, KeptWait, OutboundSame

\* EstablishMqttSession: a session that goes on keeps the packets, and sends each of them once.
LEMMA CallOutbound ==
  ASSUME MqttAssumption, Typed, Typed', Connection, Outbound, Call
  PROVE  Outbound'
<1>0. OneEach(outgoing) /\ KeptWait /\ Once(toBroker, "PUBLISH") /\ Once(toClient, "PUBACK")
  BY DEF Outbound, OutboundOnce
<1>1. CASE Connect
  <2>1. /\ phase' = "connack" /\ toBroker' = <<Packet("CONNECT", NoId)>> /\ toClient' = <<>>
        /\ UNCHANGED <<slots, outgoing, reached>>
    BY <1>1 DEF Connect, ghosts
  <2>2. \A id : ~Outgoing(id)' /\ ~Answered(id)'
    BY <2>1, FewIn DEF Outgoing, Answered, Has, Packet
  <2>3. Once(toBroker', "PUBLISH") /\ Once(toClient', "PUBACK")  BY <2>1, FewIn
  <2>4. OutboundOnce'  BY <2>2, <2>3 DEF OutboundOnce
  <2>5. SlotsApart' /\ KeptWait' /\ OneEach(outgoing')  BY <2>1 DEF Outbound, SlotsApart, KeptWait
  <2>6. OutboundSame'
    <3>1. \A p \in In(toBroker') : p.type # "PUBLISH"  BY <2>1, FewIn DEF Packet
    <3> QED  BY <2>2, <3>1 DEF OutboundSame
  <2> QED  BY <2>4, <2>5, <2>6 DEF Outbound
<1>2. CASE ConnackFails
  <2>1. /\ phase' = "offline" /\ toClient' = <<>> /\ UNCHANGED <<toBroker, slots, outgoing, reached>>
    BY <1>2 DEF ConnackFails, Hangup, ghosts
  <2>2. Once(toClient', "PUBACK") /\ In(toClient') = {}  BY <2>1, FewIn
  <2> QED  BY <1>0, <2>1, <2>2, CalmOutbound
<1>3. CASE Connack
  <2>1. /\ phase = "connack" /\ toClient # <<>> /\ toClient' = Tail(toClient) /\ UNCHANGED toBroker
        /\ \/ phase' = "resend" /\ UNCHANGED <<slots, outgoing, reached>>
           \/ phase' = "subscribe" /\ slots' = NoSlots /\ outgoing' = NoRecords(Records)
    BY <1>3 DEF Connack, ForgetSession
  <2>2. Shrinks(toClient, toClient')  BY <2>1, ReadRight DEF Typed
  <2>3. Once(toClient', "PUBACK") /\ In(toClient') \subseteq In(toClient)  BY <1>0, <2>2 DEF Shrinks
  <2>4. CASE phase' = "resend" /\ UNCHANGED <<slots, outgoing, reached>>
    BY <1>0, <2>1, <2>3, <2>4, CalmOutbound
  <2>5. CASE phase' = "subscribe" /\ slots' = NoSlots /\ outgoing' = NoRecords(Records)
    <3>1. \A p \in In(toBroker) : p.type # "PUBLISH"  BY <2>1 DEF Connection, Connecting
    <3>2. \A p \in In(toClient) : p.type # "PUBACK"  BY <2>1 DEF Connection, Connecting, In
    <3>3. \A id : ~Outgoing(id)' /\ ~Answered(id)'
      BY <2>1, <2>3, <3>1, <3>2 DEF Outgoing, Answered, Has
    <3> QED  BY <1>0, <2>1, <2>3, <2>5, <3>3, EmptyOutbound
  <2> QED  BY <2>1, <2>4, <2>5
<1>4. CASE Resend
  <2>1. /\ phase = "resend" /\ at \in 1..Slots /\ UNCHANGED <<slots, toClient, reached>>
    BY <1>4 DEF Resend, ghosts, Typed
  <2>2. \A s \in Places(slots) : s \in Nat /\ at \in Nat /\ (s >= at + 1 => s >= at)
    BY <2>1, SlotsTyped
  <2>3. CASE slots[at] = Free
    <3>1. NextPacket /\ UNCHANGED <<outgoing, toBroker>>  BY <1>4, <2>3 DEF Resend
    <3>2. phase' # "offline" /\ phase' # "connack" /\ (phase' = "resend" => at' = at + 1)
      BY <2>1, <3>1 DEF NextPacket
    <3> QED  BY <1>0, <2>1, <2>2, <3>1, <3>2, CalmOutbound
  <2>4. CASE slots[at] # Free
    <3> DEFINE id == slots[at].id
    <3>1. at \in Places(slots) /\ id \in PacketIds /\ slots[at].msg \in Messages
      BY <2>1, <2>4, SlotsTyped
    <3>2. StateOf(outgoing, id) = "PubAckPending" /\ ~Outgoing(id) /\ ~Answered(id)
      BY <2>1, <2>2, <3>1 DEF Outbound, KeptWait, OutboundOnce
    <3>3. /\ outgoing' = Resent(outgoing, id).records
          /\ \/ \E m \in ContentLater(slots[at].msg) : Sent(Publish(id, m)) /\ NextPacket
             \/ SendFails /\ phase' = "offline"
      BY <1>4, <2>4 DEF Resend
    <3>4. OneEach(outgoing') /\ \A x \in PacketIds : StateOf(outgoing', x) = StateOf(outgoing, x)
      BY <1>0, <3>1, <3>2, <3>3, ResentRight
    <3> HIDE DEF id
    <3>5. CASE SendFails /\ phase' = "offline"
      <4>1. UNCHANGED toBroker  BY <3>5 DEF SendFails
      <4> QED  BY <1>0, <2>1, <3>4, <3>5, <4>1, CalmOutbound
    <3>6. CASE \E m \in ContentLater(slots[at].msg) : Sent(Publish(id, m)) /\ NextPacket
      <4>1. PICK m \in ContentLater(slots[at].msg) : Sent(Publish(id, m)) /\ NextPacket  BY <3>6
      <4> DEFINE q == Publish(id, m)
      <4>2. q \in ToBroker /\ q.type = "PUBLISH" /\ q.id = id /\ q.msg = m
        BY <3>1, <4>1, Made DEF Publish, ContentLater
      <4> HIDE DEF q
      <4>3. Grows(toBroker, toBroker', q)  BY <4>1, <4>2, SentRight DEF Typed, q
      <4>4. \A t : Once(toBroker, t) /\ (q.type = t => ~Has(toBroker, t, q.id)) => Once(toBroker', t)
        BY <4>3 DEF Grows
      <4>5. Once(toBroker', "PUBLISH")  BY <1>0, <3>2, <4>2, <4>4 DEF Outgoing
      <4>6. \A p \in In(toBroker') : p \in In(toBroker) \/ p = q  BY <4>3 DEF Grows
      <4>7. /\ \A x : Outgoing(x)' => Outgoing(x) \/ x = id
            /\ \A x : Answered(x)' => Answered(x)
        BY <2>1, <4>2, <4>6 DEF Outgoing, Answered, Has
      <4>8. phase' # "offline" /\ phase' # "connack" /\ (phase' = "resend" => at' = at + 1)
        BY <2>1, <4>1 DEF NextPacket
      <4>9. ASSUME NEW s \in Places(slots), s >= at + 1 PROVE slots[s].id # id /\ slots[s].id \in PacketIds
        <5>1. s # at  BY <2>2, <4>9
        <5> QED  BY <3>1, <5>1, SlotsTyped DEF Outbound, SlotsApart, id
      <4>10. OutboundOnce'
        <5>1. \A x \in PacketIds : ~(Outgoing(x)' /\ Answered(x)')
          BY <3>2, <4>7 DEF Outbound, OutboundOnce
        <5>2. \A x \in PacketIds : Outgoing(x)' \/ Answered(x)' => StateOf(outgoing', x) = "PubAckPending"
          BY <2>1, <3>2, <3>4, <4>7 DEF Outbound, OutboundOnce
        <5>3. phase' = "resend" => \A s \in Places(slots) : s >= at' => ~Outgoing(slots[s].id)' /\ ~Answered(slots[s].id)'
          BY <2>1, <2>2, <4>7, <4>8, <4>9 DEF Outbound, OutboundOnce
        <5> QED  BY <1>0, <2>1, <4>5, <4>8, <5>1, <5>2, <5>3 DEF OutboundOnce
      <4>11. KeptWait' /\ SlotsApart'  BY <2>1, <3>4, SlotsTyped DEF Outbound, KeptWait, SlotsApart
      <4>12. OutboundSame'
        <5> SUFFICES ASSUME NEW s \in Places(slots)
                     PROVE  /\ \A p \in In(toBroker') :
                                 p.type = "PUBLISH" /\ p.id = slots[s].id => p.msg \in ContentLater(slots[s].msg)
                            /\ Answered(slots[s].id)' => \E r \in reached : r[1] = slots[s].msg
          BY <2>1 DEF OutboundSame
        <5>1. slots[s].id = id => s = at  BY <3>1 DEF Outbound, SlotsApart, id
        <5>2. OutboundSame /\ m \in ContentLater(slots[at].msg)  BY <4>1 DEF Outbound
        <5> QED  BY <2>1, <4>2, <4>6, <4>7, <5>1, <5>2 DEF OutboundSame
      <4> QED  BY <3>4, <4>10, <4>11, <4>12 DEF Outbound
    <3> QED  BY <3>3, <3>5, <3>6
  <2> QED  BY <2>3, <2>4
<1>5. CASE SubscribeToTopic
  <2>1. /\ phase = "subscribe" /\ phase' \in {"subscribe", "suback", "serving"} /\ UNCHANGED <<slots, outgoing, toClient, reached>>
    BY <1>5 DEF SubscribeToTopic, NextTopic, ghosts
  <2>2. Once(toBroker', "PUBLISH") /\ \A p \in In(toBroker') : p.type = "PUBLISH" => p \in In(toBroker)
    <3>1. CASE SendFails  BY <1>0, <3>1 DEF SendFails
    <3>2. CASE Sent(Packet("SUBSCRIBE", nextId))
      <4>1. Packet("SUBSCRIBE", nextId) \in ToBroker /\ Packet("SUBSCRIBE", nextId).type = "SUBSCRIBE"  BY Made DEF Typed, Packet
      <4>2. Grows(toBroker, toBroker', Packet("SUBSCRIBE", nextId))  BY <3>2, <4>1, SentRight DEF Typed
      <4> QED  BY <1>0, <4>1, <4>2 DEF Grows
    <3> QED  BY <1>5, <3>1, <3>2 DEF SubscribeToTopic
  <2> QED  BY <1>0, <2>1, <2>2, CalmOutbound
<1>6. CASE WaitForPacketAckFails
  <2>1. /\ phase = "suback" /\ phase' \in {"subscribe", "suback", "serving"}
        /\ UNCHANGED <<toBroker, toClient, slots, outgoing, reached>>
    BY <1>6 DEF WaitForPacketAckFails, NextTopic, network, ghosts
  <2> QED  BY <1>0, <2>1, CalmOutbound
<1> QED  BY <1>1, <1>2, <1>3, <1>4, <1>5, <1>6 DEF Call

\* An acknowledgement takes away the packet it is for, with its record (HandlePuback).
LEMMA PubackOutbound ==
  ASSUME Typed, Outbound, HandlePuback
  PROVE  Outbound'
<1>0. PICK id : id = Head(toClient).id  OBVIOUS
<1>1. /\ toClient # <<>> /\ Head(toClient).type = "PUBACK" /\ id \in PacketIds /\ phase \in {"suback", "serving"}
      /\ Answered(id) /\ toClient' = Tail(toClient) /\ slots' = CleanupOutgoingPublish(id)
      /\ OneEach(outgoing')
      /\ \A x \in PacketIds : StateOf(outgoing', x) = IF x = id THEN "Null" ELSE StateOf(outgoing, x)
      /\ reached' = {r \in reached : \E s \in 1..Slots : slots'[s].msg = r[1]}
      /\ (phase = "suback" /\ NextTopic) \/ UNCHANGED <<phase, at>>
      /\ UNCHANGED toBroker
  BY <1>0, PubackRight DEF Outbound
<1>2. \A t : Once(toClient, t) => Once(toClient', t) /\ (Head(toClient).type = t => ~Has(toClient', t, Head(toClient).id))
  BY <1>1, TailIn DEF Typed
<1>3. Once(toClient', "PUBACK") /\ ~Answered(id)'
  BY <1>0, <1>1, <1>2 DEF Outbound, OutboundOnce, Answered
<1>4. \A x : (Outgoing(x)' => Outgoing(x)) /\ (Answered(x)' => Answered(x))
  <2>1. In(toClient') \subseteq In(toClient)  BY <1>1, ReadRight DEF Shrinks, Typed
  <2> QED  BY <1>1, <2>1 DEF Outgoing, Answered, Has
<1>5. ~Outgoing(id) /\ phase' \notin {"offline", "connack", "resend"} /\ phase # "offline"
  BY <1>1 DEF Outbound, OutboundOnce, NextTopic
<1>6. \A s \in Places(slots') : s \in Places(slots) /\ slots'[s] = slots[s] /\ slots[s].id # id
  BY <1>1, SlotsTyped DEF CleanupOutgoingPublish, Places, Free
<1>7. OutboundOnce'
  <2>1. \A x \in PacketIds : ~(Outgoing(x)' /\ Answered(x)')  BY <1>4 DEF Outbound, OutboundOnce
  <2>2. \A x \in PacketIds : Outgoing(x)' \/ Answered(x)' => StateOf(outgoing', x) = "PubAckPending"
    BY <1>1, <1>3, <1>4, <1>5 DEF Outbound, OutboundOnce
  <2> QED  BY <1>1, <1>3, <1>5, <2>1, <2>2 DEF Outbound, OutboundOnce
<1>8. SlotsApart'  BY <1>6 DEF Outbound, SlotsApart
<1>9. KeptWait'  BY <1>1, <1>6, SlotsTyped DEF Outbound, KeptWait
<1>10. OutboundSame'
  <2>1. OutboundSame  BY DEF Outbound
  <2> SUFFICES ASSUME NEW s \in Places(slots')
               PROVE  /\ \A p \in In(toBroker) :
                           p.type = "PUBLISH" /\ p.id = slots'[s].id => p.msg \in ContentLater(slots'[s].msg)
                      /\ Has(toClient', "PUBACK", slots'[s].id) => \E r \in reached' : r[1] = slots'[s].msg
    BY <1>1 DEF OutboundSame, Answered
  <2>2. s \in Places(slots) /\ slots'[s] = slots[s] /\ s \in 1..Slots  BY <1>6, SlotsTyped
  <2> QED  BY <1>1, <1>4, <2>1, <2>2 DEF OutboundSame, Answered, Outgoing
<1> QED  BY <1>1, <1>7, <1>8, <1>9, <1>10 DEF Outbound

\* A message that is published has a packet id that nothing under way has (PublishToTopic).
LEMMA PublishToTopicOutbound ==
  ASSUME Typed, Typed', Outbound, NEW m \in Messages, PublishToTopic(m)
  PROVE  Outbound'
<1>1. /\ phase = "serving" /\ m \notin Held /\ OneEach(outgoing')
      /\ \A x \in PacketIds : StateOf(outgoing, x) # "Null" => StateOf(outgoing', x) = StateOf(outgoing, x)
      /\ \/ /\ StateOf(outgoing, nextId) = "Null" /\ StateOf(outgoing', nextId) = "PubAckPending"
            /\ Sent(Publish(nextId, m))
            /\ \E f \in 1..Slots \ Places(slots) :
                 slots' = [slots EXCEPT ![f] = [id |-> nextId, msg |-> m]]
         \/ UNCHANGED <<slots, toBroker>> /\ link' \in {link, "cut"}
      /\ UNCHANGED <<phase, at, toClient, reached>>
  BY PublishToTopicRight DEF Outbound
<1>2. Once(toBroker, "PUBLISH") /\ Once(toClient, "PUBACK") /\ nextId \in PacketIds
  BY DEF Outbound, OutboundOnce, Typed
<1>3. CASE UNCHANGED <<slots, toBroker>>  BY <1>1, <1>2, <1>3, CalmOutbound
<1>4. CASE /\ StateOf(outgoing, nextId) = "Null" /\ StateOf(outgoing', nextId) = "PubAckPending"
           /\ Sent(Publish(nextId, m))
           /\ \E f \in 1..Slots \ Places(slots) : slots' = [slots EXCEPT ![f] = [id |-> nextId, msg |-> m]]
  <2>1. PICK f \in 1..Slots \ Places(slots) : slots' = [slots EXCEPT ![f] = [id |-> nextId, msg |-> m]]
    BY <1>4
  <2>2. ~Outgoing(nextId) /\ ~Answered(nextId)  BY <1>1, <1>2, <1>4 DEF Outbound, OutboundOnce
  <2> DEFINE q == Publish(nextId, m)
  <2>3. q \in ToBroker /\ q.type = "PUBLISH" /\ q.id = nextId /\ q.msg = m  BY <1>2, Made DEF Publish
  <2> HIDE DEF q
  <2>4. Grows(toBroker, toBroker', q)  BY <1>4, <2>3, SentRight DEF Typed, q
  <2>5. \A t : Once(toBroker, t) /\ (q.type = t => ~Has(toBroker, t, q.id)) => Once(toBroker', t)
    BY <2>4 DEF Grows
  <2>6. Once(toBroker', "PUBLISH")  BY <1>2, <2>2, <2>3, <2>5 DEF Outgoing
  <2>7. \A p \in In(toBroker') : p \in In(toBroker) \/ p = q  BY <2>4 DEF Grows
  <2>8. \A x : (Outgoing(x)' => Outgoing(x) \/ x = nextId) /\ (Answered(x)' => Answered(x))
    BY <1>1, <2>3, <2>7 DEF Outgoing, Answered, Has
  <2>9. /\ \A s \in Places(slots') : s = f \/ (s \in Places(slots) /\ slots'[s] = slots[s])
        /\ slots'[f] = [id |-> nextId, msg |-> m]
    BY <2>1, SlotsTyped DEF Places
  <2>10. \A s \in Places(slots) : slots[s].id # nextId /\ slots[s].id \in PacketIds /\ slots[s].msg # m
    <3>1. \A s \in Places(slots) : slots[s].msg \in Held  BY SlotsTyped
    <3>2. \A s \in Places(slots) : StateOf(outgoing, slots[s].id) = "PubAckPending"  BY DEF Outbound, KeptWait
    <3> QED  BY <1>1, <1>4, <3>1, <3>2, SlotsTyped
  <2>11. SlotsApart'
    <3> SUFFICES ASSUME NEW s \in Places(slots'), NEW u \in Places(slots'),
                        slots'[s].id = slots'[u].id \/ slots'[s].msg = slots'[u].msg
                 PROVE  s = u
      BY DEF SlotsApart
    <3>1. CASE s = f /\ u # f  BY <2>9, <2>10, <3>1
    <3>2. CASE u = f /\ s # f  BY <2>9, <2>10, <3>2
    <3>3. CASE s # f /\ u # f  BY <2>9, <3>3 DEF Outbound, SlotsApart
    <3> QED  BY <3>1, <3>2, <3>3
  <2>12. KeptWait'
    <3> SUFFICES ASSUME NEW s \in Places(slots') PROVE StateOf(outgoing', slots'[s].id) = "PubAckPending"
      BY DEF KeptWait
    <3>1. CASE s = f  BY <1>4, <2>9, <3>1
    <3>2. CASE s # f  BY <1>1, <2>9, <2>10, <3>2 DEF Outbound, KeptWait
    <3> QED  BY <3>1, <3>2
  <2>13. OutboundOnce'
    <3>1. \A x \in PacketIds : ~(Outgoing(x)' /\ Answered(x)')  BY <2>2, <2>8 DEF Outbound, OutboundOnce
    <3>2. \A x \in PacketIds : Outgoing(x)' \/ Answered(x)' => StateOf(outgoing', x) = "PubAckPending"
      <4>1. \A x \in PacketIds : Outgoing(x) \/ Answered(x) => StateOf(outgoing, x) = "PubAckPending"
        BY <1>1 DEF Outbound, OutboundOnce
      <4>2. \A x \in PacketIds : StateOf(outgoing, x) = "PubAckPending" => StateOf(outgoing', x) = "PubAckPending"
        BY <1>1
      <4> QED  BY <1>4, <2>8, <4>1, <4>2
    <3> QED  BY <1>1, <1>2, <2>6, <3>1, <3>2 DEF OutboundOnce
  <2>14. OutboundSame'
    <3>1. OutboundSame  BY DEF Outbound
    <3> SUFFICES ASSUME NEW s \in Places(slots')
                 PROVE  /\ \A p \in In(toBroker') :
                             p.type = "PUBLISH" /\ p.id = slots'[s].id => p.msg \in ContentLater(slots'[s].msg)
                        /\ Has(toClient', "PUBACK", slots'[s].id) => \E r \in reached : r[1] = slots'[s].msg
      BY <1>1 DEF OutboundSame, Answered
    <3>2. CASE s = f
      <4>1. slots'[s].id = nextId /\ slots'[s].msg = m  BY <2>9, <3>2
      <4>2. \A p \in In(toBroker) : ~(p.type = "PUBLISH" /\ p.id = nextId)  BY <2>2 DEF Outgoing, Has
      <4>3. m \in ContentLater(m)  BY DEF ContentLater
      <4> QED  BY <2>2, <2>3, <2>7, <2>8, <4>1, <4>2, <4>3 DEF Answered
    <3>3. CASE s # f
      <4>1. s \in Places(slots) /\ slots'[s] = slots[s] /\ slots[s].id # nextId  BY <2>9, <2>10, <3>3
      <4> QED  BY <2>3, <2>7, <2>8, <3>1, <4>1 DEF OutboundSame, Answered
    <3> QED  BY <3>2, <3>3
  <2> QED  BY <1>1, <2>11, <2>12, <2>13, <2>14 DEF Outbound
<1> QED  BY <1>1, <1>3, <1>4

\* Packets of the other types come and go (Sent, Reply, Tail).
LEMMA OtherSent ==
  ASSUME toBroker \in Seq(ToBroker), NEW p \in ToBroker, Sent(p) \/ SendFails \/ UNCHANGED toBroker,
         NEW t, p.type # t, Once(toBroker, t)
  PROVE  Once(toBroker', t) /\ \A q \in In(toBroker') : q.type = t => q \in In(toBroker)
<1>1. CASE Sent(p)
  <2>1. Grows(toBroker, toBroker', p)  BY <1>1, SentRight
  <2> QED  BY <2>1 DEF Grows
<1>2. CASE SendFails \/ UNCHANGED toBroker  BY <1>2 DEF SendFails
<1> QED  BY <1>1, <1>2

\* What is added to or taken from the client's inbox leaves the packets of another type as they are.
LEMMA OtherAnswered ==
  ASSUME toClient \in Seq(ToClient), NEW t, Once(toClient, t),
         \/ \E p \in ToClient : p.type # t /\ (Reply(<<p>>) \/ toClient' = Append(toClient, p))
         \/ toClient # <<>> /\ toClient' = Tail(toClient)
         \/ toClient' = <<>>
         \/ UNCHANGED toClient
  PROVE  Once(toClient', t) /\ \A q \in In(toClient') : q.type = t => q \in In(toClient)
<1>1. CASE \E p \in ToClient : p.type # t /\ (Reply(<<p>>) \/ toClient' = Append(toClient, p))
  <2>1. PICK p \in ToClient : p.type # t /\ (Reply(<<p>>) \/ toClient' = Append(toClient, p))  BY <1>1
  <2>2. Grows(toClient, toClient', p)
    <3>1. CASE Reply(<<p>>)  BY <3>1, ReplyRight
    <3>2. CASE toClient' = Append(toClient, p)  BY <3>2, AppendIn DEF Grows
    <3> QED  BY <2>1, <3>1, <3>2
  <2> QED  BY <2>1, <2>2 DEF Grows
<1>2. CASE ~\E p \in ToClient : p.type # t /\ (Reply(<<p>>) \/ toClient' = Append(toClient, p))
  <2>1. Shrinks(toClient, toClient')  BY <1>2, ReadRight
  <2> QED  BY <2>1 DEF Shrinks
<1> QED  BY <1>1, <1>2

\* The rest of MQTT_ProcessLoop leaves the outbox alone, or the box starts again.
LEMMA ProcessLoopOutbound ==
  ASSUME Typed, Typed', OneEach(incoming), Connection, Outbound, ProcessLoop
  PROVE  Outbound'
<1>0. OneEach(outgoing) /\ KeptWait /\ Once(toBroker, "PUBLISH") /\ Once(toClient, "PUBACK")
  BY DEF Outbound, OutboundOnce
<1>1. CASE HandlePuback  BY <1>1, PubackOutbound
<1>2. CASE HandleSuback
  <2>1. CASE Booted
    <3>1. /\ phase' = "offline" /\ toClient' = <<>> /\ toBroker' = toBroker
          /\ slots' = NoSlots /\ outgoing' = NoRecords(Records)
      BY <2>1 DEF Booted
    <3>2. Once(toClient', "PUBACK") /\ \A id \in PacketIds : ~Answered(id)'
      BY <3>1, FewIn DEF Answered, Has
    <3> QED  BY <1>0, <3>1, <3>2, EmptyOutbound
  <2>2. CASE Acknowledged(subId) /\ UNCHANGED <<nextId, subId, ping, slots, outgoing, incoming, toBroker, broker, ghosts>>
    <3>1. /\ toClient' = Tail(toClient) /\ phase \in {"suback", "serving"} /\ toClient # <<>>
          /\ (phase = "suback" /\ NextTopic) \/ UNCHANGED <<phase, at>>
          /\ UNCHANGED <<slots, outgoing, toBroker, reached>>
      BY <1>2, <2>2 DEF Acknowledged, HandleSuback, Receives, ghosts
    <3>2. phase' \notin {"offline", "connack", "resend"} /\ phase # "offline"  BY <3>1 DEF NextTopic
    <3>3. Once(toClient', "PUBACK") /\ \A q \in In(toClient') : q.type = "PUBACK" => q \in In(toClient)
      BY <1>0, <3>1, OtherAnswered DEF Typed
    <3> QED  BY <1>0, <3>1, <3>2, <3>3, CalmOutbound
  <2> QED  BY <1>2, <2>1, <2>2 DEF HandleSuback
<1>3. CASE HandlePublish
  <2>0. PICK b : b = Head(toClient).id  OBVIOUS
  <2>1. /\ toClient # <<>> /\ b \in BrokerIds /\ phase \in {"suback", "serving"}
        /\ \/ /\ Sent(Packet("PUBACK", b)) /\ toClient' = Tail(toClient) /\ UNCHANGED <<phase, at>>
           \/ /\ UNCHANGED toBroker /\ link' \in {link, "cut"}
              /\ \/ phase' = "offline" /\ at' = 1 /\ link' = "cut" /\ toClient' = <<>>
                 \/ phase = "suback" /\ NextTopic /\ toClient' = Tail(toClient)
        /\ UNCHANGED <<slots, outgoing, reached>>
    BY <1>3, <2>0, PublishRight
  <2>2. phase' \notin {"connack", "resend"} /\ phase # "offline"  BY <2>1 DEF NextTopic
  <2>3. Packet("PUBACK", b) \in ToBroker /\ Packet("PUBACK", b).type # "PUBLISH"
    BY <2>1, Made DEF Packet
  <2>4. Once(toBroker', "PUBLISH") /\ \A q \in In(toBroker') : q.type = "PUBLISH" => q \in In(toBroker)
    BY <1>0, <2>1, <2>3, OtherSent DEF Typed
  <2>5. Once(toClient', "PUBACK") /\ \A q \in In(toClient') : q.type = "PUBACK" => q \in In(toClient)
    BY <1>0, <2>1, OtherAnswered DEF Typed
  <2> QED  BY <1>0, <2>1, <2>2, <2>4, <2>5, CalmOutbound
<1>4. CASE HandlePingresp
  <2>1. /\ toClient # <<>> /\ toClient' = Tail(toClient)
        /\ UNCHANGED <<phase, at, toBroker, slots, outgoing, reached>>
    BY <1>4 DEF HandlePingresp, Receives, ghosts
  <2>2. Once(toClient', "PUBACK") /\ \A q \in In(toClient') : q.type = "PUBACK" => q \in In(toClient)
    BY <1>0, <2>1, OtherAnswered DEF Typed
  <2> QED  BY <1>0, <2>1, <2>2, CalmOutbound
<1> QED  BY <1>1, <1>2, <1>3, <1>4 DEF ProcessLoop

\* The broker answers a publish once, after it has it (BrokerReads).
LEMMA BrokerReadsOutbound ==
  ASSUME MqttAssumption, Typed, Typed', Connection, Outbound, BrokerReads
  PROVE  Outbound'
<1>0. OneEach(outgoing) /\ KeptWait /\ Once(toBroker, "PUBLISH") /\ Once(toClient, "PUBACK")
  BY DEF Outbound, OutboundOnce
<1>1. PICK p : p = Head(toBroker)  OBVIOUS
<1>2. /\ toBroker # <<>> /\ p \in ToBroker /\ p \in In(toBroker) /\ toBroker' = Tail(toBroker)
      /\ \/ /\ p.type = "CONNECT"
            /\ Reply(<<[type |-> "CONNACK", present |-> session]>> \o Unanswered) /\ UNCHANGED reached
         \/ /\ p.type = "PUBLISH" /\ p.id \in PacketIds /\ Reply(<<Packet("PUBACK", p.id)>>)
            /\ reached' = reached \cup Arrived(p)
         \/ p.id \in PacketIds /\ Reply(<<Packet("SUBACK", p.id)>>) /\ UNCHANGED reached
         \/ Reply(<<Packet("PINGRESP", NoId)>>) /\ UNCHANGED reached
         \/ UNCHANGED <<toClient, reached>>
      /\ UNCHANGED <<phase, at, slots, outgoing>>
  BY <1>1, BrokerReadsRight
<1>3. Shrinks(toBroker, toBroker')  BY <1>2, ReadRight DEF Typed
<1>4. Once(toBroker', "PUBLISH") /\ In(toBroker') \subseteq In(toBroker)  BY <1>0, <1>3 DEF Shrinks
<1>5. CASE p.type = "CONNECT" /\ Reply(<<[type |-> "CONNACK", present |-> session]>> \o Unanswered) /\ UNCHANGED reached
  <2>1. toClient = <<>>  BY <1>2, <1>5 DEF Connection, Connecting
  <2>2. /\ toClient' \in Seq(ToClient)
        /\ \A q \in In(toClient') : q.type = "CONNACK" \/ q.type = "PUBLISH"
    BY <1>5, <2>1, AnsweredRight
  <2>3. \A q \in In(toClient') : q.type # "PUBACK"  BY <2>2
  <2>4. Once(toClient', "PUBACK")  BY <2>3 DEF Once, In
  <2> QED  BY <1>0, <1>2, <1>4, <1>5, <2>3, <2>4, CalmOutbound
<1>6. CASE /\ p.type = "PUBLISH" /\ p.id \in PacketIds /\ Reply(<<Packet("PUBACK", p.id)>>)
           /\ reached' = reached \cup Arrived(p)
  <2> DEFINE a == Packet("PUBACK", p.id)
  <2>1. a \in ToClient /\ a.type = "PUBACK" /\ a.id = p.id /\ Outgoing(p.id)
    BY <1>2, <1>6, Made DEF Packet, Outgoing, Has
  <2> HIDE DEF a
  <2>2. ~Answered(p.id) /\ (phase # "offline" => StateOf(outgoing, p.id) = "PubAckPending")
    BY <1>6, <2>1 DEF Outbound, OutboundOnce
  <2>3. \A t : Once(toBroker, t) => Once(toBroker', t) /\ (Head(toBroker).type = t => ~Has(toBroker', t, Head(toBroker).id))
    BY <1>2, TailIn DEF Typed
  <2>4. ~Has(toBroker', "PUBLISH", p.id)  BY <1>0, <1>1, <1>6, <2>3
  <2>5. Grows(toClient, toClient', a)  BY <1>6, <2>1, ReplyRight DEF Typed, a
  <2>6. \A t : Once(toClient, t) /\ (a.type = t => ~Has(toClient, t, a.id)) => Once(toClient', t)
    BY <2>5 DEF Grows
  <2>7. Once(toClient', "PUBACK")  BY <1>0, <2>1, <2>2, <2>6 DEF Answered
  <2>8. \A x : Answered(x)' => Answered(x) \/ x = p.id  BY <2>1, <2>5 DEF Answered, Has, Grows
  <2>9. \A x : Outgoing(x)' => Outgoing(x) /\ x # p.id  BY <1>4, <2>4 DEF Outgoing, Has
  <2>10. phase # "connack"
    <3>1. phase = "connack" => p.type = "CONNECT"  BY <1>2 DEF Connection, Connecting
    <3> QED  BY <1>6, <3>1
  <2>11. OutboundOnce'
    <3>1. \A x \in PacketIds : ~(Outgoing(x)' /\ Answered(x)')  BY <2>8, <2>9 DEF Outbound, OutboundOnce
    <3>2. phase # "offline" => \A x \in PacketIds :
            Outgoing(x)' \/ Answered(x)' => StateOf(outgoing, x) = "PubAckPending"
      BY <2>2, <2>8, <2>9 DEF Outbound, OutboundOnce
    <3>3. phase = "resend" => \A s \in Places(slots) : s >= at => ~Outgoing(slots[s].id) /\ slots[s].id # p.id
      BY <2>1 DEF Outbound, OutboundOnce
    <3>4. phase = "resend" => \A s \in Places(slots) : s >= at => ~Answered(slots[s].id)
      BY DEF Outbound, OutboundOnce
    <3>5. phase = "resend" => \A s \in Places(slots) : s >= at => ~Outgoing(slots[s].id)' /\ ~Answered(slots[s].id)'
      BY <1>2, <2>8, <2>9, <3>3, <3>4
    <3> QED  BY <1>2, <1>4, <2>7, <2>10, <3>1, <3>2, <3>5 DEF OutboundOnce
  <2>12. SlotsApart' /\ KeptWait' /\ OneEach(outgoing')
    BY <1>2 DEF Outbound, SlotsApart, KeptWait
  <2>13. OutboundSame'
    <3>1. OutboundSame  BY DEF Outbound
    <3> SUFFICES ASSUME NEW s \in Places(slots)
                 PROVE  /\ \A q \in In(toBroker') :
                             q.type = "PUBLISH" /\ q.id = slots[s].id => q.msg \in ContentLater(slots[s].msg)
                        /\ Has(toClient', "PUBACK", slots[s].id) => \E r \in reached' : r[1] = slots[s].msg
      BY <1>2 DEF OutboundSame, Answered
    <3>2. slots[s].id = p.id => \E r \in reached' : r[1] = slots[s].msg
      <4>1. slots[s].id = p.id => <<slots[s].msg, p.msg>> \in Arrived(p)  BY <1>6, ArrivedRight
      <4> QED  BY <1>6, <4>1
    <3>3. Has(toClient', "PUBACK", slots[s].id) => Answered(slots[s].id) \/ slots[s].id = p.id
      BY <2>8 DEF Answered
    <3> QED  BY <1>4, <1>6, <3>1, <3>2, <3>3 DEF OutboundSame
  <2> QED  BY <2>11, <2>12, <2>13 DEF Outbound
<1>7. CASE \/ p.id \in PacketIds /\ Reply(<<Packet("SUBACK", p.id)>>) /\ UNCHANGED reached
           \/ Reply(<<Packet("PINGRESP", NoId)>>) /\ UNCHANGED reached
           \/ UNCHANGED <<toClient, reached>>
  <2>1. \/ \E q \in ToClient : q.type # "PUBACK" /\ (Reply(<<q>>) \/ toClient' = Append(toClient, q))
        \/ UNCHANGED toClient
    <3>1. CASE p.id \in PacketIds /\ Reply(<<Packet("SUBACK", p.id)>>)
      <4>1. Packet("SUBACK", p.id) \in ToClient /\ Packet("SUBACK", p.id).type # "PUBACK"  BY <3>1, Made DEF Packet
      <4> QED  BY <3>1, <4>1
    <3>2. CASE Reply(<<Packet("PINGRESP", NoId)>>)
      <4>1. Packet("PINGRESP", NoId) \in ToClient /\ Packet("PINGRESP", NoId).type # "PUBACK"  BY Made DEF Packet
      <4> QED  BY <3>2, <4>1
    <3> QED  BY <1>7, <3>1, <3>2
  <2>2. Once(toClient', "PUBACK") /\ \A q \in In(toClient') : q.type = "PUBACK" => q \in In(toClient)
    BY <1>0, <2>1, OtherAnswered DEF Typed
  <2> QED  BY <1>0, <1>2, <1>4, <1>7, <2>2, CalmOutbound
<1> QED  BY <1>2, <1>5, <1>6, <1>7

\* Each step keeps the promise of the outbox.
LEMMA StepOutbound ==
  ASSUME MqttAssumption, Typed, Typed', OneEach(incoming), Connection, Outbound, MqttNext
  PROVE  Outbound'
<1>0. OneEach(outgoing) /\ KeptWait /\ Once(toBroker, "PUBLISH") /\ Once(toClient, "PUBACK")
  BY DEF Outbound, OutboundOnce
<1>1. CASE Call  BY <1>1, CallOutbound
<1>2. CASE ProcessLoop  BY <1>2, ProcessLoopOutbound
<1>3. CASE KeepAlive
  <2>1. /\ Sent(Packet("PINGREQ", NoId)) /\ UNCHANGED <<phase, at, toClient, slots, outgoing, reached>>
    BY <1>3 DEF KeepAlive, ghosts
  <2>2. Packet("PINGREQ", NoId) \in ToBroker /\ Packet("PINGREQ", NoId).type # "PUBLISH"  BY Made DEF Packet
  <2>3. Once(toBroker', "PUBLISH") /\ \A q \in In(toBroker') : q.type = "PUBLISH" => q \in In(toBroker)
    BY <1>0, <2>1, <2>2, OtherSent DEF Typed
  <2> QED  BY <1>0, <2>1, <2>3, CalmOutbound
<1>4. CASE ServiceEnds
  <2>1. phase' = "offline" /\ toClient' = <<>> /\ UNCHANGED <<toBroker, slots, outgoing, reached>>
    BY <1>4 DEF ServiceEnds, Hangup, ghosts
  <2>2. Once(toClient', "PUBACK") /\ In(toClient') = {}  BY <2>1, FewIn
  <2> QED  BY <1>0, <2>1, <2>2, CalmOutbound
<1>5. ASSUME NEW m \in Messages, PublishToTopic(m) PROVE Outbound'  BY <1>5, PublishToTopicOutbound
<1>6. ASSUME NEW b \in BrokerIds, NEW c \in Commands, BrokerPublishes(b, c) PROVE Outbound'
  <2>1. /\ toClient' = Append(toClient, Publish(b, c)) /\ UNCHANGED <<phase, at, toBroker, slots, outgoing, reached>>
    BY <1>6 DEF BrokerPublishes, control
  <2>2. Publish(b, c) \in ToClient /\ Publish(b, c).type # "PUBACK"  BY Made DEF Publish
  <2>3. Once(toClient', "PUBACK") /\ \A q \in In(toClient') : q.type = "PUBACK" => q \in In(toClient)
    BY <1>0, <2>1, <2>2, OtherAnswered DEF Typed
  <2> QED  BY <1>0, <2>1, <2>3, CalmOutbound
<1>7. CASE BrokerReads  BY <1>7, BrokerReadsOutbound
<1>8. CASE BrokerForgets \/ Cut \/ Settle
  <2>1. UNCHANGED <<phase, at, toBroker, toClient, slots, outgoing, reached>>
    BY <1>8 DEF BrokerForgets, Cut, Settle, control, network, ghosts
  <2> QED  BY <1>0, <2>1, CalmOutbound
<1>9. CASE PowerCut
  <2>1. /\ phase' = "offline" /\ toClient' = <<>> /\ toBroker' = toBroker
        /\ slots' = NoSlots /\ outgoing' = NoRecords(Records)
    BY <1>9 DEF PowerCut, Booted
  <2>2. Once(toClient', "PUBACK") /\ \A id \in PacketIds : ~Answered(id)'
    BY <2>1, FewIn DEF Answered, Has
  <2> QED  BY <1>0, <2>1, <2>2, EmptyOutbound
<1> QED  BY <1>1, <1>2, <1>3, <1>4, <1>5, <1>6, <1>7, <1>8, <1>9 DEF MqttNext

-----------------------------------------------------------------------------
(* The commands of the broker *)

\* A step that hands over and acknowledges no command
LEMMA CalmInbound ==
  ASSUME Typed, Inbound, OneEach(incoming'), \A b \in BrokerIds : Known(b)' => Known(b),
         unacked' = unacked, session' = session, lost => lost', handed' = handed,
         Once(toBroker', "PUBACK"), \A p \in In(toBroker') : p.type = "PUBACK" => p \in In(toBroker),
         Once(toClient', "PUBLISH"), \A p \in In(toClient') : p.type = "PUBLISH" => p \in In(toClient)
  PROVE  Inbound'
<1>1. \A b : /\ Has(toBroker', "PUBACK", b) => Has(toBroker, "PUBACK", b)
             /\ Has(toClient', "PUBLISH", b) => Has(toClient, "PUBLISH", b)
  BY DEF Has
<1>2. InboundOnce'  BY <1>1 DEF Inbound, InboundOnce
<1>3. CommandsApart'  BY DEF Inbound, CommandsApart
<1>4. InboundSame'
  <2>1. session' => \A p \in In(toClient') : p.type = "PUBLISH" => p.msg = unacked'[p.id]
    BY DEF Inbound, InboundSame
  <2>2. session' => \A b \in BrokerIds : Has(toBroker', "PUBACK", b) => unacked'[b] # NoMessage
    BY <1>1 DEF Inbound, InboundSame
  <2>3. ~lost' => \A b \in BrokerIds : Has(toBroker', "PUBACK", b) => unacked'[b] \in handed' /\ ~Known(b)'
    BY <1>1 DEF Inbound, InboundSame
  <2>4. ~lost' => \A b \in BrokerIds : Known(b)' => unacked'[b] \in handed'
    BY DEF Inbound, InboundSame
  <2> QED  BY <2>1, <2>2, <2>3, <2>4 DEF InboundSame
<1> QED  BY <1>2, <1>3, <1>4 DEF Inbound

\* New records hold no id (MQTT_Init's first call, handleSessionResumption).
LEMMA NoneKnown ==
  ASSUME incoming' = NoRecords(Records)
  PROVE  OneEach(incoming') /\ \A b \in BrokerIds : ~Known(b)'
<1>1. OneEach(incoming')  BY DEF OneEach, Places, NoRecords, Empty
<1>2. \A b \in BrokerIds : \A i \in DOMAIN incoming' : incoming'[i].id # b
  BY Sizes DEF NoRecords, Empty
<1>3. \A b \in BrokerIds : FindInRecord(incoming', b) = 0  BY <1>2 DEF FindInRecord
<1>4. \A b \in BrokerIds : StateOf(incoming', b) = "Null"  BY <1>3 DEF StateOf
<1> QED  BY <1>1, <1>4 DEF Known

\* EstablishMqttSession: with a new session of the broker, the records of the old one go.
LEMMA CallInbound ==
  ASSUME MqttAssumption, Typed, OneEach(outgoing), KeptWait, Connection, Inbound, Call
  PROVE  Inbound'
<1>0. OneEach(incoming) /\ Once(toBroker, "PUBACK") /\ Once(toClient, "PUBLISH")
  BY DEF Inbound, InboundOnce
<1>1. CASE Connect
  <2>1. /\ toBroker' = <<Packet("CONNECT", NoId)>> /\ toClient' = <<>>
        /\ UNCHANGED <<incoming, session, unacked, lost, handed>>
    BY <1>1 DEF Connect, broker, ghosts
  <2>2. \A p \in In(toBroker') : p.type # "PUBACK"  BY <2>1, FewIn DEF Packet
  <2>3. In(toClient') = {} /\ Once(toBroker', "PUBACK") /\ Once(toClient', "PUBLISH")  BY <2>1, FewIn
  <2>4. \A b \in BrokerIds : Known(b)' => Known(b)  BY <2>1 DEF Known
  <2> QED  BY <1>0, <2>1, <2>2, <2>3, <2>4, CalmInbound
<1>2. CASE ConnackFails
  <2>1. /\ toClient' = <<>> /\ UNCHANGED <<toBroker, incoming, session, unacked, lost, handed>>
    BY <1>2 DEF ConnackFails, Hangup, broker, ghosts
  <2>2. In(toClient') = {} /\ Once(toClient', "PUBLISH")  BY <2>1, FewIn
  <2>3. \A b \in BrokerIds : Known(b)' => Known(b)  BY <2>1 DEF Known
  <2> QED  BY <1>0, <2>1, <2>2, <2>3, CalmInbound
<1>3. CASE Connack
  <2>1. /\ phase = "connack" /\ toClient # <<>> /\ toClient' = Tail(toClient)
        /\ \/ UNCHANGED <<incoming, lost>>
           \/ incoming' = NoRecords(Records) /\ lost' = ~session
        /\ UNCHANGED <<toBroker, session, unacked, handed>>
    BY <1>3 DEF Connack, ForgetSession, broker
  <2>2. Once(toClient', "PUBLISH") /\ \A q \in In(toClient') : q.type = "PUBLISH" => q \in In(toClient)
    BY <1>0, <2>1, OtherAnswered DEF Typed
  <2>3. CASE UNCHANGED <<incoming, lost>>
    <3>1. \A b \in BrokerIds : Known(b)' => Known(b)  BY <2>3 DEF Known
    <3> QED  BY <1>0, <2>1, <2>2, <2>3, <3>1, CalmInbound
  <2>4. CASE incoming' = NoRecords(Records)
    <3>1. OneEach(incoming') /\ \A b \in BrokerIds : ~Known(b)'  BY <2>4, NoneKnown
    <3>2. \A b : ~Has(toBroker', "PUBACK", b)
      BY <2>1 DEF Connection, Connecting, Has
    <3>3. InboundOnce'  BY <1>0, <2>1, <2>2, <3>2 DEF InboundOnce
    <3>4. InboundSame'
      <4>1. session' => \A p \in In(toClient') : p.type = "PUBLISH" => p.msg = unacked'[p.id]
        BY <2>1, <2>2 DEF Inbound, InboundSame
      <4> QED  BY <3>1, <3>2, <4>1 DEF InboundSame
    <3>5. CommandsApart'  BY <2>1 DEF Inbound, CommandsApart
    <3> QED  BY <3>1, <3>3, <3>4, <3>5 DEF Inbound
  <2> QED  BY <2>1, <2>3, <2>4
<1>4. CASE Resend
  <2>1. UNCHANGED <<incoming, toClient, session, unacked, lost, handed>>  BY <1>4 DEF Resend, broker, ghosts
  <2>2. \A b \in BrokerIds : Known(b)' => Known(b)  BY <2>1 DEF Known
  <2>3. Once(toBroker', "PUBACK") /\ \A q \in In(toBroker') : q.type = "PUBACK" => q \in In(toBroker)
    <3>1. phase = "resend" /\ at \in 1..Slots  BY <1>4 DEF Resend, Typed
    <3>2. CASE UNCHANGED toBroker \/ SendFails  BY <1>0, <3>2 DEF SendFails
    <3>3. CASE \E m \in ContentLater(slots[at].msg) : slots[at] # Free /\ Sent(Publish(slots[at].id, m))
      <4>1. PICK m \in ContentLater(slots[at].msg) : slots[at] # Free /\ Sent(Publish(slots[at].id, m))  BY <3>3
      <4>2. slots[at].id \in PacketIds /\ slots[at].msg \in Messages  BY <3>1, <4>1 DEF Typed
      <4>3. Publish(slots[at].id, m) \in ToBroker /\ Publish(slots[at].id, m).type # "PUBACK"
        BY <4>2, Made DEF ContentLater, Publish
      <4> QED  BY <1>0, <4>1, <4>3, OtherSent DEF Typed
    <3> QED  BY <1>4, <3>2, <3>3 DEF Resend
  <2> QED  BY <1>0, <2>1, <2>2, <2>3, CalmInbound
<1>5. CASE SubscribeToTopic
  <2>1. /\ UNCHANGED <<incoming, toClient, session, unacked, lost, handed>>
        /\ Sent(Packet("SUBSCRIBE", nextId)) \/ SendFails
    BY <1>5 DEF SubscribeToTopic, broker, ghosts
  <2>2. \A b \in BrokerIds : Known(b)' => Known(b)  BY <2>1 DEF Known
  <2>3. Packet("SUBSCRIBE", nextId) \in ToBroker /\ Packet("SUBSCRIBE", nextId).type # "PUBACK"
    BY Made DEF Packet, Typed
  <2>4. Once(toBroker', "PUBACK") /\ \A q \in In(toBroker') : q.type = "PUBACK" => q \in In(toBroker)
    BY <1>0, <2>1, <2>3, OtherSent DEF Typed
  <2> QED  BY <1>0, <2>1, <2>2, <2>4, CalmInbound
<1>6. CASE WaitForPacketAckFails
  <2>1. UNCHANGED <<incoming, toBroker, toClient, session, unacked, lost, handed>>
    BY <1>6 DEF WaitForPacketAckFails, network, broker, ghosts
  <2>2. \A b \in BrokerIds : Known(b)' => Known(b)  BY <2>1 DEF Known
  <2> QED  BY <1>0, <2>1, <2>2, CalmInbound
<1> QED  BY <1>1, <1>2, <1>3, <1>4, <1>5, <1>6 DEF Call

\* A command is handed over before it is acknowledged, and after that only acknowledged again
\* (handleIncomingPublish).
LEMMA PublishInbound ==
  ASSUME Typed, Connection, Inbound, HandlePublish
  PROVE  Inbound'
<1>0. PICK b : b = Head(toClient).id  OBVIOUS
<1>1. PICK c : c = Head(toClient).msg  OBVIOUS
<1>2. /\ toClient # <<>> /\ Head(toClient).type = "PUBLISH" /\ b \in BrokerIds /\ c \in Commands
      /\ OneEach(incoming')
      /\ (~Known(b) /\ handed' = handed \cup {c}) \/ handed' = handed
      /\ \/ /\ Sent(Packet("PUBACK", b)) /\ ((~Known(b) /\ handed' = handed \cup {c}) \/ Known(b))
            /\ \A x \in BrokerIds : Known(x)' => Known(x) /\ x # b
            /\ toClient' = Tail(toClient)
         \/ /\ UNCHANGED toBroker
            /\ \A x \in BrokerIds : Known(x)' => Known(x) \/ (x = b /\ ~Known(b) /\ handed' = handed \cup {c})
            /\ toClient' = <<>> \/ toClient' = Tail(toClient)
      /\ UNCHANGED <<session, unacked, lost>>
  BY <1>0, <1>1, PublishRight DEF Inbound
<1>3. Has(toClient, "PUBLISH", b) /\ (session => c = unacked[b])
  <2>1. Head(toClient) \in In(toClient)  BY <1>2, TailIn DEF Typed
  <2> QED  BY <1>0, <1>1, <1>2, <2>1 DEF Inbound, InboundSame, Has
<1>4. ~Has(toBroker, "PUBACK", b) /\ Once(toBroker, "PUBACK") /\ Once(toClient, "PUBLISH")
  BY <1>2, <1>3 DEF Inbound, InboundOnce
<1>5. Once(toClient', "PUBLISH") /\ \A q \in In(toClient') : q.type = "PUBLISH" => q \in In(toClient)
  BY <1>2, <1>4, OtherAnswered DEF Typed
<1>6. ~Has(toClient', "PUBLISH", b)
  <2>1. CASE toClient' = <<>>  BY <2>1, FewIn DEF Has
  <2>2. CASE toClient' = Tail(toClient)
    <3>1. \A t : Once(toClient, t) => (Head(toClient).type = t => ~Has(Tail(toClient), t, Head(toClient).id))
      BY <1>2, TailIn DEF Typed
    <3> QED  BY <1>0, <1>2, <1>4, <2>2, <3>1
  <2> QED  BY <1>2, <2>1, <2>2
<1>7. session => unacked[b] # NoMessage  BY <1>2, <1>3, Sizes
<1>8. ~lost => session  BY DEF Connection, SessionKnown
<1>9. handed \subseteq handed'  BY <1>2
<1>10. /\ Once(toBroker', "PUBACK") /\ \A x : Has(toBroker', "PUBACK", x) => Has(toBroker, "PUBACK", x) \/ x = b
       /\ ~lost => \A x \in BrokerIds : Known(x)' => unacked[x] \in handed'
       /\ ~lost => \A x \in BrokerIds : Has(toBroker', "PUBACK", x) => unacked[x] \in handed' /\ ~Known(x)'
  <2>1. CASE /\ Sent(Packet("PUBACK", b)) /\ ((~Known(b) /\ handed' = handed \cup {c}) \/ Known(b))
             /\ \A x \in BrokerIds : Known(x)' => Known(x) /\ x # b
    <3> DEFINE q == Packet("PUBACK", b)
    <3>1. q \in ToBroker /\ q.type = "PUBACK" /\ q.id = b  BY <1>2, Made DEF Packet
    <3> HIDE DEF q
    <3>2. Grows(toBroker, toBroker', q)  BY <2>1, <3>1, SentRight DEF Typed, q
    <3>3. \A t : Once(toBroker, t) /\ (q.type = t => ~Has(toBroker, t, q.id)) => Once(toBroker', t)
      BY <3>2 DEF Grows
    <3>4. Once(toBroker', "PUBACK")  BY <1>4, <3>1, <3>3
    <3>5. \A x : Has(toBroker', "PUBACK", x) => Has(toBroker, "PUBACK", x) \/ x = b
      BY <3>1, <3>2 DEF Grows, Has
    <3>6. ~lost => unacked[b] \in handed'
      BY <1>2, <1>3, <1>8, <2>1 DEF Inbound, InboundSame
    <3>7. ~lost => \A x \in BrokerIds : Known(x)' => unacked[x] \in handed'
      BY <1>9, <2>1 DEF Inbound, InboundSame
    <3>8. ~lost => \A x \in BrokerIds : Has(toBroker', "PUBACK", x) => unacked[x] \in handed' /\ ~Known(x)'
      BY <1>9, <2>1, <3>5, <3>6 DEF Inbound, InboundSame
    <3> QED  BY <3>4, <3>5, <3>7, <3>8
  <2>2. CASE /\ UNCHANGED toBroker
             /\ \A x \in BrokerIds : Known(x)' => Known(x) \/ (x = b /\ ~Known(b) /\ handed' = handed \cup {c})
    <3>1. ~lost => \A x \in BrokerIds : Known(x)' => unacked[x] \in handed'
      BY <1>3, <1>8, <1>9, <2>2 DEF Inbound, InboundSame
    <3>2. ~lost => \A x \in BrokerIds : Has(toBroker', "PUBACK", x) => unacked[x] \in handed' /\ ~Known(x)'
      BY <1>4, <1>9, <2>2 DEF Inbound, InboundSame
    <3> QED  BY <1>4, <2>2, <3>1, <3>2
  <2> QED  BY <1>2, <2>1, <2>2
<1>11. InboundOnce'
  <2>1. \A x : Has(toClient', "PUBLISH", x) => Has(toClient, "PUBLISH", x) /\ x # b
    BY <1>5, <1>6 DEF Has
  <2> QED  BY <1>5, <1>10, <2>1 DEF Inbound, InboundOnce
<1>12. InboundSame'
  <2>1. session' => \A p \in In(toClient') : p.type = "PUBLISH" => p.msg = unacked'[p.id]
    BY <1>2, <1>5 DEF Inbound, InboundSame
  <2>2. session' => \A x \in BrokerIds : Has(toBroker', "PUBACK", x) => unacked'[x] # NoMessage
    BY <1>2, <1>7, <1>10 DEF Inbound, InboundSame
  <2> QED  BY <1>2, <1>10, <2>1, <2>2 DEF InboundSame
<1>13. CommandsApart'  BY <1>2 DEF Inbound, CommandsApart
<1> QED  BY <1>2, <1>11, <1>12, <1>13 DEF Inbound

\* The rest of MQTT_ProcessLoop hands nothing over, or the box starts again.
LEMMA ProcessLoopInbound ==
  ASSUME Typed, OneEach(outgoing), OutboundOnce, Connection, Inbound, ProcessLoop
  PROVE  Inbound'
<1>0. OneEach(incoming) /\ Once(toBroker, "PUBACK") /\ Once(toClient, "PUBLISH")
  BY DEF Inbound, InboundOnce
<1>1. CASE HandlePuback
  <2>1. /\ toClient # <<>> /\ toClient' = Tail(toClient)
        /\ UNCHANGED <<incoming, toBroker, session, unacked, lost, handed>>
    BY <1>1, PubackRight
  <2>2. Once(toClient', "PUBLISH") /\ \A q \in In(toClient') : q.type = "PUBLISH" => q \in In(toClient)
    BY <1>0, <2>1, OtherAnswered DEF Typed
  <2>3. \A b \in BrokerIds : Known(b)' => Known(b)  BY <2>1 DEF Known
  <2> QED  BY <1>0, <2>1, <2>2, <2>3, CalmInbound
<1>2. CASE HandleSuback
  <2>1. CASE Booted
    <3>1. /\ toClient' = <<>> /\ incoming' = NoRecords(Records) /\ lost' = TRUE
          /\ UNCHANGED <<toBroker, session, unacked, handed>>
      BY <2>1 DEF Booted, broker
    <3>2. Once(toClient', "PUBLISH") /\ In(toClient') = {}  BY <3>1, FewIn
    <3>3. OneEach(incoming') /\ \A b \in BrokerIds : ~Known(b)'  BY <3>1, NoneKnown
    <3> QED  BY <1>0, <3>1, <3>2, <3>3, CalmInbound
  <2>2. CASE Acknowledged(subId) /\ UNCHANGED <<nextId, subId, ping, slots, outgoing, incoming, toBroker, broker, ghosts>>
    <3>1. /\ toClient # <<>> /\ toClient' = Tail(toClient)
          /\ UNCHANGED <<incoming, toBroker, session, unacked, lost, handed>>
      BY <1>2, <2>2 DEF Acknowledged, HandleSuback, Receives, broker, ghosts
    <3>2. Once(toClient', "PUBLISH") /\ \A q \in In(toClient') : q.type = "PUBLISH" => q \in In(toClient)
      BY <1>0, <3>1, OtherAnswered DEF Typed
    <3>3. \A b \in BrokerIds : Known(b)' => Known(b)  BY <3>1 DEF Known
    <3> QED  BY <1>0, <3>1, <3>2, <3>3, CalmInbound
  <2> QED  BY <1>2, <2>1, <2>2 DEF HandleSuback
<1>3. CASE HandlePublish  BY <1>3, PublishInbound
<1>4. CASE HandlePingresp
  <2>1. /\ toClient # <<>> /\ toClient' = Tail(toClient)
        /\ UNCHANGED <<incoming, toBroker, session, unacked, lost, handed>>
    BY <1>4 DEF HandlePingresp, Receives, broker, ghosts
  <2>2. Once(toClient', "PUBLISH") /\ \A q \in In(toClient') : q.type = "PUBLISH" => q \in In(toClient)
    BY <1>0, <2>1, OtherAnswered DEF Typed
  <2>3. \A b \in BrokerIds : Known(b)' => Known(b)  BY <2>1 DEF Known
  <2> QED  BY <1>0, <2>1, <2>2, <2>3, CalmInbound
<1> QED  BY <1>1, <1>2, <1>3, <1>4 DEF ProcessLoop

\* What the broker publishes is under way once, until it reads the acknowledgement (BrokerReads).
LEMMA BrokerReadsInbound ==
  ASSUME MqttAssumption, Typed, Connection, Inbound, BrokerReads
  PROVE  Inbound'
<1>0. OneEach(incoming) /\ Once(toBroker, "PUBACK") /\ Once(toClient, "PUBLISH")
  BY DEF Inbound, InboundOnce
<1>1. PICK p : p = Head(toBroker)  OBVIOUS
<1>2. /\ toBroker # <<>> /\ p \in ToBroker /\ p \in In(toBroker) /\ toBroker' = Tail(toBroker)
      /\ \/ /\ p.type = "CONNECT" /\ session' = TRUE /\ UNCHANGED unacked
            /\ Reply(<<[type |-> "CONNACK", present |-> session]>> \o Unanswered)
         \/ p.id \in PacketIds /\ Reply(<<Packet("PUBACK", p.id)>>) /\ UNCHANGED <<session, unacked>>
         \/ p.id \in PacketIds /\ Reply(<<Packet("SUBACK", p.id)>>) /\ UNCHANGED <<session, unacked>>
         \/ Reply(<<Packet("PINGRESP", NoId)>>) /\ UNCHANGED <<session, unacked>>
         \/ /\ p.type = "PUBACK" /\ p.id \in BrokerIds /\ unacked' = [unacked EXCEPT ![p.id] = NoMessage]
            /\ UNCHANGED <<session, toClient>>
      /\ UNCHANGED <<incoming, lost, handed>>
  BY <1>1, BrokerReadsRight
<1>3. Shrinks(toBroker, toBroker')  BY <1>2, ReadRight DEF Typed
<1>4. Once(toBroker', "PUBACK") /\ In(toBroker') \subseteq In(toBroker)  BY <1>0, <1>3 DEF Shrinks
<1>5. \A b \in BrokerIds : Known(b)' = Known(b)  BY <1>2 DEF Known
<1>6. CASE /\ p.type = "CONNECT" /\ session' = TRUE /\ UNCHANGED unacked
           /\ Reply(<<[type |-> "CONNACK", present |-> session]>> \o Unanswered)
  <2>1. toBroker = <<Packet("CONNECT", NoId)>> /\ toClient = <<>>  BY <1>2, <1>6 DEF Connection, Connecting
  <2>2. In(toBroker') = {}  BY <1>2, <2>1, FewIn
  <2>3. /\ \A q \in In(toClient') : /\ q.type = "CONNACK" => q.present = session
                                    /\ q.type # "CONNACK" => q.type = "PUBLISH" /\ q.id \in BrokerIds /\ q.msg = unacked[q.id]
        /\ Once(toClient', "PUBLISH")
    BY <1>6, <2>1, AnsweredRight
  <2>4. \A b : ~Has(toBroker', "PUBACK", b)  BY <2>2 DEF Has
  <2>5. InboundOnce'  BY <1>4, <2>3, <2>4 DEF InboundOnce
  <2>6. InboundSame'
    <3>1. \A q \in In(toClient') : q.type = "PUBLISH" => q.msg = unacked[q.id]  BY <2>3
    <3>2. ~lost => \A b \in BrokerIds : Known(b) => unacked[b] \in handed  BY DEF Inbound, InboundSame
    <3> QED  BY <1>2, <1>5, <1>6, <2>4, <3>1, <3>2 DEF InboundSame
  <2>7. CommandsApart'  BY <1>6 DEF Inbound, CommandsApart
  <2> QED  BY <1>0, <1>2, <2>5, <2>6, <2>7 DEF Inbound
<1>7. CASE \/ p.id \in PacketIds /\ Reply(<<Packet("PUBACK", p.id)>>) /\ UNCHANGED <<session, unacked>>
           \/ p.id \in PacketIds /\ Reply(<<Packet("SUBACK", p.id)>>) /\ UNCHANGED <<session, unacked>>
           \/ Reply(<<Packet("PINGRESP", NoId)>>) /\ UNCHANGED <<session, unacked>>
  <2>1. \A id \in PacketIds : /\ Packet("PUBACK", id) \in ToClient /\ Packet("PUBACK", id).type # "PUBLISH"
                              /\ Packet("SUBACK", id) \in ToClient /\ Packet("SUBACK", id).type # "PUBLISH"
    BY Made DEF Packet
  <2>2. Packet("PINGRESP", NoId) \in ToClient /\ Packet("PINGRESP", NoId).type # "PUBLISH"  BY Made DEF Packet
  <2>3. \E q \in ToClient : q.type # "PUBLISH" /\ (Reply(<<q>>) \/ toClient' = Append(toClient, q))
    BY <1>7, <2>1, <2>2
  <2>4. Once(toClient', "PUBLISH") /\ \A q \in In(toClient') : q.type = "PUBLISH" => q \in In(toClient)
    BY <1>0, <2>3, OtherAnswered DEF Typed
  <2> QED  BY <1>0, <1>2, <1>4, <1>5, <1>7, <2>4, CalmInbound
<1>8. CASE /\ p.type = "PUBACK" /\ p.id \in BrokerIds /\ unacked' = [unacked EXCEPT ![p.id] = NoMessage]
           /\ UNCHANGED <<session, toClient>>
  <2>1. Has(toBroker, "PUBACK", p.id)  BY <1>2, <1>8 DEF Has
  <2>2. ~Has(toClient, "PUBLISH", p.id)  BY <1>8, <2>1 DEF Inbound, InboundOnce
  <2>3. \A t : Once(toBroker, t) => (Head(toBroker).type = t => ~Has(Tail(toBroker), t, Head(toBroker).id))
    BY <1>2, TailIn DEF Typed
  <2>4. ~Has(toBroker', "PUBACK", p.id)  BY <1>0, <1>1, <1>2, <1>8, <2>3
  <2>5. \A x : Has(toBroker', "PUBACK", x) => Has(toBroker, "PUBACK", x) /\ x # p.id
    BY <1>4, <2>4 DEF Has
  <2>6. ~lost => ~Known(p.id)  BY <1>8, <2>1 DEF Inbound, InboundSame
  <2>7. \A x \in BrokerIds : unacked'[x] = IF x = p.id THEN NoMessage ELSE unacked[x]
    BY <1>8 DEF Typed
  <2>8. InboundOnce'  BY <1>0, <1>4, <1>8, <2>5 DEF Inbound, InboundOnce
  <2>9. CommandsApart'  BY <2>7 DEF Inbound, CommandsApart
  <2>10. InboundSame'
    <3>1. \A q \in In(toClient) : q.type = "PUBLISH" => q.id # p.id /\ q.id \in BrokerIds
      <4>1. \A q \in In(toClient) : q \in ToClient  BY DEF Typed, In
      <4> QED  BY <2>2, <4>1, FromBroker DEF Has
    <3>2. session => \A q \in In(toClient) : q.type = "PUBLISH" => q.msg = unacked'[q.id]
      BY <2>7, <3>1 DEF Inbound, InboundSame
    <3>3. session => \A x \in BrokerIds : Has(toBroker', "PUBACK", x) => unacked'[x] # NoMessage
      BY <2>5, <2>7 DEF Inbound, InboundSame
    <3>4. ~lost => \A x \in BrokerIds : Has(toBroker', "PUBACK", x) => unacked'[x] \in handed /\ ~Known(x)
      BY <2>5, <2>7 DEF Inbound, InboundSame
    <3>5. ~lost => \A x \in BrokerIds : Known(x) => unacked'[x] \in handed
      BY <2>6, <2>7 DEF Inbound, InboundSame
    <3> QED  BY <1>2, <1>5, <1>8, <3>2, <3>3, <3>4, <3>5 DEF InboundSame
  <2> QED  BY <1>0, <1>2, <2>8, <2>9, <2>10 DEF Inbound
<1> QED  BY <1>2, <1>6, <1>7, <1>8

\* A new command of the broker has an id of its own, and no answer is under way (BrokerPublishes).
LEMMA BrokerPublishesInbound ==
  ASSUME Typed, Connection, Inbound, NEW b \in BrokerIds, NEW c \in Commands, BrokerPublishes(b, c)
  PROVE  Inbound'
<1>1. /\ link = "up" /\ \A i \in DOMAIN toBroker : toBroker[i].type # "CONNECT"
      /\ unacked[b] = NoMessage /\ \A i \in BrokerIds : unacked[i] # c
      /\ unacked' = [unacked EXCEPT ![b] = c] /\ toClient' = Append(toClient, Publish(b, c))
      /\ handed' = handed \ {c}
      /\ UNCHANGED <<incoming, toBroker, session, lost>>
  BY DEF BrokerPublishes
<1>2. session
  <2>1. DOMAIN toBroker = 1..Len(toBroker)  BY LenProperties DEF Typed
  <2>2. \A p \in In(toBroker) : p.type # "CONNECT"  BY <1>1, <2>1 DEF In
  <2> QED  BY <1>1, <2>2 DEF Connection, SessionKnown
<1>3. NoMessage \notin handed /\ c # NoMessage  BY Sizes DEF Typed
<1>4. ~Has(toBroker, "PUBACK", b) /\ (~lost => ~Known(b))
  BY <1>1, <1>2, <1>3 DEF Inbound, InboundSame
<1>5. ~Has(toClient, "PUBLISH", b)
  <2> SUFFICES ASSUME NEW p \in In(toClient), p.type = "PUBLISH", p.id = b PROVE FALSE
    BY DEF Has
  <2>1. p \in ToClient  BY DEF Typed, In
  <2>2. p.msg \in Commands  BY <2>1, FromBroker
  <2>3. p.msg = NoMessage  BY <1>1, <1>2 DEF Inbound, InboundSame
  <2> QED  BY <2>2, <2>3, Sizes
<1>6. \A x \in BrokerIds : unacked'[x] = IF x = b THEN c ELSE unacked[x]  BY <1>1 DEF Typed
<1> DEFINE q == Publish(b, c)
<1>7. q \in ToClient /\ q.type = "PUBLISH" /\ q.id = b /\ q.msg = c  BY Made DEF Publish
<1> HIDE DEF q
<1>8. toClient' = Append(toClient, q)  BY <1>1 DEF q
<1>9. In(toClient') = In(toClient) \cup {q}  BY <1>7, <1>8, AppendIn DEF Typed
<1>10. Once(toClient', "PUBLISH")
  <2>1. \A t : Once(toClient, t) /\ (q.type = t => ~Has(toClient, t, q.id)) => Once(Append(toClient, q), t)
    BY <1>7, AppendIn DEF Typed
  <2> QED  BY <1>5, <1>7, <1>8, <2>1 DEF Inbound, InboundOnce
<1>11. \A x : Has(toClient', "PUBLISH", x) => Has(toClient, "PUBLISH", x) \/ x = b
  BY <1>7, <1>9 DEF Has
<1>12. InboundOnce'  BY <1>1, <1>4, <1>10, <1>11 DEF Inbound, InboundOnce
<1>13. CommandsApart'  BY <1>1, <1>6 DEF Inbound, CommandsApart
<1>14. InboundSame'
  <2>1. \A p \in In(toClient) : p.type = "PUBLISH" => p.id # b /\ p.id \in BrokerIds
    <3>1. \A p \in In(toClient) : p \in ToClient  BY DEF Typed, In
    <3> QED  BY <1>5, <3>1, FromBroker DEF Has
  <2>2. \A p \in In(toClient') : p.type = "PUBLISH" => p.msg = unacked'[p.id]
    BY <1>2, <1>6, <1>7, <1>9, <2>1 DEF Inbound, InboundSame
  <2>3. \A x \in BrokerIds : Has(toBroker, "PUBACK", x) => unacked'[x] # NoMessage
    BY <1>2, <1>3, <1>6 DEF Inbound, InboundSame
  <2>4. \A x \in BrokerIds : x # b /\ unacked[x] \in handed => unacked'[x] \in handed'
    BY <1>1, <1>6
  <2>5. ~lost => \A x \in BrokerIds : Has(toBroker, "PUBACK", x) => unacked'[x] \in handed' /\ ~Known(x)
    BY <1>4, <2>4 DEF Inbound, InboundSame
  <2>6. ~lost => \A x \in BrokerIds : Known(x) => unacked'[x] \in handed'
    BY <1>4, <2>4 DEF Inbound, InboundSame
  <2>7. \A x : Known(x)' = Known(x)  BY <1>1 DEF Known
  <2> QED  BY <1>1, <2>2, <2>3, <2>5, <2>6, <2>7 DEF InboundSame
<1> QED  BY <1>1, <1>12, <1>13, <1>14 DEF Inbound

\* Each step keeps the promise to the broker.
LEMMA StepInbound ==
  ASSUME MqttAssumption, Typed, Connection, Outbound, Inbound, MqttNext
  PROVE  Inbound'
<1>0. /\ OneEach(incoming) /\ Once(toBroker, "PUBACK") /\ Once(toClient, "PUBLISH")
      /\ OneEach(outgoing) /\ KeptWait /\ OutboundOnce
  BY DEF Inbound, InboundOnce, Outbound
<1>1. CASE Call  BY <1>0, <1>1, CallInbound
<1>2. CASE ProcessLoop  BY <1>0, <1>2, ProcessLoopInbound
<1>3. CASE KeepAlive
  <2>1. Sent(Packet("PINGREQ", NoId)) /\ UNCHANGED <<toClient, incoming, session, unacked, lost, handed>>
    BY <1>3 DEF KeepAlive, broker, ghosts
  <2>2. Packet("PINGREQ", NoId) \in ToBroker /\ Packet("PINGREQ", NoId).type # "PUBACK"  BY Made DEF Packet
  <2>3. Once(toBroker', "PUBACK") /\ \A q \in In(toBroker') : q.type = "PUBACK" => q \in In(toBroker)
    BY <1>0, <2>1, <2>2, OtherSent DEF Typed
  <2>4. \A b \in BrokerIds : Known(b)' => Known(b)  BY <2>1 DEF Known
  <2> QED  BY <1>0, <2>1, <2>3, <2>4, CalmInbound
<1>4. CASE ServiceEnds
  <2>1. toClient' = <<>> /\ UNCHANGED <<toBroker, incoming, session, unacked, lost, handed>>
    BY <1>4 DEF ServiceEnds, Hangup, broker, ghosts
  <2>2. In(toClient') = {} /\ Once(toClient', "PUBLISH")  BY <2>1, FewIn
  <2>3. \A b \in BrokerIds : Known(b)' => Known(b)  BY <2>1 DEF Known
  <2> QED  BY <1>0, <2>1, <2>2, <2>3, CalmInbound
<1>5. ASSUME NEW m \in Messages, PublishToTopic(m) PROVE Inbound'
  <2>1. /\ Sent(Publish(nextId, m)) \/ UNCHANGED toBroker
        /\ UNCHANGED <<incoming, toClient, session, unacked, lost, handed>>
    BY <1>0, <1>5, PublishToTopicRight
  <2>2. Publish(nextId, m) \in ToBroker /\ Publish(nextId, m).type # "PUBACK"  BY Made DEF Publish, Typed
  <2>3. Once(toBroker', "PUBACK") /\ \A q \in In(toBroker') : q.type = "PUBACK" => q \in In(toBroker)
    BY <1>0, <2>1, <2>2, OtherSent DEF Typed
  <2>4. \A b \in BrokerIds : Known(b)' => Known(b)  BY <2>1 DEF Known
  <2> QED  BY <1>0, <2>1, <2>3, <2>4, CalmInbound
<1>6. ASSUME NEW b \in BrokerIds, NEW c \in Commands, BrokerPublishes(b, c) PROVE Inbound'
  BY <1>6, BrokerPublishesInbound
<1>7. CASE BrokerReads  BY <1>7, BrokerReadsInbound
<1>8. CASE BrokerForgets
  <2>1. /\ session' = FALSE /\ lost' = TRUE /\ unacked' = NoUnacked
        /\ UNCHANGED <<toBroker, toClient, incoming>>
    BY <1>8 DEF BrokerForgets, network
  <2>2. InboundOnce' /\ InboundSame'  BY <2>1 DEF Inbound, InboundOnce, InboundSame
  <2>3. CommandsApart'  BY <2>1 DEF CommandsApart, NoUnacked
  <2> QED  BY <1>0, <2>1, <2>2, <2>3 DEF Inbound
<1>9. CASE Cut \/ Settle
  <2>1. UNCHANGED <<toBroker, toClient, incoming, session, unacked, lost, handed>>
    BY <1>9 DEF Cut, Settle, control, network, broker, ghosts
  <2>2. \A b \in BrokerIds : Known(b)' => Known(b)  BY <2>1 DEF Known
  <2> QED  BY <1>0, <2>1, <2>2, CalmInbound
<1>10. CASE PowerCut
  <2>1. /\ toClient' = <<>> /\ incoming' = NoRecords(Records) /\ lost' = TRUE
        /\ UNCHANGED <<toBroker, session, unacked, handed>>
    BY <1>10 DEF PowerCut, Booted, broker
  <2>2. Once(toClient', "PUBLISH") /\ In(toClient') = {}  BY <2>1, FewIn
  <2>3. OneEach(incoming') /\ \A b \in BrokerIds : ~Known(b)'  BY <2>1, NoneKnown
  <2> QED  BY <1>0, <2>1, <2>2, <2>3, CalmInbound
<1> QED  BY <1>1, <1>2, <1>3, <1>4, <1>5, <1>6, <1>7, <1>8, <1>9, <1>10 DEF MqttNext

-----------------------------------------------------------------------------
(* The theorems *)

\* MQTT_Init's first call finds nothing (aws_iot.c, mqtt_operations.c).
LEMMA InitRight ==
  ASSUME MqttAssumption, MqttInit PROVE SessionInv
<1>1. /\ phase = "offline" /\ at = 1 /\ nextId = 1 /\ subId = NoId /\ ping = FALSE
      /\ slots = NoSlots /\ outgoing = NoRecords(Records) /\ incoming = NoRecords(Records)
      /\ link = "cut" /\ toBroker = <<>> /\ toClient = <<>>
      /\ session = FALSE /\ unacked = NoUnacked /\ steady = FALSE
      /\ reached = {} /\ lost = TRUE /\ handed = {}
  BY DEF MqttInit
<1>2. In(toBroker) = {} /\ In(toClient) = {} /\ \A t : Once(toBroker, t) /\ Once(toClient, t)  BY <1>1, FewIn
<1>3. \A t, id : ~Has(toBroker, t, id) /\ ~Has(toClient, t, id)  BY <1>2 DEF Has
<1>4. Places(slots) = {} /\ Places(outgoing) = {} /\ Places(incoming) = {}
  BY <1>1 DEF Places, NoSlots, NoRecords, Free, Empty
<1>5. Typed
  <2>1. slots \in [1..Slots -> [id : PacketIds, msg : Messages] \cup {Free}]  BY <1>1 DEF NoSlots
  <2>2. /\ outgoing \in RecordArray(Records, PacketIds, {"PublishSend", "PubAckPending"})
        /\ incoming \in RecordArray(Records, BrokerIds, {"PubAckSend"})
    BY <1>1 DEF NoRecords, RecordArray
  <2>3. toBroker \in Seq(ToBroker) /\ toClient \in Seq(ToClient)  BY <1>1
  <2>4. unacked \in [BrokerIds -> Commands \cup {NoMessage}]  BY <1>1 DEF NoUnacked
  <2> QED  BY <1>1, <2>1, <2>2, <2>3, <2>4, Sizes DEF Typed
<1>6. Connection  BY <1>1, <1>2 DEF Connection, Connecting, SessionKnown
<1>7. Outbound
  BY <1>1, <1>2, <1>3, <1>4
     DEF Outbound, SlotsApart, OneEach, KeptWait, OutboundOnce, OutboundSame, Outgoing, Answered
<1>8. Inbound
  <2>1. CommandsApart  BY <1>1 DEF CommandsApart, NoUnacked
  <2> QED  BY <1>1, <1>2, <1>3, <1>4, <2>1 DEF Inbound, OneEach, InboundOnce, InboundSame
<1> QED  BY <1>5, <1>6, <1>7, <1>8 DEF SessionInv

\* A step keeps the invariant, and so does none.
LEMMA StepRight ==
  ASSUME MqttAssumption, SessionInv, [MqttNext]_vars PROVE SessionInv'
<1>1. CASE MqttNext
  <2>1. OneEach(outgoing) /\ OneEach(incoming) /\ KeptWait /\ OutboundOnce /\ Connecting
    BY DEF SessionInv, Connection, Outbound, Inbound
  <2>2. Typed'  BY <1>1, <2>1, StepTyped DEF SessionInv
  <2>3. Connection'  BY <1>1, <2>1, StepConnection DEF SessionInv
  <2>4. Outbound'  BY <1>1, <2>1, <2>2, StepOutbound DEF SessionInv
  <2>5. Inbound'  BY <1>1, StepInbound DEF SessionInv
  <2> QED  BY <2>2, <2>3, <2>4, <2>5 DEF SessionInv
<1>2. CASE UNCHANGED vars
  <2>1. UNCHANGED <<phase, at, nextId, subId, ping, slots, outgoing, incoming, link, toBroker, toClient, session, unacked,
                    steady, reached, lost, handed>>
    BY <1>2 DEF vars, control, network, broker, ghosts
  <2>2. Typed'
    <3>1. Held' = Held  BY <2>1 DEF Held
    <3> QED  BY <2>1, <3>1 DEF SessionInv, Typed
  <2>3. Connection'  BY <2>1 DEF SessionInv, Connection, Connecting, SessionKnown
  <2>4. Outbound'
    BY <2>1 DEF SessionInv, Outbound, SlotsApart, KeptWait, OutboundOnce, OutboundSame, Outgoing, Answered
  <2>5. Inbound'
    BY <2>1 DEF SessionInv, Inbound, InboundOnce, CommandsApart, InboundSame, Known
  <2> QED  BY <2>2, <2>3, <2>4, <2>5 DEF SessionInv
<1> QED  BY <1>1, <1>2

\* The session of the box over all its calls, answers, losses and restarts (mqtt_operations.c,
\* core_mqtt.c): the invariant that the promises below rest on.  OutboundSame is in it as far as
\* the memory that kept packets point to is intact.
THEOREM SessionInvariant == MqttSpec => []SessionInv
<1>1. MqttInit => SessionInv  BY InitRight, MqttAssumption
<1>2. SessionInv /\ [MqttNext]_vars => SessionInv'  BY StepRight, MqttAssumption
<1> QED  BY <1>1, <1>2, PTL DEF MqttSpec

\* While the task runs MQTT_ProcessLoop, each packet that outgoingPublishPackets keeps has a
\* record that lets its PUBACK through, and an id that no other one has.
THEOREM KeptCanBeAcknowledgedCorrect == MqttSpec => []KeptCanBeAcknowledged
<1>1. SessionInv => KeptCanBeAcknowledged
  <2> SUFFICES ASSUME SessionInv, NEW s \in Places(slots)
               PROVE  /\ StateOf(outgoing, slots[s].id) = "PubAckPending"
                      /\ \A u \in 1..Slots : slots[u].id = slots[s].id => u = s
    BY DEF KeptCanBeAcknowledged
  <2>1. StateOf(outgoing, slots[s].id) = "PubAckPending"  BY DEF SessionInv, Outbound, KeptWait
  <2>2. ASSUME NEW u \in 1..Slots, slots[u].id = slots[s].id PROVE u = s
    <3>1. slots[s].id \in PacketIds /\ DOMAIN slots = 1..Slots  BY SlotsTyped DEF SessionInv
    <3>2. u \in Places(slots)  BY <2>2, <3>1, Sizes DEF Places
    <3> QED  BY <2>2, <3>2 DEF SessionInv, Outbound, SlotsApart
  <2> QED  BY <2>1, <2>2
<1> QED  BY <1>1, SessionInvariant, PTL

\* handleIncomingPublish acknowledges what mqtt_rx_messege has got, a duplicate too, as long as
\* the broker has not lost the session.
THEOREM AcknowledgedIsHandedCorrect == MqttSpec => []AcknowledgedIsHanded
<1>1. SessionInv => AcknowledgedIsHanded
  <2> SUFFICES ASSUME SessionInv, NEW i \in DOMAIN toBroker, toBroker[i].type = "PUBACK", ~lost
               PROVE  unacked[toBroker[i].id] \in handed
    BY DEF AcknowledgedIsHanded
  <2>1. toBroker[i] \in In(toBroker) /\ toBroker[i] \in ToBroker
    BY LenProperties DEF SessionInv, Typed, In
  <2>2. toBroker[i].id \in BrokerIds  BY <2>1, FromBox
  <2>3. Has(toBroker, "PUBACK", toBroker[i].id)  BY <2>1 DEF Has
  <2> QED  BY <2>2, <2>3 DEF SessionInv, Inbound, InboundSame
<1> QED  BY <1>1, SessionInvariant, PTL

-----------------------------------------------------------------------------
(* The refinement of Delivery *)

\* What is kept is a set of messages, and none after a start.
LEMMA HeldRight ==
  /\ Typed => Held \subseteq Messages /\ reached \subseteq Held \X Contents
  /\ slots' = slots => Held' = Held
  /\ slots' = NoSlots => Held' = {}
<1>1. Typed => Held \subseteq Messages /\ reached \subseteq Held \X Contents  BY SlotsTyped DEF Typed
<1>2. slots' = slots => Held' = Held  BY DEF Held
<1>3. slots' = NoSlots => Held' = {}  BY DEF Held, NoSlots, Free
<1> QED  BY <1>1, <1>2, <1>3

\* An acknowledgement ends one message, which the broker has, or none (Delivery's Done).
LEMMA PubackDelivers ==
  ASSUME SessionInv, HandlePuback
  PROVE  (\E m \in Messages : Outbox!Done(m)) \/ UNCHANGED <<Held, reached, lost>>
<1>0. PICK id : id = Head(toClient).id  OBVIOUS
<1>1. /\ id \in PacketIds /\ Answered(id) /\ slots' = CleanupOutgoingPublish(id)
      /\ reached' = {r \in reached : \E s \in 1..Slots : slots'[s].msg = r[1]}
      /\ lost' = lost
  BY <1>0, PubackRight DEF SessionInv, Outbound
<1>2. \A s \in 1..Slots : slots'[s] = IF slots[s].id = id THEN Free ELSE slots[s]
  BY <1>1 DEF CleanupOutgoingPublish
<1>3. Held' = {slots'[s].msg : s \in 1..Slots} \ {NoMessage}  BY DEF Held
<1>4. reached \subseteq Held \X Contents /\ Held = {slots[s].msg : s \in 1..Slots} \ {NoMessage}
  BY DEF SessionInv, Typed, Held
<1>5. reached' = {r \in reached : r[1] \in Held'}
  <2>1. \A r \in reached : r[1] # NoMessage  BY <1>4
  <2> QED  BY <1>1, <1>3, <2>1
<1>6. CASE \E u \in Places(slots) : slots[u].id = id
  <2>1. PICK u \in Places(slots) : slots[u].id = id  BY <1>6
  <2>2. PICK m : m = slots[u].msg  OBVIOUS
  <2>3. (\E r \in reached : r[1] = m) /\ u \in 1..Slots /\ m \in Messages
    BY <1>1, <2>1, <2>2, SlotsTyped DEF SessionInv, Outbound, OutboundSame
  <2>4. \A s \in 1..Slots : slots[s].msg # NoMessage => s \in Places(slots)
    BY SlotsTyped DEF SessionInv, Free
  <2>5. \A s \in 1..Slots : slots[s].msg # NoMessage => (slots[s].id = id <=> slots[s].msg = m)
    BY <2>1, <2>2, <2>4 DEF SessionInv, Outbound, SlotsApart
  <2>6. Held' = Held \ {m}
    <3>1. ASSUME NEW x \in Held' PROVE x \in Held /\ x # m
      <4>1. PICK s \in 1..Slots : x = slots'[s].msg /\ x # NoMessage  BY <1>3, <3>1
      <4>2. slots'[s] = slots[s] /\ slots[s].id # id  BY <1>2, <4>1 DEF Free
      <4> QED  BY <1>4, <2>5, <4>1, <4>2
    <3>2. ASSUME NEW x \in Held, x # m PROVE x \in Held'
      <4>1. PICK s \in 1..Slots : x = slots[s].msg /\ x # NoMessage  BY <1>4, <3>2
      <4>2. slots'[s] = slots[s]  BY <1>2, <2>5, <3>2, <4>1
      <4> QED  BY <1>3, <4>1, <4>2
    <3>3. m \notin Held'  BY <3>1
    <3> QED  BY <3>1, <3>2, <3>3
  <2>7. reached' = {r \in reached : r[1] # m}  BY <1>4, <1>5, <2>6
  <2> QED  BY <1>1, <2>3, <2>6, <2>7 DEF Outbox!Done
<1>7. CASE ~\E u \in Places(slots) : slots[u].id = id
  <2>1. \A s \in 1..Slots : slots'[s].msg = slots[s].msg
    <3>1. \A s \in 1..Slots : s \in Places(slots) \/ slots[s] = Free  BY SlotsTyped DEF SessionInv
    <3> QED  BY <1>2, <1>7, <3>1
  <2>2. Held' = Held  BY <1>3, <1>4, <2>1
  <2>3. reached' = reached  BY <1>4, <1>5, <2>2
  <2> QED  BY <1>1, <2>2, <2>3
<1> QED  BY <1>6, <1>7

\* The outbox of the box, over coreMQTT's records, resends, lost connections and restarts, does
\* what Delivery promises: a message that is accepted is kept until a packet of it has got to the
\* broker, or the session is lost.  The packet has the message as it was published, or, where
\* freed memory does not stay as it was, what became of it.
THEOREM OutboxKeepsItsPromise == MqttSpec => KeepsItsPromise
<1>1. MqttInit => Outbox!DeliveryInit
  BY DEF MqttInit, Outbox!DeliveryInit, Held, NoSlots, Free
<1>2. SessionInv /\ [MqttNext]_vars => [Outbox!DeliveryNext]_(Outbox!delivery)
  <2> SUFFICES ASSUME SessionInv, [MqttNext]_vars
               PROVE  Outbox!DeliveryNext \/ UNCHANGED <<Held, reached, lost>>
    BY DEF Outbox!delivery
  <2>0. Held \subseteq Messages /\ reached \subseteq Held \X Contents /\ session \in BOOLEAN
    BY HeldRight DEF SessionInv, Typed
  <2>1. CASE Call
    <3>1. CASE UNCHANGED <<slots, reached, lost>>  BY <3>1, HeldRight
    <3>2. CASE Connack
      <4>1. CASE Head(toClient).present
        <5>1. UNCHANGED <<slots, reached, lost>>  BY <3>2, <4>1 DEF Connack
        <5> QED  BY <3>1, <5>1
      <4>2. CASE ~Head(toClient).present
        <5>1. phase = "connack" /\ toClient # <<>> /\ slots' = NoSlots /\ reached' = {} /\ lost' = ~session
          BY <3>2, <4>2 DEF Connack, ForgetSession
        <5>2. toClient \in Seq(ToClient) /\ Len(toClient) \in Nat \ {0} /\ Head(toClient) = toClient[1]
              /\ Head(toClient) \in In(toClient)
          BY <5>1, HeadTailProperties, EmptySeq, TailIn DEF SessionInv, Typed
        <5>3. Head(toClient).type = "CONNACK"
          BY <5>1, <5>2 DEF SessionInv, Connection, Connecting
        <5>4. lost  BY <4>2, <5>2, <5>3 DEF SessionInv, Connection, SessionKnown
        <5>5. Held' = {}  BY <5>1, HeldRight
        <5>6. lost' \in BOOLEAN  BY <2>0, <5>1
        <5> QED  BY <5>1, <5>4, <5>5, <5>6 DEF Outbox!DeliveryNext, Outbox!Forget
      <4> QED  BY <4>1, <4>2
    <3>3. Call => UNCHANGED <<slots, reached, lost>> \/ Connack
      BY DEF Call, Connect, ConnackFails, Resend, SubscribeToTopic, WaitForPacketAckFails, ghosts
    <3> QED  BY <2>1, <3>1, <3>2, <3>3
  <2>2. CASE ProcessLoop
    <3>1. CASE HandlePuback  BY <3>1, PubackDelivers DEF Outbox!DeliveryNext
    <3>2. CASE HandleSuback
      <4>1. CASE Booted
        <5>1. Held' = {} /\ reached' = {} /\ lost' = TRUE  BY <4>1, HeldRight DEF Booted
        <5> QED  BY <5>1 DEF Outbox!DeliveryNext, Outbox!Crash
      <4>2. CASE UNCHANGED <<slots, reached, lost>>  BY <4>2, HeldRight
      <4> QED  BY <3>2, <4>1, <4>2 DEF HandleSuback, ghosts
    <3>3. CASE HandlePublish \/ HandlePingresp
      <4>1. UNCHANGED <<slots, reached, lost>>  BY <3>3 DEF HandlePublish, HandlePingresp, ghosts
      <4> QED  BY <4>1, HeldRight
    <3> QED  BY <2>2, <3>1, <3>2, <3>3 DEF ProcessLoop
  <2>3. CASE KeepAlive \/ ServiceEnds \/ Cut \/ Settle \/ (\E b \in BrokerIds, c \in Commands : BrokerPublishes(b, c))
    <3>1. UNCHANGED <<slots, reached, lost>>
      BY <2>3 DEF KeepAlive, ServiceEnds, Cut, Settle, BrokerPublishes, ghosts
    <3> QED  BY <3>1, HeldRight
  <2>4. ASSUME NEW m \in Messages, PublishToTopic(m)
        PROVE  Outbox!DeliveryNext \/ UNCHANGED <<Held, reached, lost>>
    <3>1. /\ m \notin Held /\ UNCHANGED <<reached, lost>>
          /\ \/ \E f \in 1..Slots \ Places(slots) : slots' = [slots EXCEPT ![f] = [id |-> nextId, msg |-> m]]
             \/ UNCHANGED slots
      BY <2>4, PublishToTopicRight DEF SessionInv, Outbound
    <3>2. CASE UNCHANGED slots  BY <3>1, <3>2, HeldRight
    <3>3. CASE \E f \in 1..Slots \ Places(slots) : slots' = [slots EXCEPT ![f] = [id |-> nextId, msg |-> m]]
      <4>1. PICK f \in 1..Slots \ Places(slots) : slots' = [slots EXCEPT ![f] = [id |-> nextId, msg |-> m]]
        BY <3>3
      <4>2. slots[f].msg = NoMessage /\ DOMAIN slots = 1..Slots  BY SlotsTyped DEF SessionInv, Free
      <4>3. \A s \in 1..Slots : slots'[s].msg = IF s = f THEN m ELSE slots[s].msg  BY <4>1, <4>2
      <4>4. m # NoMessage  BY Sizes
      <4>5. Held' = {slots'[s].msg : s \in 1..Slots} \ {NoMessage}  BY DEF Held
      <4>6. Held' = Held \cup {m}
        <5>1. ASSUME NEW x \in Held' PROVE x \in Held \cup {m}  BY <4>3, <4>5, <5>1 DEF Held
        <5>2. ASSUME NEW x \in Held PROVE x \in Held'
          <6>1. PICK s \in 1..Slots : x = slots[s].msg /\ x # NoMessage  BY <5>2 DEF Held
          <6>2. slots'[s].msg = x  BY <4>2, <4>3, <6>1
          <6> QED  BY <4>5, <6>1, <6>2
        <5>3. m \in Held'
          <6>1. slots'[f].msg = m /\ f \in 1..Slots  BY <4>3
          <6> QED  BY <4>4, <4>5, <6>1
        <5> QED  BY <5>1, <5>2, <5>3
      <4> QED  BY <3>1, <4>6 DEF Outbox!DeliveryNext, Outbox!Accept
    <3> QED  BY <3>1, <3>2, <3>3
  <2>5. CASE BrokerReads
    <3>1. PICK p : p = Head(toBroker)  OBVIOUS
    <3>2. /\ UNCHANGED <<slots, lost>>
          /\ \/ /\ p.type = "PUBLISH" /\ p.id \in PacketIds /\ p \in In(toBroker) /\ p \in ToBroker
                /\ reached' = reached \cup Arrived(p)
             \/ reached' = reached
      BY MqttAssumption, <2>5, <3>1, BrokerReadsRight DEF SessionInv
    <3>3. Held' = Held  BY <3>2, HeldRight
    <3>4. CASE /\ p.type = "PUBLISH" /\ p.id \in PacketIds /\ p \in In(toBroker)
               /\ p \in ToBroker /\ reached' = reached \cup Arrived(p)
      <4>1. CASE \E s \in Places(slots) : slots[s].id = p.id
        <5>1. PICK s \in Places(slots) : slots[s].id = p.id  BY <4>1
        <5>2. \A u \in Places(slots) : slots[u].id = p.id => u = s
          BY <5>1 DEF SessionInv, Outbound, SlotsApart
        <5>3. Arrived(p) = {<<slots[s].msg, p.msg>>}
          BY <3>4, <5>1, <5>2, ArrivedRight DEF SessionInv
        <5>4. p.msg \in ContentLater(slots[s].msg)
          BY <3>4, <5>1 DEF SessionInv, Outbound, OutboundSame
        <5>5. slots[s].msg \in Messages /\ slots[s].msg \in Held  BY <5>1, SlotsTyped DEF SessionInv
        <5>6. p.msg = slots[s].msg \/ (p.msg = Garbage /\ ~Intact)  BY <5>4 DEF ContentLater
        <5>7. Outbox!Reach(slots[s].msg, p.msg)
          BY <3>2, <3>3, <3>4, <5>3, <5>5, <5>6 DEF Outbox!Reach
        <5>8. p.msg \in Messages \cup {Garbage}  BY <5>5, <5>6
        <5> QED  BY <5>5, <5>7, <5>8 DEF Outbox!DeliveryNext
      <4>2. CASE ~\E s \in Places(slots) : slots[s].id = p.id
        <5>1. Arrived(p) = {}  BY <3>4, <4>2, ArrivedRight DEF SessionInv
        <5> QED  BY <3>2, <3>3, <3>4, <5>1
      <4> QED  BY <4>1, <4>2
    <3>5. CASE reached' = reached  BY <3>2, <3>3, <3>5
    <3> QED  BY <3>2, <3>4, <3>5
  <2>6. CASE BrokerForgets
    <3>1. UNCHANGED <<slots, reached>> /\ lost' = TRUE  BY <2>6 DEF BrokerForgets
    <3> QED  BY <3>1, HeldRight DEF Outbox!DeliveryNext, Outbox!Lose
  <2>7. CASE PowerCut
    <3>1. Held' = {} /\ reached' = {} /\ lost' = TRUE  BY <2>7, HeldRight DEF PowerCut, Booted
    <3> QED  BY <3>1 DEF Outbox!DeliveryNext, Outbox!Crash
  <2>8. CASE UNCHANGED vars
    <3>1. UNCHANGED <<slots, reached, lost>>  BY <2>8 DEF vars, ghosts
    <3> QED  BY <3>1, HeldRight
  <2> QED  BY <2>1, <2>2, <2>3, <2>4, <2>5, <2>6, <2>7, <2>8 DEF MqttNext
<1> QED  BY <1>1, <1>2, SessionInvariant, PTL DEF MqttSpec, KeepsItsPromise, Outbox!DeliverySpec
-----------------------------------------------------------------------------
(* What is under way *)

\* With what a connection may begin: as much as any other sender may begin with, or the CONNACK
\* and all that the broker publishes again.  What is sent without looking whether there is room
\* comes on top of it: the packets that are sent again and the subscriptions.
AtFirst == IF InFlight > Cardinality(BrokerIds) THEN InFlight ELSE 1 + Cardinality(BrokerIds)

OnTop == IF phase = "connack" THEN 0 ELSE IF phase = "resend" THEN at - 1
         ELSE IF phase = "subscribe" THEN Slots + at - 1 ELSE IF phase = "suback" THEN Slots + at
         ELSE Slots + Topics

FewUnderWay == Len(toBroker) + Len(toClient) <= AtFirst + OnTop

\* What the bound is made of
LEMMA FewTyped ==
  ASSUME MqttAssumption, Typed
  PROVE  /\ Len(toBroker) \in Nat /\ Len(toClient) \in Nat /\ OnTop \in 0..Slots + Topics
         /\ AtFirst \in Nat /\ InFlight \in Nat /\ InFlight <= AtFirst /\ 1 + Cardinality(BrokerIds) <= AtFirst
         /\ Slots \in Nat /\ Topics \in Nat /\ 1 <= Slots /\ 1 <= Topics /\ 1 <= AtFirst
<1>1. Len(toBroker) \in Nat /\ Len(toClient) \in Nat  BY LenProperties DEF Typed
<1>2. Cardinality(BrokerIds) \in Nat /\ InFlight \in Nat \ {0}  BY FS_CardinalityType DEF MqttAssumption
<1>3. AtFirst \in Nat /\ InFlight <= AtFirst /\ 1 + Cardinality(BrokerIds) <= AtFirst /\ 1 <= AtFirst  BY <1>2 DEF AtFirst
<1>4. OnTop \in 0..Slots + Topics
  <2>1. Slots \in Nat \ {0} /\ Topics \in Nat \ {0}  BY Sizes
  <2> QED  BY <2>1 DEF OnTop, Typed
<1> QED  BY <1>1, <1>2, <1>3, <1>4, Sizes

\* The same, in a step
LEMMA FewStep ==
  ASSUME MqttAssumption, Typed, Typed', FewUnderWay
  PROVE  /\ Len(toBroker) \in Nat /\ Len(toClient) \in Nat /\ Len(toBroker) + Len(toClient) <= AtFirst + OnTop
         /\ AtFirst \in Nat /\ 1 <= AtFirst /\ AtFirst' = AtFirst
         /\ OnTop \in 0..Slots + Topics /\ OnTop' \in 0..Slots + Topics
         /\ Len(toBroker') \in Nat /\ Len(toClient') \in Nat /\ Slots \in Nat /\ Topics \in Nat
<1>1. AtFirst' = AtFirst  BY DEF AtFirst
<1>2. Len(toBroker') \in Nat /\ Len(toClient') \in Nat  BY LenProperties DEF Typed
<1>3. OnTop' \in 0..Slots + Topics
  <2>1. Slots \in Nat \ {0} /\ Topics \in Nat \ {0}  BY Sizes
  <2>2. /\ phase' = "resend" => at' \in 1..Slots
        /\ phase' \in {"subscribe", "suback"} => at' \in 1..Topics
    BY DEF Typed
  <2>3. OnTop' = IF phase' = "connack" THEN 0 ELSE IF phase' = "resend" THEN at' - 1
                 ELSE IF phase' = "subscribe" THEN Slots + at' - 1 ELSE IF phase' = "suback" THEN Slots + at'
                 ELSE Slots + Topics
    BY DEF OnTop
  <2> QED  BY <2>1, <2>2, <2>3
<1> QED  BY <1>1, <1>2, <1>3, FewTyped DEF FewUnderWay

\* A packet that is sent is one more, one that vanishes is none (sendPacket).
LEMMA SentLength ==
  ASSUME toBroker \in Seq(ToBroker), NEW p \in ToBroker, Sent(p)
  PROVE  Len(toBroker') \in {Len(toBroker), Len(toBroker) + 1}
BY AppendProperties DEF Sent

\* What is read is one less.
LEMMA ReadLength ==
  ASSUME NEW S, NEW q \in Seq(S), q # <<>>
  PROVE  Len(q) \in Nat \ {0} /\ Len(Tail(q)) = Len(q) - 1
BY HeadTailProperties, LenProperties, EmptySeq

\* The wait for a SUBACK that goes on or ends takes nothing from what may come (NextTopic).
LEMMA TopicOnTop ==
  ASSUME Typed, (phase = "suback" /\ NextTopic) \/ (phase \in {"suback", "serving"} /\ UNCHANGED <<phase, at>>)
  PROVE  OnTop' = OnTop
<1>1. CASE phase = "suback" /\ NextTopic
  <2>1. at \in 1..Topics /\ Slots \in Nat /\ Topics \in Nat  BY <1>1, Sizes DEF Typed
  <2>2. CASE at = Topics  BY <1>1, <2>1, <2>2 DEF NextTopic, OnTop
  <2>3. CASE at # Topics  BY <1>1, <2>1, <2>3 DEF NextTopic, OnTop
  <2> QED  BY <2>2, <2>3
<1>2. CASE phase \in {"suback", "serving"} /\ UNCHANGED <<phase, at>>  BY <1>2 DEF OnTop
<1> QED  BY <1>1, <1>2

\* EstablishMqttSession and mqtt_subscribe_init send each packet once.
LEMMA CallFew ==
  ASSUME MqttAssumption, Typed, Typed', Connection, FewUnderWay, Call
  PROVE  FewUnderWay'
<1> DEFINE b == Len(toBroker)
           c == Len(toClient)
<1>1. /\ b \in Nat /\ c \in Nat /\ b + c <= AtFirst + OnTop /\ AtFirst \in Nat /\ OnTop \in 0..Slots + Topics
      /\ AtFirst' = AtFirst /\ Len(toBroker') \in Nat /\ Len(toClient') \in Nat /\ OnTop' \in 0..Slots + Topics
      /\ Slots \in Nat /\ Topics \in Nat /\ 1 <= AtFirst
  BY FewStep
<1>2. SUFFICES Len(toBroker') + Len(toClient') <= AtFirst + OnTop'  BY <1>1 DEF FewUnderWay
<1>3. CASE Connect
  <2>1. Len(toBroker') = 1 /\ Len(toClient') = 0  BY <1>3 DEF Connect
  <2>2. OnTop' \in Nat  BY <1>1
  <2>3. Len(toBroker') + Len(toClient') = 1  BY <2>1
  <2> QED  BY <1>1, <2>2, <2>3
<1>4. CASE ConnackFails
  <2>1. toBroker' = toBroker /\ Len(toClient') = 0 /\ OnTop' = Slots + Topics  BY <1>4 DEF ConnackFails, Hangup, OnTop
  <2>2. OnTop = 0  BY <1>4 DEF ConnackFails, OnTop
  <2> QED  BY <1>1, <2>1, <2>2
<1>5. CASE Connack
  <2>1. toBroker' = toBroker /\ toClient' = Tail(toClient) /\ toClient # <<>> /\ OnTop = 0
    BY <1>5 DEF Connack, OnTop
  <2>2. Len(toClient') = c - 1  BY <2>1, ReadLength DEF Typed
  <2> QED  BY <1>1, <2>1, <2>2
<1>6. CASE Resend
  <2>1. phase = "resend" /\ at \in 1..Slots /\ toClient' = toClient /\ OnTop = at - 1
    BY <1>6 DEF Resend, Typed, OnTop
  <2>2. CASE NextPacket /\ Len(toBroker') \in {b, b + 1}
    <3>1. OnTop' = at
      <4>1. CASE at = Slots  BY <1>1, <2>1, <2>2, <4>1 DEF NextPacket, OnTop
      <4>2. CASE at # Slots  BY <1>1, <2>1, <2>2, <4>2 DEF NextPacket, OnTop
      <4> QED  BY <4>1, <4>2
    <3> QED  BY <1>1, <2>1, <2>2, <3>1
  <2>3. CASE SendFails /\ phase' = "offline"
    <3>1. toBroker' = toBroker /\ OnTop' = Slots + Topics  BY <2>3 DEF SendFails, OnTop
    <3> QED  BY <1>1, <2>1, <3>1
  <2>4. (NextPacket /\ Len(toBroker') \in {b, b + 1}) \/ (SendFails /\ phase' = "offline")
    <3>1. CASE slots[at] = Free  BY <1>6, <3>1 DEF Resend
    <3>2. CASE slots[at] # Free
      <4>1. slots[at].id \in PacketIds /\ slots[at].msg \in Messages  BY <2>1, <3>2 DEF Typed
      <4>2. ASSUME NEW m \in ContentLater(slots[at].msg), Sent(Publish(slots[at].id, m)) PROVE Len(toBroker') \in {b, b + 1}
        <5>1. Publish(slots[at].id, m) \in ToBroker  BY <4>1, Made DEF ContentLater
        <5> QED  BY <4>2, <5>1, SentLength DEF Typed
      <4> QED  BY <1>6, <3>2, <4>2 DEF Resend
    <3> QED  BY <3>1, <3>2
  <2> QED  BY <2>2, <2>3, <2>4
<1>7. CASE SubscribeToTopic
  <2>1. phase = "subscribe" /\ at \in 1..Topics /\ toClient' = toClient /\ OnTop = Slots + at - 1
    BY <1>7, Sizes DEF SubscribeToTopic, Typed, OnTop
  <2>2. CASE Sent(Packet("SUBSCRIBE", nextId)) /\ phase' = "suback" /\ UNCHANGED at
    <3>1. Len(toBroker') \in {b, b + 1}  BY <2>2, Made, SentLength DEF Typed
    <3>2. OnTop' = Slots + at  BY <2>2 DEF OnTop
    <3> QED  BY <1>1, <2>1, <3>1, <3>2
  <2>3. CASE SendFails /\ NextTopic
    <3>1. toBroker' = toBroker  BY <2>3 DEF SendFails
    <3>2. OnTop' = Slots + at
      <4>1. CASE at = Topics  BY <1>1, <2>3, <4>1 DEF NextTopic, OnTop
      <4>2. CASE at # Topics  BY <1>1, <2>1, <2>3, <4>2 DEF NextTopic, OnTop
      <4> QED  BY <4>1, <4>2
    <3> QED  BY <1>1, <2>1, <3>1, <3>2
  <2> QED  BY <1>7, <2>2, <2>3 DEF SubscribeToTopic
<1>8. CASE WaitForPacketAckFails
  <2>1. toBroker' = toBroker /\ toClient' = toClient /\ phase = "suback" /\ NextTopic
    BY <1>8 DEF WaitForPacketAckFails, network
  <2> QED  BY <1>1, <2>1, TopicOnTop
<1> QED  BY <1>3, <1>4, <1>5, <1>6, <1>7, <1>8 DEF Call

\* MQTT_ProcessLoop sends a PUBACK for a packet that it has taken.
LEMMA ProcessLoopFew ==
  ASSUME MqttAssumption, Typed, Typed', OneEach(outgoing), OneEach(incoming), OutboundOnce, FewUnderWay, ProcessLoop
  PROVE  FewUnderWay'
<1> DEFINE b == Len(toBroker)
           c == Len(toClient)
<1>1. /\ b \in Nat /\ c \in Nat /\ b + c <= AtFirst + OnTop /\ AtFirst \in Nat /\ OnTop \in 0..Slots + Topics
      /\ AtFirst' = AtFirst /\ Len(toBroker') \in Nat /\ Len(toClient') \in Nat /\ OnTop' \in 0..Slots + Topics
      /\ Slots \in Nat /\ Topics \in Nat
  BY FewStep
<1>2. SUFFICES Len(toBroker') + Len(toClient') <= AtFirst + OnTop'  BY <1>1 DEF FewUnderWay
<1>3. CASE \/ Len(toBroker') = b /\ Len(toClient') \in 0..c /\ OnTop' = OnTop
           \/ Len(toBroker') = b /\ Len(toClient') \in 0..c /\ OnTop' = Slots + Topics
           \/ Len(toBroker') \in {b, b + 1} /\ Len(toClient') = c - 1 /\ OnTop' = OnTop
  BY <1>1, <1>3, SMTT(30)
<1>4. ASSUME toClient # <<>> PROVE c \in Nat \ {0} /\ Len(Tail(toClient)) = c - 1
  BY <1>4, ReadLength DEF Typed
<1>5. CASE HandlePuback
  <2>1. /\ toClient # <<>> /\ toBroker' = toBroker /\ toClient' = Tail(toClient)
        /\ phase \in {"suback", "serving"}
        /\ (phase = "suback" /\ NextTopic) \/ UNCHANGED <<phase, at>>
    BY <1>5, PubackRight
  <2>2. OnTop' = OnTop  BY <2>1, TopicOnTop
  <2> QED  BY <1>3, <1>4, <2>1, <2>2
<1>6. CASE HandleSuback
  <2>1. toClient # <<>> /\ phase \in {"suback", "serving"}  BY <1>6 DEF HandleSuback, Receives
  <2>2. CASE Booted
    <3>1. toBroker' = toBroker /\ Len(toClient') = 0 /\ OnTop' = Slots + Topics  BY <2>2 DEF Booted, OnTop
    <3> QED  BY <1>1, <1>3, <3>1
  <2>3. CASE Acknowledged(subId) /\ toBroker' = toBroker
    <3>1. toClient' = Tail(toClient) /\ ((phase = "suback" /\ NextTopic) \/ UNCHANGED <<phase, at>>)
      BY <2>3 DEF Acknowledged
    <3>2. OnTop' = OnTop  BY <2>1, <3>1, TopicOnTop
    <3> QED  BY <1>3, <1>4, <2>1, <2>3, <3>1, <3>2
  <2> QED  BY <1>6, <2>2, <2>3 DEF HandleSuback
<1>7. CASE HandlePublish
  <2> DEFINE d == Head(toClient).id
  <2>1. /\ toClient # <<>> /\ d \in BrokerIds /\ phase \in {"suback", "serving"}
        /\ \/ /\ Sent(Packet("PUBACK", d)) /\ toClient' = Tail(toClient) /\ UNCHANGED <<phase, at>>
           \/ /\ UNCHANGED toBroker
              /\ \/ phase' = "offline" /\ toClient' = <<>>
                 \/ phase = "suback" /\ NextTopic /\ toClient' = Tail(toClient)
    BY <1>7, PublishRight
  <2> HIDE DEF d
  <2>2. CASE Sent(Packet("PUBACK", d)) /\ toClient' = Tail(toClient) /\ UNCHANGED <<phase, at>>
    <3>1. Len(toBroker') \in {b, b + 1}  BY <2>1, <2>2, Made, SentLength DEF Typed
    <3>2. OnTop' = OnTop  BY <2>1, <2>2, TopicOnTop
    <3> QED  BY <1>3, <1>4, <2>1, <2>2, <3>1, <3>2
  <2>3. CASE UNCHANGED toBroker /\ phase' = "offline" /\ toClient' = <<>>
    <3>1. toBroker' = toBroker /\ Len(toClient') = 0 /\ OnTop' = Slots + Topics  BY <2>3 DEF OnTop
    <3> QED  BY <1>1, <1>3, <3>1
  <2>4. CASE UNCHANGED toBroker /\ phase = "suback" /\ NextTopic /\ toClient' = Tail(toClient)
    <3>1. OnTop' = OnTop  BY <2>4, TopicOnTop
    <3> QED  BY <1>3, <1>4, <2>1, <2>4, <3>1
  <2> QED  BY <2>1, <2>2, <2>3, <2>4
<1>8. CASE HandlePingresp
  <2>1. /\ toClient # <<>> /\ toBroker' = toBroker /\ toClient' = Tail(toClient)
        /\ phase \in {"suback", "serving"} /\ UNCHANGED <<phase, at>>
    BY <1>8 DEF HandlePingresp, Receives
  <2>2. OnTop' = OnTop  BY <2>1, TopicOnTop
  <2> QED  BY <1>3, <1>4, <2>1, <2>2
<1> QED  BY <1>5, <1>6, <1>7, <1>8 DEF ProcessLoop

\* Each step keeps what is under way within the bound: the broker gives one answer for one packet,
\* and a publish, a PINGREQ and a command of the broker begin only while there is room.
LEMMA StepFew ==
  ASSUME MqttAssumption, SessionInv, Typed', FewUnderWay, MqttNext
  PROVE  FewUnderWay'
<1> DEFINE b == Len(toBroker)
           c == Len(toClient)
<1>1. /\ b \in Nat /\ c \in Nat /\ b + c <= AtFirst + OnTop /\ AtFirst \in Nat /\ OnTop \in 0..Slots + Topics
      /\ AtFirst' = AtFirst /\ Len(toBroker') \in Nat /\ Len(toClient') \in Nat /\ OnTop' \in 0..Slots + Topics
      /\ Slots \in Nat /\ Topics \in Nat
  BY FewStep DEF SessionInv
<1>2. Typed /\ Connection /\ OneEach(outgoing) /\ OneEach(incoming) /\ OutboundOnce
  BY DEF SessionInv, Outbound, Inbound
<1>3. InFlight \in Nat /\ InFlight <= AtFirst /\ 1 + Cardinality(BrokerIds) <= AtFirst  BY <1>2, FewTyped
<1>4. CASE Len(toBroker') + Len(toClient') <= b + c /\ OnTop' \in {OnTop, Slots + Topics}
  <2>1. PICK r, s, h, i, f, o, g : /\ r = b /\ s = c /\ h = Len(toBroker') /\ i = Len(toClient')
                                   /\ f = AtFirst /\ o = OnTop /\ g = OnTop'
    OBVIOUS
  <2>2. /\ r \in Nat /\ s \in Nat /\ h \in Nat /\ i \in Nat /\ f \in Nat /\ o \in 0..Slots + Topics
        /\ g \in 0..Slots + Topics /\ r + s <= f + o /\ h + i <= r + s /\ (g = o \/ g = Slots + Topics)
    BY <1>1, <1>4, <2>1, Zenon
  <2>3. h + i <= f + g
    <3>1. g \in Nat /\ o \in Nat /\ o <= g  BY <1>1, <2>2
    <3>2. f + o <= f + g  BY <2>2, <3>1
    <3> QED  BY <2>2, <3>1, <3>2
  <2> QED  BY <1>1, <2>1, <2>3, Zenon DEF FewUnderWay
<1>5. CASE b + c < InFlight /\ Len(toBroker') + Len(toClient') <= b + c + 1
  <2>1. PICK r, h, i, f, g : r = b + c /\ h = Len(toBroker') /\ i = Len(toClient') /\ f = AtFirst /\ g = OnTop'
    OBVIOUS
  <2>2. b + c \in Nat /\ OnTop' \in Nat  BY <1>1
  <2>3. /\ r \in Nat /\ h \in Nat /\ i \in Nat /\ f \in Nat /\ g \in Nat
        /\ r < InFlight /\ InFlight <= f /\ h + i <= r + 1
    BY <1>1, <1>3, <1>5, <2>1, <2>2, Zenon
  <2>4. h + i <= f + g
    <3>1. r + 1 <= f /\ f <= f + g  BY <1>3, <2>3
    <3> QED  BY <2>3, <3>1
  <2> QED  BY <1>1, <2>1, <2>4, Zenon DEF FewUnderWay
<1>6. CASE Call  BY <1>2, <1>6, CallFew
<1>7. CASE ProcessLoop  BY <1>2, <1>7, ProcessLoopFew
<1>8. CASE KeepAlive
  <2>1. b + c < InFlight /\ toClient' = toClient /\ Sent(Packet("PINGREQ", NoId))
    BY <1>8 DEF KeepAlive, Room
  <2>2. Len(toBroker') \in {b, b + 1}  BY <1>2, <2>1, Made, SentLength DEF Typed
  <2> QED  BY <1>1, <1>5, <2>1, <2>2
<1>9. CASE ServiceEnds
  <2>1. toBroker' = toBroker /\ Len(toClient') = 0 /\ OnTop' = Slots + Topics
    BY <1>9 DEF ServiceEnds, Hangup, OnTop
  <2> QED  BY <1>1, <1>4, <2>1
<1>10. ASSUME NEW m \in Messages, PublishToTopic(m) PROVE FewUnderWay'
  <2>1. /\ Room /\ UNCHANGED toClient
        /\ Sent(Publish(nextId, m)) \/ UNCHANGED toBroker
    BY <1>2, <1>10, PublishToTopicRight
  <2>2. Publish(nextId, m) \in ToBroker  BY <1>2, Made DEF Typed
  <2>3. Len(toBroker') \in {b, b + 1}  BY <1>2, <2>1, <2>2, SentLength DEF Typed
  <2> QED  BY <1>1, <1>5, <2>1, <2>3 DEF Room
<1>11. ASSUME NEW d \in BrokerIds, NEW m \in Commands, BrokerPublishes(d, m) PROVE FewUnderWay'
  <2>1. Room /\ toBroker' = toBroker /\ toClient' = Append(toClient, Publish(d, m))
    BY <1>11 DEF BrokerPublishes
  <2>2. Len(toClient') = c + 1  BY <1>2, <2>1, Made, AppendProperties DEF Typed
  <2> QED  BY <1>1, <1>5, <2>1, <2>2 DEF Room
<1>12. CASE BrokerReads
  <2> DEFINE p == Head(toBroker)
  <2>1. toBroker # <<>> /\ p \in In(toBroker) /\ toBroker' = Tail(toBroker) /\ UNCHANGED <<phase, at, link>>
    BY <1>2, <1>12, BrokerReadsRight
  <2>2. b \in Nat \ {0} /\ Len(toBroker') = b - 1  BY <1>2, <2>1, ReadLength DEF Typed
  <2>3. OnTop' = OnTop  BY <2>1 DEF OnTop
  <2>4. CASE p.type = "CONNECT" /\ Reply(<<[type |-> "CONNACK", present |-> session]>> \o Unanswered)
    <3>1. toBroker = <<Packet("CONNECT", NoId)>> /\ toClient = <<>>
      BY <1>2, <2>1, <2>4 DEF Connection, Connecting
    <3>2. Len(toClient') <= 1 + Cardinality(BrokerIds)  BY <1>2, <2>4, <3>1, AnsweredRight
    <3>3. Len(toBroker') = 0  BY <2>1, <3>1
    <3>4. Cardinality(BrokerIds) \in Nat  BY FS_CardinalityType DEF MqttAssumption
    <3> HIDE DEF b, c
    <3>5. Len(toBroker') + Len(toClient') <= AtFirst + OnTop'  BY <1>1, <1>3, <2>3, <3>2, <3>3, <3>4
    <3> QED  BY <1>1, <3>5 DEF FewUnderWay
  <2>5. CASE \E a \in ToClient : Reply(<<a>>)
    <3>1. PICK a \in ToClient : Reply(<<a>>)  BY <2>5
    <3>2. toClient' = IF link = "up" THEN Append(toClient, a) ELSE toClient  BY <1>2, <3>1, ReplyRight DEF Typed
    <3>3. Len(toClient') \in {c, c + 1}  BY <1>2, <3>2, AppendProperties DEF Typed
    <3> QED  BY <1>1, <1>4, <2>2, <2>3, <3>3
  <2>6. CASE UNCHANGED toClient  BY <1>1, <1>4, <2>2, <2>3, <2>6
  <2>7. \/ p.type = "CONNECT" /\ Reply(<<[type |-> "CONNACK", present |-> session]>> \o Unanswered)
        \/ \E a \in ToClient : Reply(<<a>>)
        \/ UNCHANGED toClient
    <3>1. LET q == Head(toBroker) IN
          \/ q.type = "CONNECT" /\ Reply(<<[type |-> "CONNACK", present |-> session]>> \o Unanswered)
          \/ q.id \in PacketIds /\ Reply(<<Packet("PUBACK", q.id)>>)
          \/ q.id \in PacketIds /\ Reply(<<Packet("SUBACK", q.id)>>)
          \/ Reply(<<Packet("PINGRESP", NoId)>>)
          \/ UNCHANGED toClient
      BY <1>2, <1>12, BrokerReadsRight
    <3> QED  BY <3>1, Made
  <2> QED  BY <2>4, <2>5, <2>6, <2>7
<1>13. CASE BrokerForgets \/ Cut \/ Settle
  <2>1. UNCHANGED <<phase, at, toBroker, toClient>>
    BY <1>13 DEF BrokerForgets, Cut, Settle, control, network
  <2>2. OnTop' = OnTop  BY <2>1 DEF OnTop
  <2> QED  BY <1>1, <1>4, <2>1, <2>2
<1>14. CASE PowerCut
  <2>1. toBroker' = toBroker /\ Len(toClient') = 0 /\ OnTop' = Slots + Topics
    BY <1>14 DEF PowerCut, Booted, OnTop
  <2> QED  BY <1>1, <1>4, <2>1
<1> QED  BY <1>6, <1>7, <1>8, <1>9, <1>10, <1>11, <1>12, <1>13, <1>14 DEF MqttNext

\* Every variable of the session has its type, and the connection holds no more than the
\* packets that may begin while there is room (or the CONNACK and what the broker publishes again),
\* those that handlePublishResend sends again and the subscriptions of mqtt_subscribe_init.
THEOREM MqttTypeCorrect == MqttSpec => []MqttTypeOK
<1>1. MqttInit => FewUnderWay
  <2>1. SUFFICES ASSUME MqttInit PROVE FewUnderWay  OBVIOUS
  <2>2. /\ Len(toBroker) = 0 /\ Len(toClient) = 0 /\ phase = "offline"  BY <2>1 DEF MqttInit
  <2>3. OnTop \in Nat /\ AtFirst \in Nat
    BY <2>1, FewTyped, InitRight, MqttAssumption DEF SessionInv
  <2> QED  BY <2>2, <2>3 DEF FewUnderWay
<1>2. SessionInv /\ SessionInv' /\ FewUnderWay /\ [MqttNext]_vars => FewUnderWay'
  <2>1. ASSUME UNCHANGED vars, FewUnderWay PROVE FewUnderWay'
    BY <2>1 DEF FewUnderWay, AtFirst, OnTop, vars, control, network
  <2> QED  BY <2>1, StepFew, MqttAssumption DEF SessionInv
<1>3. SessionInv /\ FewUnderWay => MqttTypeOK
  <2>1. SUFFICES ASSUME SessionInv, FewUnderWay PROVE MqttTypeOK  OBVIOUS
  <2>2. Typed  BY <2>1 DEF SessionInv
  <2>3. \E first \in {InFlight, 1 + Cardinality(BrokerIds)} :
          Len(toBroker) + Len(toClient) <= first + Slots + Topics
    <3>1. AtFirst \in {InFlight, 1 + Cardinality(BrokerIds)}  BY DEF AtFirst
    <3>2. Len(toBroker) + Len(toClient) <= AtFirst + Slots + Topics
      BY <2>1, <2>2, FewTyped, MqttAssumption DEF FewUnderWay
    <3> QED  BY <3>1, <3>2
  <2>4. slots \in [1..Slots -> [id : 0..LastId, msg : Messages \cup {NoMessage}]]
    <3>1. Free \in [id : 0..LastId, msg : Messages \cup {NoMessage}]  BY Sizes DEF Free
    <3>2. [id : PacketIds, msg : Messages] \subseteq [id : 0..LastId, msg : Messages \cup {NoMessage}]
      BY Sizes
    <3> QED  BY <2>2, <3>1, <3>2 DEF Typed
  <2>5. outgoing \in [1..Records -> [id : 0..LastId, state : States]]
    <3>1. Empty \in [id : 0..LastId, state : States]  BY Sizes DEF Empty, States
    <3>2. [id : PacketIds, state : {"PublishSend", "PubAckPending"}] \subseteq [id : 0..LastId, state : States]
      BY Sizes DEF States
    <3> QED  BY <2>2, <3>1, <3>2 DEF Typed, RecordArray
  <2>6. incoming \in [1..Records -> [id : {NoId} \cup BrokerIds, state : States]]
    <3>1. Empty \in [id : {NoId} \cup BrokerIds, state : States]  BY DEF Empty, States
    <3>2. [id : BrokerIds, state : {"PubAckSend"}] \subseteq [id : {NoId} \cup BrokerIds, state : States]
      BY DEF States
    <3> QED  BY <2>2, <3>1, <3>2 DEF Typed, RecordArray
  <2> QED  BY <2>2, <2>3, <2>4, <2>5, <2>6, Sizes DEF MqttTypeOK, Contents, Typed
<1> QED  BY <1>1, <1>2, <1>3, SessionInvariant, PTL DEF MqttSpec
=============================================================================
