-------------------------- MODULE QueueCountsProofs --------------------------
(* What appending and removing a job does to the counts of a queue.        *)
EXTENDS QueueCounts, FiniteSetTheorems, TLAPS

(* A count is a number.                                                    *)
LEMMA CountType ==
    ASSUME NEW T, NEW q \in Seq(T), NEW S
    PROVE  IsFiniteSet({i \in DOMAIN q : q[i] \in S}) /\ CountIn(q, S) \in Nat
<1>1. IsFiniteSet(DOMAIN q)
  BY FS_Interval
<1>2. {i \in DOMAIN q : q[i] \in S} \in SUBSET DOMAIN q
  OBVIOUS
<1> QED BY <1>1, <1>2, FS_Subset, FS_CardinalityType DEF CountIn

(* Nothing is in an empty queue.                                           *)
LEMMA CountEmpty == \A S : CountIn(<<>>, S) = 0
<1> TAKE S
<1>1. {i \in DOMAIN <<>> : <<>>[i] \in S} = {}
  OBVIOUS
<1> QED BY <1>1, FS_EmptySet DEF CountIn

(* A job added at the end is counted once.                                 *)
LEMMA CountAppend ==
    ASSUME NEW T, NEW q \in Seq(T), NEW job \in T, NEW S
    PROVE  CountIn(Append(q, job), S) = CountIn(q, S) + IF job \in S THEN 1 ELSE 0
<1> DEFINE r == Append(q, job)
           D == {i \in DOMAIN q : q[i] \in S}
           E == {i \in DOMAIN r : r[i] \in S}
           n == Len(q) + 1
<1>1. /\ DOMAIN q = 1 .. Len(q) /\ DOMAIN r = 1 .. n /\ Len(q) \in Nat
      /\ r[n] = job /\ \A i \in 1 .. Len(q) : r[i] = q[i]
  OBVIOUS
<1>2. 1 .. n = 1 .. Len(q) \cup {n} /\ n \notin 1 .. Len(q)
  BY <1>1
<1> HIDE DEF r, n
<1>3. E = IF job \in S THEN D \cup {n} ELSE D
  BY <1>1, <1>2
<1>4. n \notin D
  BY <1>1, <1>2
<1>5. IsFiniteSet(D) /\ Cardinality(D) \in Nat
  BY CountType DEF CountIn
<1>6. Cardinality(E) = Cardinality(D) + IF job \in S THEN 1 ELSE 0
  <2>1. Cardinality(D \cup {n}) = Cardinality(D) + 1
    <3> HIDE DEF D
    <3> QED BY <1>4, <1>5, FS_AddElement
  <2> HIDE DEF D, E
  <2> QED BY <1>3, <1>5, <2>1
<1> QED BY <1>6 DEF CountIn, r

(* The job at the head is counted once.                                    *)
LEMMA CountTail ==
    ASSUME NEW T, NEW q \in Seq(T), q # <<>>, NEW S
    PROVE  CountIn(q, S) = CountIn(Tail(q), S) + IF Head(q) \in S THEN 1 ELSE 0
<1> DEFINE r == Tail(q)
           D == {i \in DOMAIN q : q[i] \in S}
           E == {i \in DOMAIN r : r[i] \in S}
           f == [i \in E |-> i + 1]
<1>1. /\ DOMAIN q = 1 .. Len(q) /\ Len(q) \in Nat \ {0} /\ r \in Seq(T)
      /\ DOMAIN r = 1 .. (Len(q) - 1) /\ q[1] = Head(q)
      /\ \A i \in 1 .. (Len(q) - 1) : r[i] = q[i + 1]
  OBVIOUS
<1>2. IsFiniteSet(E) /\ Cardinality(E) \in Nat /\ IsFiniteSet(D)
  BY <1>1, CountType DEF CountIn
<1> HIDE DEF r
<1>3. \A j \in D \ {1} : j - 1 \in E /\ (j - 1) + 1 = j
  BY <1>1
<1>4. \A i \in E : i + 1 \in D \ {1}
  BY <1>1
<1>5. f \in Bijection(E, D \ {1})
  <2>1. f \in [E -> D \ {1}]
    BY <1>4
  <2>2. \A a, b \in E : f[a] = f[b] => a = b
    BY <1>1
  <2>3. \A j \in D \ {1} : \E i \in E : f[i] = j
    BY <1>3
  <2> QED BY <2>1, <2>2, <2>3 DEF Bijection, Injection, Surjection, IsInjective
<1>6. Cardinality(D \ {1}) = Cardinality(E)
  BY <1>2, <1>5, FS_Bijection DEF ExistsBijection
<1>7. Cardinality(D \ {1}) = IF 1 \in D THEN Cardinality(D) - 1 ELSE Cardinality(D)
  BY <1>2, FS_RemoveElement
<1>8. 1 \in D <=> Head(q) \in S
  BY <1>1
<1>9. Cardinality(D) \in Nat
  BY <1>2, FS_CardinalityType
<1>10. Cardinality(D) = Cardinality(E) + IF Head(q) \in S THEN 1 ELSE 0
  BY <1>2, <1>6, <1>7, <1>8, <1>9
<1> QED BY <1>10 DEF CountIn, r
=============================================================================
