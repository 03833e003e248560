---------------------------- MODULE QueueLemmas ----------------------------
(***************************************************************************)
(* What the operations on queues do to the set of their members, to their  *)
(* distinctness, and to the number of times an element is in them.         *)
(***************************************************************************)
EXTENDS Queues, SequencesExt, FiniteSetTheorems, SequenceTheorems, TLAPS

Distinct(q) == \A k, m \in DOMAIN q : q[k] = q[m] => k = m

LEMMA SetOfSeq == ASSUME NEW S, NEW q \in Seq(S)
                  PROVE  /\ DOMAIN q = 1..Len(q) /\ Len(q) \in Nat
                         /\ \A i \in DOMAIN q : q[i] \in S
                         /\ ToSet(q) \subseteq S
                         /\ \A r : r \in ToSet(q) <=> \E i \in DOMAIN q : q[i] = r
  BY DEF ToSet

(* Ranks in a set of positions are a bijection.                            *)
LEMMA RanksBijective ==
    ASSUME NEW n \in Nat, NEW D \in SUBSET (1..n)
    PROVE  LET Rank(i) == Cardinality({j \in D : j <= i})
           IN  /\ Cardinality(D) \in Nat
               /\ \A i \in D : Rank(i) \in 1..Cardinality(D)
               /\ \A i, j \in D : Rank(i) = Rank(j) => i = j
               /\ \A k \in 1..Cardinality(D) : \E i \in D : Rank(i) = k
  <1> DEFINE Upto(i) == {j \in D : j <= i}
             Rank(i) == Cardinality(Upto(i))
             K == 1..Cardinality(D)
             rank == [i \in D |-> Rank(i)]
  <1>1. IsFiniteSet(D) /\ Cardinality(D) \in Nat
    <2>1. IsFiniteSet(1..n)
      BY FS_Interval
    <2> QED
      BY <2>1, FS_Subset, FS_CardinalityType
  <1>2. \A i \in D : /\ IsFiniteSet(Upto(i)) /\ Rank(i) \in Nat
                     /\ Rank(i) <= Cardinality(D)
    <2> TAKE i \in D
    <2>1. Upto(i) \in SUBSET D
      OBVIOUS
    <2> QED
      BY <1>1, <2>1, FS_Subset, FS_CardinalityType
  <1>3. \A i, j \in D : i < j => Rank(i) < Rank(j)
    <2> SUFFICES ASSUME NEW i \in D, NEW j \in D, i < j PROVE Rank(i) < Rank(j)
      OBVIOUS
    <2>0. \A k \in D : k \in Nat
      OBVIOUS
    <2>1. /\ Upto(i) \in SUBSET Upto(j)
          /\ j \in Upto(j) /\ j \notin Upto(i)
      <3>1. \A k \in Upto(i) : k \in D /\ k <= j
        BY <2>0
      <3>2. j <= j /\ ~(j <= i)
        BY <2>0
      <3> QED
        BY <3>1, <3>2
    <2>2. Rank(i) <= Rank(j) /\ Rank(i) # Rank(j)
      BY <1>2, <2>1, FS_Subset
    <2> QED
      BY <1>2, <2>2
  <1>4. \A i \in D : Rank(i) \in K
    <2> TAKE i \in D
    <2>1. i \in Upto(i)
      OBVIOUS
    <2>2. Rank(i) # 0
      BY <1>2, <2>1, FS_EmptySet
    <2>3. Rank(i) \in Nat /\ Rank(i) <= Cardinality(D)
      BY <1>2
    <2> HIDE DEF Rank
    <2> QED
      BY <1>1, <2>2, <2>3
  <1>5. \A i, j \in D : Rank(i) = Rank(j) => i = j
    <2> SUFFICES ASSUME NEW i \in D, NEW j \in D, Rank(i) = Rank(j) PROVE i = j
      OBVIOUS
    <2>1. i \in Nat /\ j \in Nat /\ Rank(i) \in Nat /\ Rank(j) \in Nat
      BY <1>2
    <2> HIDE DEF Rank
    <2> QED
      BY <1>3, <2>1
  <1> HIDE DEF Rank
  <1>6. rank \in Injection(D, K)
    BY <1>4, <1>5 DEF Injection, IsInjective
  <1>7. IsFiniteSet(K) /\ Cardinality(K) = Cardinality(D)
    BY <1>1, FS_Interval
  <1>8. rank \in Surjection(D, K)
    BY <1>1, <1>6, <1>7, FS_Injection
  <1>9. \A k \in K : \E i \in D : Rank(i) = k
    BY <1>8 DEF Surjection
  <1> QED
    BY <1>1, <1>4, <1>5, <1>9 DEF Rank

LEMMA WithoutKeeps ==
    ASSUME NEW R, NEW q \in Seq(R), NEW S
    PROVE  /\ Without(q, S) \in Seq(R)
           /\ ToSet(Without(q, S)) = ToSet(q) \ S
           /\ Distinct(q) => Distinct(Without(q, S))
  <1> DEFINE D == {i \in DOMAIN q : q[i] \notin S}
             Rank(i) == Cardinality({j \in D : j <= i})
             K == 1..Cardinality(D)
             at == [k \in K |-> CHOOSE i \in D : Rank(i) = k]
             w == Without(q, S)
  <1>1. DOMAIN q = 1..Len(q) /\ Len(q) \in Nat /\ \A i \in DOMAIN q : q[i] \in R
    OBVIOUS
  <1>2. D \in SUBSET (1..Len(q))
    BY <1>1
  <1>3. /\ Cardinality(D) \in Nat
        /\ \A i \in D : Rank(i) \in K
        /\ \A i, j \in D : Rank(i) = Rank(j) => i = j
        /\ \A k \in K : \E i \in D : Rank(i) = k
    <2> HIDE DEF D
    <2> QED
      BY <1>1, <1>2, RanksBijective
  <1>4. w = [k \in K |-> q[CHOOSE i \in D : Rank(i) = k]]
    BY DEF Without
  <1>5. \A i \in D : i \in DOMAIN q /\ q[i] \notin S
    OBVIOUS
  <1>6. \A i \in DOMAIN q : q[i] \notin S => i \in D
    OBVIOUS
  <1> HIDE DEF w, D, Rank
  <1>7. \A k \in K : at[k] \in D /\ Rank(at[k]) = k /\ w[k] = q[at[k]]
    BY <1>3, <1>4
  <1>8. DOMAIN w = K
    BY <1>4
  <1> HIDE DEF at, K
  <1>9. \A i \in D : at[Rank(i)] = i
    BY <1>3, <1>7
  <1>10. w \in Seq(R)
    <2>1. \A k \in K : w[k] \in R
      BY <1>1, <1>5, <1>7
    <2>2. w \in [1..Cardinality(D) -> R]
      BY <1>4, <2>1 DEF K
    <2> QED
      BY <1>3, <2>2
  <1>11. \A r : (\E k \in DOMAIN w : w[k] = r) <=> r \notin S /\ \E i \in DOMAIN q : q[i] = r
    <2>1. ASSUME NEW k \in K PROVE w[k] \notin S /\ \E i \in DOMAIN q : q[i] = w[k]
      BY <1>5, <1>7
    <2>2. ASSUME NEW i \in DOMAIN q, q[i] \notin S PROVE \E k \in K : w[k] = q[i]
      <3>1. i \in D
        BY <1>6, <2>2
      <3>2. Rank(i) \in K /\ w[Rank(i)] = q[i]
        BY <1>3, <1>7, <1>9, <3>1
      <3> QED
        BY <3>2
    <2> QED
      BY <1>8, <2>1, <2>2
  <1>12. ToSet(w) = ToSet(q) \ S
    BY <1>11 DEF ToSet
  <1>13. ASSUME Distinct(q) PROVE Distinct(w)
    <2> SUFFICES ASSUME NEW k \in K, NEW m \in K, w[k] = w[m] PROVE k = m
      BY <1>8 DEF Distinct
    <2>1. at[k] = at[m]
      BY <1>5, <1>7, <1>13 DEF Distinct
    <2> QED
      BY <1>7, <2>1
  <1> QED
    BY <1>10, <1>12, <1>13 DEF w

LEMMA AppendAdds ==
    ASSUME NEW R, NEW q \in Seq(R), NEW e \in R
    PROVE  /\ Append(q, e) \in Seq(R)
           /\ ToSet(Append(q, e)) = ToSet(q) \cup {e}
           /\ Distinct(q) /\ e \notin ToSet(q) => Distinct(Append(q, e))
  <1>1. /\ DOMAIN q = 1..Len(q) /\ Len(q) \in Nat
        /\ DOMAIN Append(q, e) = 1..(Len(q) + 1)
        /\ \A i \in DOMAIN q : Append(q, e)[i] = q[i]
        /\ Append(q, e)[Len(q) + 1] = e
    BY AppendProperties, LenProperties
  <1>2. ToSet(Append(q, e)) = ToSet(q) \cup {e}
    <2>1. \A r \in ToSet(Append(q, e)) : r \in ToSet(q) \cup {e}
      BY <1>1 DEF ToSet
    <2>2. e \in ToSet(Append(q, e)) /\ ToSet(q) \subseteq ToSet(Append(q, e))
      BY <1>1 DEF ToSet
    <2> QED
      BY <2>1, <2>2
  <1>3. ASSUME Distinct(q), e \notin ToSet(q) PROVE Distinct(Append(q, e))
    BY <1>1, <1>3 DEF Distinct, ToSet
  <1> QED
    BY <1>2, <1>3, AppendProperties

LEMMA TailRemoves ==
    ASSUME NEW R, NEW q \in Seq(R), q # <<>>, Distinct(q)
    PROVE  /\ Tail(q) \in Seq(R) /\ Distinct(Tail(q))
           /\ Head(q) \in R
           /\ ToSet(q) = ToSet(Tail(q)) \cup {Head(q)}
           /\ Head(q) \notin ToSet(Tail(q))
  <1>1. /\ Head(q) = q[1] /\ DOMAIN q = 1..Len(q) /\ Len(q) \in Nat /\ Len(q) >= 1
        /\ DOMAIN Tail(q) = 1..(Len(q) - 1) /\ Tail(q) \in Seq(R)
        /\ \A j \in 1..(Len(q) - 1) : Tail(q)[j] = q[j + 1]
    BY HeadTailProperties, LenProperties, EmptySeq
  <1>2. Distinct(Tail(q)) /\ Head(q) \in R
    BY <1>1 DEF Distinct
  <1>3. Head(q) \notin ToSet(Tail(q))
    BY <1>1 DEF Distinct, ToSet
  <1>4. ToSet(q) \subseteq ToSet(Tail(q)) \cup {Head(q)}
    <2> SUFFICES ASSUME NEW i \in DOMAIN q PROVE q[i] \in ToSet(Tail(q)) \cup {Head(q)}
      BY DEF ToSet
    <2>1. CASE i = 1
      BY <1>1, <2>1
    <2>2. CASE i # 1
      <3>1. i - 1 \in DOMAIN Tail(q) /\ Tail(q)[i - 1] = q[i]
        BY <1>1, <2>2
      <3> QED
        BY <3>1 DEF ToSet
    <2> QED
      BY <2>1, <2>2
  <1>5. ToSet(Tail(q)) \cup {Head(q)} \subseteq ToSet(q)
    BY <1>1 DEF ToSet
  <1> QED
    BY <1>1, <1>2, <1>3, <1>4, <1>5

LEMMA ConcatJoins ==
    ASSUME NEW R, NEW p \in Seq(R), NEW q \in Seq(R), Distinct(p), Distinct(q),
           ToSet(p) \cap ToSet(q) = {}
    PROVE  /\ p \o q \in Seq(R) /\ Distinct(p \o q)
           /\ ToSet(p \o q) = ToSet(p) \cup ToSet(q)
  <1>1. /\ DOMAIN p = 1..Len(p) /\ Len(p) \in Nat /\ DOMAIN q = 1..Len(q) /\ Len(q) \in Nat
        /\ p \o q \in Seq(R) /\ DOMAIN (p \o q) = 1..(Len(p) + Len(q))
        /\ \A i \in 1..(Len(p) + Len(q)) :
              (p \o q)[i] = IF i <= Len(p) THEN p[i] ELSE q[i - Len(p)]
    BY ConcatProperties, LenProperties
  <1>2. \A i \in DOMAIN (p \o q) :
           \/ i \in DOMAIN p /\ (p \o q)[i] = p[i]
           \/ i - Len(p) \in DOMAIN q /\ (p \o q)[i] = q[i - Len(p)]
    BY <1>1
  <1>3. \A i \in DOMAIN p : i \in DOMAIN (p \o q) /\ (p \o q)[i] = p[i]
    BY <1>1
  <1>4. \A i \in DOMAIN q : i + Len(p) \in DOMAIN (p \o q) /\ (p \o q)[i + Len(p)] = q[i]
    BY <1>1
  <1>5. ToSet(p \o q) = ToSet(p) \cup ToSet(q)
    <2>1. \A r \in ToSet(p \o q) : r \in ToSet(p) \cup ToSet(q)
      BY <1>2 DEF ToSet
    <2>2. \A r \in ToSet(p) : r \in ToSet(p \o q)
      BY <1>3 DEF ToSet
    <2>3. \A r \in ToSet(q) : r \in ToSet(p \o q)
      BY <1>4 DEF ToSet
    <2> QED
      BY <2>1, <2>2, <2>3
  <1>6. \A i \in DOMAIN p, j \in DOMAIN q : p[i] # q[j]
    BY DEF ToSet
  <1>7. Distinct(p \o q)
    <2> SUFFICES ASSUME NEW i \in DOMAIN (p \o q), NEW j \in DOMAIN (p \o q),
                        (p \o q)[i] = (p \o q)[j]
                 PROVE  i = j
      BY DEF Distinct
    <2>1. i \in Int /\ j \in Int /\ Len(p) \in Int
      BY <1>1
    <2> QED
      BY <1>2, <1>6, <2>1 DEF Distinct
  <1> QED
    BY <1>1, <1>5, <1>7

(* In a queue without repetitions, counting is membership.                 *)
LEMMA CountOccurrences ==
    ASSUME NEW R, NEW q \in Seq(R), Distinct(q), NEW r
    PROVE  Occurrences(q, r) = IF r \in ToSet(q) THEN 1 ELSE 0
  <1>1. CASE r \in ToSet(q)
    <2>1. PICK k \in DOMAIN q : q[k] = r
      BY <1>1, SetOfSeq
    <2>2. {m \in DOMAIN q : q[m] = r} = {k}
      BY <2>1 DEF Distinct
    <2> QED
      BY <1>1, <2>2, FS_Singleton DEF Occurrences
  <1>2. CASE r \notin ToSet(q)
    <2>1. {m \in DOMAIN q : q[m] = r} = {}
      BY <1>2, SetOfSeq
    <2> QED
      BY <1>2, <2>1, FS_EmptySet DEF Occurrences
  <1> QED
    BY <1>1, <1>2

-----------------------------------------------------------------------------
(* Counting.                                                               *)
LEMMA OccurrencesType ==
    ASSUME NEW R, NEW q \in Seq(R), NEW x
    PROVE  /\ IsFiniteSet({k \in DOMAIN q : q[k] = x})
           /\ Occurrences(q, x) \in Nat
           /\ Occurrences(q, x) > 0 <=> \E k \in DOMAIN q : q[k] = x
  <1> DEFINE at == {k \in DOMAIN q : q[k] = x}
  <1>1. IsFiniteSet(DOMAIN q)
    BY FS_Interval
  <1>2. at \in SUBSET DOMAIN q
    OBVIOUS
  <1>3. IsFiniteSet(at)
    BY <1>1, <1>2, FS_Subset
  <1>4. Cardinality(at) \in Nat /\ (Cardinality(at) = 0 <=> at = {})
    BY <1>3, FS_CardinalityType, FS_EmptySet
  <1>5. at # {} <=> \E k \in DOMAIN q : q[k] = x
    OBVIOUS
  <1> HIDE DEF at
  <1> QED
    BY <1>3, <1>4, <1>5 DEF Occurrences, at

LEMMA OccurrencesInEmpty == ASSUME NEW x PROVE Occurrences(<<>>, x) = 0
  <1>1. {k \in DOMAIN <<>> : <<>>[k] = x} = {}
    OBVIOUS
  <1> QED
    BY <1>1, FS_EmptySet DEF Occurrences

(* Two queues in which x is at corresponding places.                       *)
LEMMA OntoIsBijection ==
    ASSUME NEW P, NEW Q, NEW f \in [P -> Q],
           \A i, j \in DOMAIN f : f[i] = f[j] => i = j,
           \A k \in Q : \E i \in DOMAIN f : f[i] = k
    PROVE  ExistsBijection(P, Q)
  <1>1. f \in [P -> Q] /\ DOMAIN f = P
    OBVIOUS
  <1>2. \A k \in Q : \E i \in P : f[i] = k
    BY <1>1
  <1>3. f \in Injection(P, Q) /\ f \in Surjection(P, Q)
    BY <1>1, <1>2 DEF Injection, IsInjective, Surjection
  <1> QED
    BY <1>3 DEF ExistsBijection, Bijection

LEMMA SameOccurrences ==
    ASSUME NEW R, NEW p \in Seq(R), NEW q \in Seq(R), NEW x,
           NEW P, P = {k \in DOMAIN p : p[k] = x},
           NEW Q, Q = {k \in DOMAIN q : q[k] = x},
           ExistsBijection(P, Q)
    PROVE  Occurrences(p, x) = Occurrences(q, x)
  <1>1. IsFiniteSet(P)
    <2>1. IsFiniteSet(DOMAIN p)
      BY FS_Interval
    <2>2. P \in SUBSET DOMAIN p
      OBVIOUS
    <2> QED
      BY <2>1, <2>2, FS_Subset
  <1>2. Cardinality(P) = Cardinality(Q)
    BY <1>1, FS_Bijection
  <1> QED
    BY <1>2 DEF Occurrences

LEMMA OccurrencesInConcat ==
    ASSUME NEW R, NEW p \in Seq(R), NEW q \in Seq(R), NEW x
    PROVE  Occurrences(p \o q, x) = Occurrences(p, x) + Occurrences(q, x)
  <1> DEFINE n == Len(p)
             P == {k \in DOMAIN p : p[k] = x}
             Q == {k \in DOMAIN q : q[k] = x}
             Q1 == {k \in (n + 1)..(n + Len(q)) : (p \o q)[k] = x}
             B == {k \in DOMAIN (p \o q) : (p \o q)[k] = x}
             f == [k \in Q |-> k + n]
  <1>1. /\ DOMAIN p = 1..n /\ n \in Nat /\ DOMAIN q = 1..Len(q) /\ Len(q) \in Nat
        /\ DOMAIN (p \o q) = 1..(n + Len(q))
        /\ \A i \in 1..(n + Len(q)) : (p \o q)[i] = IF i <= n THEN p[i] ELSE q[i - n]
    BY ConcatProperties, LenProperties
  <1>2. \A k \in B : k \in P \/ k \in Q1
    BY <1>1
  <1>3. P \subseteq B /\ Q1 \subseteq B
    BY <1>1
  <1>4. B = P \cup Q1
    BY <1>2, <1>3
  <1>5. P \cap Q1 = {}
    BY <1>1
  <1>6. \A k \in Q : k \in Int /\ k + n \in Q1
    BY <1>1
  <1>7. \A k \in Q1 : k \in Int /\ k - n \in Q
    BY <1>1
  <1>8. IsFiniteSet(P) /\ IsFiniteSet(Q)
    BY OccurrencesType
  <1> HIDE DEF P, Q, Q1, B, n
  <1>9. f \in [Q -> Q1]
    BY <1>6
  <1>10. \A i, j \in Q : f[i] = f[j] => i = j
    BY <1>1, <1>6
  <1>11. \A k \in Q1 : \E i \in Q : f[i] = k
    <2> TAKE k \in Q1
    <2>1. k - n \in Q /\ f[k - n] = k
      BY <1>1, <1>7
    <2> QED
      BY <2>1
  <1>12. f \in Injection(Q, Q1) /\ f \in Surjection(Q, Q1)
    BY <1>9, <1>10, <1>11 DEF Injection, IsInjective, Surjection
  <1>13. IsFiniteSet(Q1) /\ Cardinality(Q1) = Cardinality(Q)
    BY <1>8, <1>12, FS_Bijection DEF ExistsBijection, Bijection
  <1>14. Cardinality(B) = Cardinality(P) + Cardinality(Q)
    <2>1. Cardinality(B) = Cardinality(P) + Cardinality(Q1) - Cardinality(P \cap Q1)
      BY <1>4, <1>8, <1>13, FS_Union
    <2>2. Cardinality(P) \in Nat /\ Cardinality(Q) \in Nat
      BY <1>8, FS_CardinalityType
    <2>3. Cardinality(P \cap Q1) = 0
      BY <1>5, FS_EmptySet
    <2> QED
      BY <1>13, <2>1, <2>2, <2>3
  <1> QED
    BY <1>14 DEF Occurrences, P, Q, B

LEMMA OccurrencesInOne ==
    ASSUME NEW e, NEW x
    PROVE  Occurrences(<<e>>, x) = IF x = e THEN 1 ELSE 0
  <1> DEFINE at == {k \in DOMAIN <<e>> : <<e>>[k] = x}
  <1>1. at = IF x = e THEN {1} ELSE {}
    OBVIOUS
  <1> HIDE DEF at
  <1>2. Cardinality(at) = IF x = e THEN 1 ELSE 0
    BY <1>1, FS_Singleton, FS_EmptySet
  <1> QED
    BY <1>2 DEF Occurrences, at

LEMMA OccurrencesAfterAppend ==
    ASSUME NEW R, NEW q \in Seq(R), NEW e \in R, NEW x
    PROVE  /\ Append(q, e) \in Seq(R)
           /\ Occurrences(Append(q, e), x) = Occurrences(q, x) + IF x = e THEN 1 ELSE 0
  <1>1. Append(q, e) = q \o <<e>> /\ <<e>> \in Seq(R)
    BY AppendIsConcat
  <1>2. Occurrences(q \o <<e>>, x) = Occurrences(q, x) + Occurrences(<<e>>, x)
    BY <1>1, OccurrencesInConcat
  <1>3. Append(q, e) \in Seq(R)
    BY AppendProperties
  <1> QED
    BY <1>1, <1>2, <1>3, OccurrencesInOne

LEMMA OccurrencesAfterTail ==
    ASSUME NEW R, NEW q \in Seq(R), q # <<>>, NEW x
    PROVE  /\ Head(q) \in R /\ Tail(q) \in Seq(R)
           /\ Occurrences(q, x) = Occurrences(Tail(q), x) + IF x = Head(q) THEN 1 ELSE 0
  <1>1. /\ Head(q) \in R /\ Tail(q) \in Seq(R) /\ <<Head(q)>> \in Seq(R)
        /\ q = <<Head(q)>> \o Tail(q)
    BY HeadTailProperties, ConcatSimplifications
  <1>2. PICK h, t : h = <<Head(q)>> /\ t = Tail(q)
    OBVIOUS
  <1>3. h \in Seq(R) /\ t \in Seq(R) /\ q = h \o t
    BY <1>1, <1>2
  <1>4. Occurrences(q, x) = Occurrences(h, x) + Occurrences(t, x)
    BY <1>3, OccurrencesInConcat
  <1>5. Occurrences(t, x) \in Nat
    BY <1>3, OccurrencesType
  <1>6. Occurrences(h, x) = IF x = Head(q) THEN 1 ELSE 0
    BY <1>2, OccurrencesInOne
  <1> QED
    BY <1>1, <1>2, <1>4, <1>5, <1>6

LEMMA OccurrencesAfterFront ==
    ASSUME NEW R, NEW q \in Seq(R), q # <<>>, NEW x
    PROVE  /\ Last(q) \in R /\ Front(q) \in Seq(R)
           /\ Occurrences(q, x) = Occurrences(Front(q), x) + IF x = Last(q) THEN 1 ELSE 0
  <1> DEFINE n == Len(q)
             front == SubSeq(q, 1, n - 1)
  <1>1. n \in Nat /\ n >= 1 /\ \A i \in 1..n : q[i] \in R
    BY LenProperties, EmptySeq
  <1>2. /\ front \in Seq(R) /\ Len(front) = n - 1
        /\ \A i \in 1..(n - 1) : front[i] = q[i]
    <2>1. n - 1 \in Int /\ \A i \in 1..(n - 1) : q[i] \in R
      BY <1>1
    <2> HIDE DEF n
    <2>2. /\ front \in Seq(R)
          /\ Len(front) = IF 1 <= n - 1 THEN (n - 1) - 1 + 1 ELSE 0
          /\ \A i \in 1..((n - 1) - 1 + 1) : front[i] = q[1 + i - 1]
      BY <2>1, SubSeqProperties
    <2> HIDE DEF front
    <2> QED
      BY <1>1, <2>2
  <1> HIDE DEF front
  <1>3. Append(front, q[n]) = q
    <2>1. /\ Append(front, q[n]) \in Seq(R) /\ Len(Append(front, q[n])) = n
          /\ \A i \in 1..(n - 1) : Append(front, q[n])[i] = q[i]
          /\ Append(front, q[n])[n] = q[n]
      BY <1>1, <1>2, AppendProperties
    <2>2. \A i \in 1..n : i \in 1..(n - 1) \/ i = n
      BY <1>1
    <2>3. \A i \in 1..n : Append(front, q[n])[i] = q[i]
      BY <2>1, <2>2
    <2> QED
      BY <2>1, <2>3, SeqEqual
  <1>4. Last(q) = q[n] /\ Front(q) = front
    BY DEF Last, Front, front
  <1>5. Last(q) \in R
    BY <1>1, <1>4
  <1>6. Occurrences(Append(front, q[n]), x)
           = Occurrences(front, x) + IF x = q[n] THEN 1 ELSE 0
    BY <1>2, <1>4, <1>5, OccurrencesAfterAppend
  <1> QED
    BY <1>2, <1>3, <1>4, <1>5, <1>6

LEMMA OccurrencesInReverse ==
    ASSUME NEW R, NEW q \in Seq(R), NEW x
    PROVE  /\ Reverse(q) \in Seq(R)
           /\ Occurrences(Reverse(q), x) = Occurrences(q, x)
  <1> DEFINE n == Len(q)
             w == Reverse(q)
             f == [k \in {i \in DOMAIN w : w[i] = x} |-> n - k + 1]
  <1>1. n \in Nat /\ DOMAIN q = 1..n /\ \A i \in 1..n : q[i] \in R
    BY LenProperties
  <1>2. DOMAIN w = 1..n /\ \A i \in 1..n : w[i] = q[n - i + 1]
    BY <1>1 DEF Reverse
  <1>3. \A i \in 1..n : n - i + 1 \in 1..n
    BY <1>1
  <1>4. w \in Seq(R)
    <2>1. \A i \in 1..n : w[i] \in R
      BY <1>1, <1>2, <1>3
    <2>2. w = [i \in 1..n |-> q[(n - i) + 1]]
      BY DEF Reverse
    <2> HIDE DEF w
    <2> QED
      BY <1>1, <1>2, <2>1, <2>2
  <1> HIDE DEF w, n
  <1>5. f \in [{i \in DOMAIN w : w[i] = x} -> {i \in DOMAIN q : q[i] = x}]
    BY <1>1, <1>2, <1>3
  <1>6. \A i, j \in DOMAIN f : f[i] = f[j] => i = j
    BY <1>1, <1>2
  <1>7. \A k \in {m \in DOMAIN q : q[m] = x} : \E i \in DOMAIN f : f[i] = k
    <2> TAKE k \in {m \in DOMAIN q : q[m] = x}
    <2>1. k \in 1..n /\ n - k + 1 \in 1..n /\ n - (n - k + 1) + 1 = k
      BY <1>1, <1>3
    <2>2. w[n - k + 1] = q[k]
      BY <1>2, <2>1
    <2>3. n - k + 1 \in DOMAIN f /\ f[n - k + 1] = k
      BY <1>2, <2>1, <2>2
    <2> QED
      BY <2>3
  <1> HIDE DEF f
  <1>8. Occurrences(w, x) = Occurrences(q, x)
    <2>1. PICK P : P = {i \in DOMAIN w : w[i] = x}
      OBVIOUS
    <2>2. PICK Q : Q = {i \in DOMAIN q : q[i] = x}
      OBVIOUS
    <2>3. f \in [P -> Q] /\ \A k \in Q : \E i \in DOMAIN f : f[i] = k
      BY <1>5, <1>7, <2>1, <2>2
    <2>4. ExistsBijection(P, Q)
      BY <1>6, <2>3, OntoIsBijection
    <2> QED
      BY <1>4, <2>1, <2>2, <2>4, SameOccurrences
  <1> QED
    BY <1>4, <1>8 DEF w

(* The places in Without(q, S) and in q, one to one.                       *)
LEMMA OccurrencesWithout ==
    ASSUME NEW R, NEW q \in Seq(R), NEW S, NEW x
    PROVE  /\ Without(q, S) \in Seq(R)
           /\ Occurrences(Without(q, S), x) = IF x \in S THEN 0 ELSE Occurrences(q, x)
  <1> DEFINE D == {i \in DOMAIN q : q[i] \notin S}
             Rank(i) == Cardinality({j \in D : j <= i})
             K == 1..Cardinality(D)
             at == [k \in K |-> CHOOSE i \in D : Rank(i) = k]
             w == Without(q, S)
             f == [k \in {i \in DOMAIN w : w[i] = x} |-> at[k]]
  <1>1. w \in Seq(R) /\ ToSet(w) = ToSet(q) \ S
    BY WithoutKeeps
  <1>2. CASE x \in S
    <2>1. ~\E k \in DOMAIN w : w[k] = x
      BY <1>1, <1>2, SetOfSeq
    <2>2. Occurrences(w, x) \in Nat /\ ~(Occurrences(w, x) > 0)
      BY <1>1, <2>1, OccurrencesType
    <2> QED
      BY <1>1, <1>2, <2>2
  <1>3. CASE x \notin S
    <2>1. DOMAIN q = 1..Len(q) /\ Len(q) \in Nat
      OBVIOUS
    <2>2. D \in SUBSET (1..Len(q))
      BY <2>1
    <2>3. /\ \A i \in D : Rank(i) \in K
          /\ \A i, j \in D : Rank(i) = Rank(j) => i = j
          /\ \A k \in K : \E i \in D : Rank(i) = k
      <3> HIDE DEF D
      <3> QED
        BY <2>1, <2>2, RanksBijective
    <2>4. w = [k \in K |-> q[CHOOSE i \in D : Rank(i) = k]]
      BY DEF Without
    <2>5. D \subseteq DOMAIN q /\ \A i \in DOMAIN q : q[i] = x => i \in D
      BY <1>3
    <2> HIDE DEF w, D, Rank
    <2>6. \A k \in K : at[k] \in D /\ Rank(at[k]) = k /\ w[k] = q[at[k]]
      BY <2>3, <2>4
    <2>7. DOMAIN w = K
      BY <2>4
    <2> HIDE DEF at, K
    <2>8. \A i \in D : at[Rank(i)] = i
      BY <2>3, <2>6
    <2>9. f \in [{i \in DOMAIN w : w[i] = x} -> {i \in DOMAIN q : q[i] = x}]
      BY <2>5, <2>6, <2>7
    <2>10. \A i, j \in DOMAIN f : f[i] = f[j] => i = j
      BY <2>6, <2>7
    <2>11. \A k \in {m \in DOMAIN q : q[m] = x} : \E i \in DOMAIN f : f[i] = k
      <3> TAKE k \in {m \in DOMAIN q : q[m] = x}
      <3>1. k \in D /\ Rank(k) \in K /\ at[Rank(k)] = k
        BY <2>3, <2>5, <2>8
      <3>2. w[Rank(k)] = x
        BY <2>6, <3>1
      <3>3. Rank(k) \in DOMAIN f /\ f[Rank(k)] = k
        BY <2>7, <3>1, <3>2
      <3> QED
        BY <3>3
    <2> HIDE DEF f
    <2>12. Occurrences(w, x) = Occurrences(q, x)
      <3>1. PICK P : P = {i \in DOMAIN w : w[i] = x}
        OBVIOUS
      <3>2. PICK Q : Q = {i \in DOMAIN q : q[i] = x}
        OBVIOUS
      <3>3. f \in [P -> Q] /\ \A k \in Q : \E i \in DOMAIN f : f[i] = k
        BY <2>9, <2>11, <3>1, <3>2
      <3>4. ExistsBijection(P, Q)
        BY <2>10, <3>3, OntoIsBijection
      <3> QED
        BY <1>1, <3>1, <3>2, <3>4, SameOccurrences
    <2> QED
      BY <1>1, <1>3, <2>12 DEF w
  <1> QED
    BY <1>2, <1>3
=============================================================================
