------------------------ MODULE LaunchedLayersProof ------------------------
(***************************************************************************)
(* Proofs about LaunchedLayers, for any number of layers, of nodes and of  *)
(* joins and any launch arguments: what a node builds, and that launch     *)
(* arguments which divide the layers make a pipeline that passes each      *)
(* layer once and in order.                                                *)
(*                                                                         *)
(* Nothing in the code compares two ranges.  The order is that of the      *)
(* start layers alone (utils.py:175), so the work is to show that ranges   *)
(* that are disjoint neither overlap nor leave a gap in that order, and    *)
(* that the layers then follow from node to node, by an induction along    *)
(* the list.                                                               *)
(***************************************************************************)
EXTENDS LaunchedLayers, PipelineTopologyProof, QueueLemmas

IsRange(range) == range.start \in Int /\ range.end \in Int

(* What a node builds is an interval, and what its arguments mean if they  *)
(* mean anything.                                                          *)
LEMMA BuiltIsMeant ==
    ASSUME NEW range, IsRange(range)
    PROVE  /\ BuiltRange(range).start \in Nat /\ BuiltRange(range).end \in Nat
           /\ BuiltRange(range).start < BuiltRange(range).end
           /\ BuiltRange(range).end <= NumHiddenLayers
           /\ Built(range) = IF Meant(range) = {} THEN Layers ELSE Meant(range)
           /\ Meant(range) # {} => 
                 BuiltRange(range).start =
                     IF range.start < 0 THEN 0 ELSE range.start
  <1> DEFINE first == IF range.start < 0 THEN 0 ELSE range.start
             last == IF range.end = ToEnd \/ range.end > NumHiddenLayers
                     THEN NumHiddenLayers ELSE range.end
  <1>1. /\ first \in Nat /\ last \in Int /\ last <= NumHiddenLayers
        /\ NumHiddenLayers \in Nat \ {0}
    BY NumHiddenLayersAssumption DEF IsRange
  <1>2. BuiltRange(range) = IF first >= last THEN [start |-> 0, end |-> NumHiddenLayers]
                            ELSE [start |-> first, end |-> last]
    BY DEF BuiltRange, PPIndices
  <1>3. \A l \in Layers : l \in Meant(range) <=> first <= l /\ l < last
    <2> SUFFICES ASSUME NEW l \in Layers
                 PROVE  l \in Meant(range) <=> first <= l /\ l < last
      OBVIOUS
    <2>1. l \in Nat /\ l < NumHiddenLayers
      BY NumHiddenLayersAssumption DEF Layers
    <2> QED
      BY <2>1, NumHiddenLayersAssumption DEF Meant, IsRange, ToEnd
  <1>4. Meant(range) \subseteq Layers
    BY DEF Meant
  <1>5. \A l : l \in Layers <=> l \in Nat /\ l < NumHiddenLayers
    BY NumHiddenLayersAssumption DEF Layers
  <1> HIDE DEF first, last
  <1>6. CASE first >= last
    <2>1. BuiltRange(range).start = 0 /\ BuiltRange(range).end = NumHiddenLayers
      BY <1>2, <1>6
    <2>2. Meant(range) = {}
      BY <1>1, <1>3, <1>4, <1>5, <1>6
    <2>3. Built(range) = Layers
      BY <2>1 DEF Built, Layers
    <2> QED
      BY <1>1, <2>1, <2>2, <2>3
  <1>7. CASE first < last
    <2>1. BuiltRange(range).start = first /\ BuiltRange(range).end = last
      BY <1>1, <1>2, <1>7
    <2>2. first \in Layers /\ first \in Meant(range)
      BY <1>1, <1>3, <1>5, <1>7
    <2>3. \A l : l \in Built(range) <=> l \in Nat /\ first <= l /\ l < last
      BY <1>1, <2>1 DEF Built
    <2>4. \A l : l \in Built(range) <=> l \in Meant(range)
      BY <1>1, <1>3, <1>4, <1>5, <2>3
    <2> QED
      BY <1>1, <1>7, <2>1, <2>2, <2>4 DEF first
  <1> QED
    BY <1>1, <1>6, <1>7

(* The launch arguments of the k-th server.                                *)
At(k) == LaunchOf(ServerList(node_info)[k])

LEMMA ListedLaunch ==
    ASSUME TopologyInv
    PROVE  LET n == Len(node_pool)
           IN  /\ n \in Nat \ {0} /\ DOMAIN node_pool = 1..n
               /\ DOMAIN ServerList(node_info) = 1..n
               /\ Len(ServerList(node_info)) = n
               /\ \A i \in 1..n : IsRange(node_pool[i])
               /\ \A k \in 1..n : /\ PositionOf(node_info, k) \in 1..n
                                  /\ At(k) = node_pool[PositionOf(node_info, k)]
               /\ \A i \in 1..n : \E k \in 1..n : PositionOf(node_info, k) = i
               /\ \A k, m \in 1..n :
                     PositionOf(node_info, k) = PositionOf(node_info, m) => k = m
               /\ \A k, m \in 1..n : k < m => At(k).start <= At(m).start
  <1> DEFINE n == Len(node_pool)
  <1>1. /\ n \in Nat \ {0} /\ DOMAIN node_pool = 1..n /\ DOMAIN node_info = 1..n
        /\ Len(node_info) = n
        /\ node_info \in Seq(InfoEntry)
        /\ \A i \in 1..n : node_pool[i] \in PoolEntry
        /\ \A i \in 1..n : /\ node_pool[i].ip = node_info[i].ip
                           /\ node_pool[i].start = node_info[i].start
        /\ \A i, j \in 1..n : node_info[i].ip = node_info[j].ip => i = j
    BY DEF TopologyInv, TopologyTypeOK, StoresAgree
  <1>2. \A i \in 1..n : IsRange(node_pool[i])
    BY <1>1, LayersAssumption DEF PoolEntry, IsRange
  <1>3. DOMAIN ServerList(node_info) = 1..n /\ Len(ServerList(node_info)) = n
    BY <1>1, ServerListType
  <1> HIDE DEF n
  <1>4. \A k \in 1..n : /\ PositionOf(node_info, k) \in 1..n
                        /\ Rank(node_info, PositionOf(node_info, k)) = k
                        /\ ServerList(node_info)[k] =
                             node_info[PositionOf(node_info, k)].ip
    BY <1>1, AtRank
  <1>5. ASSUME NEW k \in 1..n PROVE At(k) = node_pool[PositionOf(node_info, k)]
    <2> DEFINE p == PositionOf(node_info, k)
    <2>1. p \in 1..n /\ node_pool[p].ip = ServerList(node_info)[k]
      BY <1>1, <1>4
    <2>2. \A i \in DOMAIN node_pool :
             node_pool[i].ip = ServerList(node_info)[k] <=> i = p
      BY <1>1, <2>1
    <2> HIDE DEF p
    <2>3. (CHOOSE i \in DOMAIN node_pool :
              node_pool[i].ip = ServerList(node_info)[k]) = p
      BY <1>1, <2>1, <2>2
    <2> QED
      BY <2>3 DEF At, LaunchOf, p
  <1>6. \A i \in 1..n : \E k \in 1..n : PositionOf(node_info, k) = i
    <2> TAKE i \in 1..n
    <2>1. /\ Rank(node_info, i) \in 1..n
          /\ PositionOf(node_info, Rank(node_info, i)) = i
      BY <1>1, AtOfRank
    <2> QED
      BY <2>1
  <1>7. ASSUME NEW k \in 1..n, NEW m \in 1..n, k < m
        PROVE  At(k).start <= At(m).start
    <2>1. Precedes(node_info, PositionOf(node_info, k), PositionOf(node_info, m))
      BY <1>1, <1>7, ServerListAscends
    <2>2. node_info[PositionOf(node_info, k)].start
             <= node_info[PositionOf(node_info, m)].start
      <3>1. PICK i \in 1..n, j \in 1..n : /\ i = PositionOf(node_info, k)
                                          /\ j = PositionOf(node_info, m)
        BY <1>4
      <3>2. node_info[i].start \in Int /\ node_info[j].start \in Int
        BY <1>1, InfoShape
      <3>3. Precedes(node_info, i, j)
        BY <2>1, <3>1
      <3> QED
        BY <3>1, <3>2, <3>3 DEF Precedes
    <2> QED
      BY <1>1, <1>4, <1>5, <2>2
  <1> QED
    BY <1>1, <1>2, <1>3, <1>4, <1>5, <1>6, <1>7 DEF n

LEMMA EmptyTakesAll == TopologyInv => EmptyRangeTakesAll
    BY BuiltIsMeant, ListedLaunch DEF EmptyRangeTakesAll

(* A node of the pipeline builds what its launch arguments mean, or, if    *)
(* they mean no layer, the whole model, for any arguments and any number   *)
(* of layers: what get_molink_pp_indices cuts off (parallel_state.py:126)  *)
(* was meant by nobody.                                                    *)
THEOREM TakesAllIfEmpty == TopologySpec => []EmptyRangeTakesAll
    BY TopologyInvariant, EmptyTakesAll, PTL

-----------------------------------------------------------------------------
(* The layers each server of the list begins with and ends before.         *)
From(k) == BuiltRange(At(k)).start
Upto(k) == BuiltRange(At(k)).end

(* If the ranges divide the layers, each server takes up where the one     *)
(* before it in the list ends.                                             *)
LEMMA RangesJoinUp ==
    ASSUME TopologyInv, Partitions
    PROVE  LET n == Len(node_pool)
           IN  /\ \A k \in 1..n : /\ From(k) \in Nat /\ Upto(k) \in Nat
                                  /\ From(k) < Upto(k) /\ Upto(k) <= NumHiddenLayers
               /\ From(1) = 0 /\ Upto(n) = NumHiddenLayers
               /\ \A k \in 1..(n - 1) : From(k + 1) = Upto(k)
  <1> DEFINE n == Len(node_pool)
             D == 1..n
  <1>1. /\ n \in Nat \ {0} /\ DOMAIN node_pool = D
        /\ \A i \in D : IsRange(node_pool[i])
        /\ \A k \in D : /\ PositionOf(node_info, k) \in D
                        /\ At(k) = node_pool[PositionOf(node_info, k)]
        /\ \A i \in D : \E k \in D : PositionOf(node_info, k) = i
        /\ \A k, m \in D :
              PositionOf(node_info, k) = PositionOf(node_info, m) => k = m
        /\ \A k, m \in D : k < m => At(k).start <= At(m).start
    BY ListedLaunch
  <1> HIDE DEF n
  <1>2. \A k \in D : k \in Nat /\ 1 <= k /\ k <= n
    BY <1>1
  <1>3. 1 \in D /\ n \in D
    BY <1>1
  <1>4. \A k \in 1..(n - 1) : k \in D /\ k + 1 \in D /\ k < k + 1
    BY <1>1
  <1> HIDE DEF D
(* Partitions, told of the list.                                           *)
  <1>5. /\ \A k \in D : Meant(At(k)) # {}
        /\ \A k, m \in D : k # m => Meant(At(k)) \cap Meant(At(m)) = {}
        /\ \A l \in Layers : \E k \in D : l \in Meant(At(k))
    <2>1. \A k \in D : Meant(At(k)) # {}
      BY <1>1 DEF Partitions
    <2>2. \A k, m \in D : k # m => Meant(At(k)) \cap Meant(At(m)) = {}
      BY <1>1 DEF Partitions
    <2>3. ASSUME NEW l \in Layers PROVE \E k \in D : l \in Meant(At(k))
      <3>1. UNION {Meant(node_pool[i]) : i \in DOMAIN node_pool} = Layers
        BY DEF Partitions
      <3>2. PICK s \in {Meant(node_pool[i]) : i \in DOMAIN node_pool} : l \in s
        BY <3>1
      <3>3. PICK i \in DOMAIN node_pool : s = Meant(node_pool[i])
        BY <3>2
      <3>4. DOMAIN node_pool = D
        BY <1>1
      <3>5. PICK k \in D : PositionOf(node_info, k) = i
        BY <1>1, <3>3, <3>4
      <3>6. At(k) = node_pool[i]
        BY <1>1, <3>5
      <3> QED
        BY <3>2, <3>3, <3>5, <3>6
    <2> QED
      BY <2>1, <2>2, <2>3
  <1>6. \A k \in D : /\ From(k) \in Nat /\ Upto(k) \in Nat
                     /\ From(k) < Upto(k) /\ Upto(k) <= NumHiddenLayers
                     /\ Meant(At(k)) = From(k)..(Upto(k) - 1)
                     /\ From(k) = IF At(k).start < 0 THEN 0 ELSE At(k).start
                     /\ At(k).start \in Int
    <2> TAKE k \in D
    <2>1. IsRange(At(k)) /\ Meant(At(k)) # {}
      BY <1>1, <1>5
    <2>2. Built(At(k)) = From(k)..(Upto(k) - 1)
      BY DEF Built, From, Upto
    <2> QED
      BY <2>1, <2>2, BuiltIsMeant DEF From, Upto, IsRange
  <1>7. \A l : l \in Layers <=> l \in Nat /\ l < NumHiddenLayers
    BY NumHiddenLayersAssumption DEF Layers
  <1>8. \A l : \A k \in D :
           l \in Meant(At(k)) <=> l \in Nat /\ From(k) <= l /\ l < Upto(k)
    BY <1>6
(* Ranges in the order of the list do not overlap.                         *)
  <1>9. ASSUME NEW k \in D, NEW m \in D, k < m PROVE Upto(k) <= From(m)
    <2>1. From(k) <= From(m)
      <3>1. At(k).start <= At(m).start
        BY <1>1, <1>9
      <3>2. At(k).start \in Int /\ At(m).start \in Int
        BY <1>6
      <3>3. /\ From(k) = IF At(k).start < 0 THEN 0 ELSE At(k).start
            /\ From(m) = IF At(m).start < 0 THEN 0 ELSE At(m).start
        BY <1>6
      <3> QED
        BY <3>1, <3>2, <3>3
    <2>2. k # m
      BY <1>2, <1>9
    <2>3. From(m) \in Meant(At(m))
      BY <1>6, <1>8
    <2>4. From(m) \notin Meant(At(k))
      BY <1>5, <2>2, <2>3
    <2> QED
      BY <1>6, <1>8, <2>1, <2>4
(* Nor do they leave a gap.                                                *)
  <1>10. ASSUME NEW l \in Nat, l < NumHiddenLayers
         PROVE  \E k \in D : From(k) <= l /\ l < Upto(k)
    BY <1>5, <1>7, <1>8, <1>10
  <1>11. From(1) = 0
    <2>1. 0 \in Nat /\ 0 < NumHiddenLayers
      BY NumHiddenLayersAssumption
    <2>2. PICK k \in D : From(k) <= 0
      BY <1>10, <2>1
    <2>3. CASE k = 1
      BY <1>6, <2>2, <2>3
    <2>4. CASE k # 1
      <3>1. Upto(1) <= From(k)
        BY <1>2, <1>3, <1>9, <2>4
      <3> QED
        BY <1>3, <1>6, <2>2, <3>1
    <2> QED
      BY <2>3, <2>4
  <1>12. Upto(n) = NumHiddenLayers
    <2> SUFFICES ASSUME Upto(n) < NumHiddenLayers PROVE FALSE
      BY <1>3, <1>6, NumHiddenLayersAssumption
    <2>1. PICK k \in D : From(k) <= Upto(n) /\ Upto(n) < Upto(k)
      BY <1>3, <1>6, <1>10
    <2>2. k # n /\ k < n
      BY <1>2, <1>3, <1>6, <2>1
    <2>3. Upto(k) <= From(n)
      BY <1>3, <1>9, <2>2
    <2> QED
      BY <1>3, <1>6, <2>1, <2>3
  <1>13. ASSUME NEW k \in 1..(n - 1) PROVE From(k + 1) = Upto(k)
    <2>1. k \in D /\ k + 1 \in D /\ Upto(k) <= From(k + 1)
      BY <1>4, <1>9
    <2> SUFFICES ASSUME Upto(k) < From(k + 1) PROVE FALSE
      BY <1>6, <2>1
    <2>2. Upto(k) < NumHiddenLayers
      BY <1>6, <2>1, NumHiddenLayersAssumption
    <2>3. PICK m \in D : From(m) <= Upto(k) /\ Upto(k) < Upto(m)
      BY <1>6, <1>10, <2>1, <2>2
    <2>4. CASE m < k
      <3>1. Upto(m) <= From(k)
        BY <1>9, <2>1, <2>4
      <3> QED
        BY <1>6, <2>1, <2>3, <3>1
    <2>5. CASE m = k
      BY <1>6, <2>3, <2>5
    <2>6. CASE m = k + 1
      BY <1>6, <2>1, <2>3, <2>6
    <2>7. CASE m > k + 1
      <3>1. Upto(k + 1) <= From(m)
        BY <1>2, <1>9, <2>1, <2>7
      <3> QED
        BY <1>6, <2>1, <2>3, <3>1
    <2> QED
      BY <1>2, <2>1, <2>4, <2>5, <2>6, <2>7
  <1> QED
    BY <1>6, <1>11, <1>12, <1>13 DEF D, n

-----------------------------------------------------------------------------
(* Induction up to n, for a set.                                           *)
LEMMA ReachesAll ==
    ASSUME NEW n \in Nat, NEW S, 0 \in S,
           \A k \in 1..n : k - 1 \in S => k \in S
    PROVE  \A k \in 0..n : k \in S
  <1> DEFINE D == {k \in 1..n : k \notin S}
             Below(i) == {j \in D : j <= i}
  <1>1. D \in SUBSET (1..n)
    OBVIOUS
  <1>2. \A k \in 0..n : k = 0 \/ k \in 1..n
    OBVIOUS
  <1>3. \A k \in D : k \in 1..n /\ k \notin S
    OBVIOUS
  <1>4. \A k \in 1..n : k \notin S => k \in D
    OBVIOUS
  <1>5. IsFiniteSet(D) /\ Cardinality(D) \in Nat
    <2>1. IsFiniteSet(1..n)
      BY FS_Interval
    <2> QED
      BY <1>1, <2>1, FS_Subset, FS_CardinalityType
  <1>6. SUFFICES ASSUME D # {} PROVE FALSE
    BY <1>2, <1>4
  <1>7. PICK i \in D : Cardinality(Below(i)) = 1
    <2>1. \A k \in 1..Cardinality(D) : \E i \in D : Cardinality(Below(i)) = k
      <3> HIDE DEF D
      <3> QED
        BY <1>1, RanksBijective
    <2>2. Cardinality(D) # 0
      BY <1>5, <1>6, FS_EmptySet
    <2>3. 1 \in 1..Cardinality(D)
      BY <1>5, <2>2
    <2> QED
      BY <2>1, <2>3
  <1> HIDE DEF D
  <1>8. \A j \in D : j <= i => j = i
    <2>1. IsFiniteSet(Below(i))
      <3>1. Below(i) \in SUBSET D
        OBVIOUS
      <3> QED
        BY <1>5, <3>1, FS_Subset
    <2>2. PICK x : Below(i) = {x}
      BY <1>7, <2>1, FS_Singleton
    <2>3. i \in Below(i)
      BY <1>3
    <2> QED
      BY <2>2, <2>3
  <1>9. i - 1 \in S
    <2>1. i \in 1..n /\ i - 1 \in 0..n /\ i - 1 <= i /\ i - 1 # i
      BY <1>3
    <2>2. i - 1 \notin D
      BY <1>8, <2>1
    <2> QED
      BY <1>2, <1>4, <2>1, <2>2
  <1> QED
    BY <1>3, <1>9

(* The layers below a bound, in order, and how they continue.              *)
FirstLayers(u) == [j \in 1..u |-> j - 1]

LEMMA FirstLayersSeq ==
    ASSUME NEW u \in Nat
    PROVE  /\ FirstLayers(u) \in Seq(Int) /\ Len(FirstLayers(u)) = u
           /\ \A j \in 1..u : FirstLayers(u)[j] = j - 1
    BY DEF FirstLayers

LEMMA LayersContinue ==
    ASSUME NEW u \in Nat, NEW v \in Nat, u <= v
    PROVE  FirstLayers(u) \o [j \in 1..(v - u) |-> u + j - 1] = FirstLayers(v)
  <1> DEFINE s == FirstLayers(u)
             t == [j \in 1..(v - u) |-> u + j - 1]
  <1>1. v - u \in Nat
    OBVIOUS
  <1>2. s \in Seq(Int) /\ Len(s) = u /\ \A j \in 1..u : s[j] = j - 1
    BY FirstLayersSeq
  <1>3. t \in Seq(Int) /\ Len(t) = v - u /\ \A j \in 1..(v - u) : t[j] = u + j - 1
    BY <1>1
  <1> HIDE DEF s, t
  <1>4. /\ s \o t \in Seq(Int) /\ Len(s \o t) = v
        /\ \A j \in 1..v : (s \o t)[j] = IF j <= u THEN s[j] ELSE t[j - u]
    <2>1. /\ s \o t \in Seq(Int) /\ Len(s \o t) = Len(s) + Len(t)
          /\ \A j \in 1..(Len(s) + Len(t)) :
                (s \o t)[j] = IF j <= Len(s) THEN s[j] ELSE t[j - Len(s)]
      BY <1>2, <1>3, ConcatProperties
    <2>2. Len(s) + Len(t) = v
      BY <1>1, <1>2, <1>3
    <2> QED
      BY <1>2, <2>1, <2>2
  <1>5. \A j \in 1..v : (s \o t)[j] = j - 1
    <2> TAKE j \in 1..v
    <2>1. CASE j <= u
      BY <1>2, <1>4, <2>1
    <2>2. CASE j > u
      <3>1. j - u \in 1..(v - u)
        BY <2>2
      <3>2. (s \o t)[j] = t[j - u]
        BY <1>4, <2>2
      <3>3. t[j - u] = u + (j - u) - 1
        BY <1>3, <3>1
      <3>4. u + (j - u) - 1 = j - 1
        OBVIOUS
      <3> QED
        BY <3>2, <3>3, <3>4, Zenon
    <2>3. j <= u \/ j > u
      OBVIOUS
    <2> QED
      BY <2>1, <2>2, <2>3, Zenon
  <1>6. /\ FirstLayers(v) \in Seq(Int) /\ Len(FirstLayers(v)) = v
        /\ \A j \in 1..v : FirstLayers(v)[j] = j - 1
    BY FirstLayersSeq
  <1>7. s \o t = FirstLayers(v)
    <2> DEFINE c == s \o t
               f == FirstLayers(v)
    <2>1. /\ c \in Seq(Int) /\ f \in Seq(Int) /\ Len(c) = Len(f)
          /\ \A j \in 1..Len(c) : c[j] = f[j]
      BY <1>4, <1>5, <1>6
    <2> HIDE DEF c, f
    <2>2. c = f
      BY <2>1, SeqEqual
    <2> QED
      BY <2>2 DEF c, f
  <1> QED
    BY <1>7 DEF s, t

(* What a batch passes, if the ranges divide the layers.                   *)
LEMMA PassesAllLayers ==
    ASSUME TopologyInv, Partitions
    PROVE  Passed = FirstLayers(NumHiddenLayers)
  <1> DEFINE n == Len(node_pool)
             list == ServerList(node_info)
             Run(s) == LET range == BuiltRange(LaunchOf(s))
                       IN  [k \in 1..(range.end - range.start) |->
                               range.start + k - 1]
             Step(g) == [k \in 0..n |->
                            IF k = 0 THEN <<>> ELSE g[k - 1] \o Run(list[k])]
             U(k) == IF k = 0 THEN 0 ELSE Upto(k)
             h == [k \in 0..n |-> FirstLayers(U(k))]
             upto == CHOOSE g : g = Step(g)
  <1>1. n \in Nat \ {0} /\ Len(list) = n
    BY ListedLaunch
  <1>2. /\ \A k \in 1..n : /\ From(k) \in Nat /\ Upto(k) \in Nat
                           /\ From(k) < Upto(k) /\ Upto(k) <= NumHiddenLayers
        /\ From(1) = 0 /\ Upto(n) = NumHiddenLayers
        /\ \A k \in 1..(n - 1) : From(k + 1) = Upto(k)
    BY RangesJoinUp
  <1>3. Passed = upto[n]
    BY <1>1 DEF Passed
  <1>4. \A k \in 1..n :
           Run(list[k]) = [j \in 1..(Upto(k) - From(k)) |-> From(k) + j - 1]
    BY DEF From, Upto, At
  <1> HIDE DEF n, list, Run
  <1>5. \A k \in 1..n : U(k) = Upto(k) /\ U(k - 1) = From(k) /\ U(k - 1) \in Nat
    <2> TAKE k \in 1..n
    <2>1. CASE k = 1
      BY <1>1, <1>2, <2>1
    <2>2. CASE k # 1
      <3>1. k - 1 \in 1..(n - 1) /\ k - 1 \in 1..n /\ k - 1 # 0 /\ (k - 1) + 1 = k
        BY <1>1, <2>2
      <3> QED
        BY <1>1, <1>2, <3>1
    <2> QED
      BY <2>1, <2>2
  <1>6. \A k \in 1..n : FirstLayers(U(k - 1)) \o Run(list[k]) = FirstLayers(U(k))
    <2> TAKE k \in 1..n
    <2>1. /\ U(k) = Upto(k) /\ U(k - 1) = From(k)
          /\ From(k) \in Nat /\ Upto(k) \in Nat /\ From(k) <= Upto(k)
      BY <1>2, <1>5
    <2>2. FirstLayers(From(k))
             \o [j \in 1..(Upto(k) - From(k)) |-> From(k) + j - 1]
               = FirstLayers(Upto(k))
      BY <2>1, LayersContinue
    <2> QED
      BY <1>4, <2>1, <2>2
  <1>7. FirstLayers(U(0)) = <<>>
    BY DEF FirstLayers
  <1>8. U(n) = NumHiddenLayers
    BY <1>1, <1>2
  <1> HIDE DEF U
  <1>9. \A k \in 0..n : k = 0 \/ (k \in 1..n /\ k # 0 /\ k - 1 \in 0..n)
    BY <1>1
  <1>10. h = Step(h)
    <2>1. ASSUME NEW k \in 0..n
          PROVE  FirstLayers(U(k)) =
                     IF k = 0 THEN <<>> ELSE h[k - 1] \o Run(list[k])
      <3>1. CASE k = 0
        BY <1>7, <3>1
      <3>2. CASE k # 0
        <4>1. k \in 1..n /\ k - 1 \in 0..n
          BY <1>9, <3>2
        <4>2. h[k - 1] = FirstLayers(U(k - 1))
          BY <4>1
        <4> QED
          BY <1>6, <3>2, <4>1, <4>2
      <3> QED
        BY <3>1, <3>2
    <2> HIDE DEF h
    <2>2. Step(h) = [k \in 0..n |-> FirstLayers(U(k))]
      BY <2>1
    <2> QED
      BY <2>2 DEF h
  <1>11. upto = Step(upto)
    <2> HIDE DEF h
    <2>1. \E g : g = Step(g)
      BY <1>10
    <2> QED
      BY <2>1
  <1>12. \A k \in 0..n :
            upto[k] = IF k = 0 THEN <<>> ELSE upto[k - 1] \o Run(list[k])
    <2> HIDE DEF upto
    <2> QED
      BY <1>11
  <1>13. \A k \in 0..n : h[k] = FirstLayers(U(k))
    OBVIOUS
  <1> HIDE DEF upto, h, Step
  <1>14. \A k \in 0..n : upto[k] = h[k]
    <2> DEFINE S == {k \in 0..n : upto[k] = h[k]}
    <2>1. 0 \in 0..n /\ n \in Nat
      BY <1>1
    <2>2. 0 \in S
      BY <1>7, <1>12, <1>13, <2>1
    <2>3. ASSUME NEW k \in 1..n, k - 1 \in S PROVE k \in S
      <3>1. k \in 0..n /\ k # 0 /\ k - 1 \in 0..n
        BY <1>1
      <3>2. upto[k - 1] = FirstLayers(U(k - 1))
        BY <1>13, <2>3, <3>1
      <3>3. upto[k] = FirstLayers(U(k))
        BY <1>6, <1>12, <3>1, <3>2
      <3> QED
        BY <1>13, <3>1, <3>3
    <2>4. \A k \in S : upto[k] = h[k]
      OBVIOUS
    <2> HIDE DEF S
    <2>5. \A k \in 0..n : k \in S
      BY <2>1, <2>2, <2>3, ReachesAll
    <2> QED
      BY <2>4, <2>5
  <1>15. n \in 0..n
    BY <1>1
  <1> QED
    BY <1>3, <1>8, <1>13, <1>14, <1>15

LEMMA EndsMarked ==
    ASSUME TopologyInv, Partitions,
           \A i \in DOMAIN node_pool : node_pool[i].start >= 0,
           \E i \in DOMAIN node_pool : node_pool[i].end = ToEnd
    PROVE  EndsAreMarked
  <1> DEFINE n == Len(node_pool)
  <1>1. /\ n \in Nat \ {0} /\ DOMAIN node_pool = 1..n
        /\ DOMAIN ServerList(node_info) = 1..n /\ Len(ServerList(node_info)) = n
        /\ \A i \in 1..n : IsRange(node_pool[i])
        /\ \A k \in 1..n : /\ PositionOf(node_info, k) \in 1..n
                           /\ At(k) = node_pool[PositionOf(node_info, k)]
        /\ \A i \in 1..n : \E k \in 1..n : PositionOf(node_info, k) = i
    BY ListedLaunch
  <1>2. /\ \A k \in 1..n : /\ From(k) \in Nat /\ Upto(k) \in Nat
                           /\ From(k) < Upto(k) /\ Upto(k) <= NumHiddenLayers
        /\ From(1) = 0 /\ Upto(n) = NumHiddenLayers
        /\ \A k \in 1..(n - 1) : From(k + 1) = Upto(k)
    BY RangesJoinUp
  <1> HIDE DEF n
  <1>3. ASSUME NEW k \in 1..n PROVE From(k) = At(k).start
    <2>1. PICK i \in 1..n : At(k) = node_pool[i]
      BY <1>1
    <2>2. IsRange(At(k))
      BY <1>1, <2>1
    <2>3. ~(At(k).start < 0)
      <3>1. i \in DOMAIN node_pool
        BY <1>1
      <3>2. At(k).start >= 0
        BY <2>1, <3>1
      <3> QED
        BY <2>2, <3>2 DEF IsRange
    <2>4. Meant(At(k)) # {}
      BY <1>1, <2>1 DEF Partitions
    <2> QED
      BY <2>2, <2>3, <2>4, BuiltIsMeant DEF From
  <1>4. ASSUME NEW k \in 1..n PROVE At(k).end = ToEnd => k = n
    <2> SUFFICES ASSUME At(k).end = ToEnd, k # n PROVE FALSE
      OBVIOUS
    <2>1. Upto(k) = NumHiddenLayers
      <3>1. IsRange(At(k))
        BY <1>1
      <3>2. BuiltRange(At(k)).end = NumHiddenLayers
        BY <3>1 DEF BuiltRange, PPIndices
      <3> QED
        BY <3>2 DEF Upto
    <2>2. k \in 1..(n - 1) /\ k + 1 \in 1..n
      BY <1>1, <1>4
    <2> QED
      BY <1>2, <2>1, <2>2, NumHiddenLayersAssumption
  <1>5. At(n).end = ToEnd
    <2>1. PICK i \in 1..n : node_pool[i].end = ToEnd
      BY <1>1
    <2>2. PICK k \in 1..n : PositionOf(node_info, k) = i
      BY <1>1, <2>1
    <2> QED
      BY <1>1, <1>4, <2>1, <2>2
  <1>6. ASSUME NEW k \in 1..n, k # 1 PROVE From(k) # 0
    <2>1. k - 1 \in 1..(n - 1) /\ k - 1 \in 1..n /\ (k - 1) + 1 = k
      BY <1>1, <1>6
    <2>2. From(k) = Upto(k - 1) /\ From(k - 1) < Upto(k - 1)
          /\ From(k - 1) \in Nat /\ Upto(k - 1) \in Nat
      BY <1>2, <2>1
    <2> QED
      BY <2>2
  <1>7. \A k \in 1..n : /\ IsFirstStage(At(k)) <=> k = 1
                        /\ IsLastStage(At(k)) <=> k = n
    <2> TAKE k \in 1..n
    <2>1. IsFirstStage(At(k)) <=> k = 1
      BY <1>2, <1>3, <1>6 DEF IsFirstStage
    <2>2. IsLastStage(At(k)) <=> k = n
      BY <1>4, <1>5 DEF IsLastStage
    <2> QED
      BY <2>1, <2>2
  <1> QED
    BY <1>1, <1>7 DEF EndsAreMarked, At

LEMMA LayersInOrder == TopologyInv => EveryLayerInOrder
  <1> SUFFICES ASSUME TopologyInv, Partitions
               PROVE  /\ Passed = [k \in 1..NumHiddenLayers |-> k - 1]
                      /\ \/ \E i \in DOMAIN node_pool : node_pool[i].start < 0
                         \/ \A i \in DOMAIN node_pool : node_pool[i].end # ToEnd
                         \/ EndsAreMarked
    BY DEF EveryLayerInOrder
  <1>1. Passed = [k \in 1..NumHiddenLayers |-> k - 1]
    BY PassesAllLayers DEF FirstLayers
  <1>2. \A i \in DOMAIN node_pool : node_pool[i].start \in Int
    BY ListedLaunch DEF IsRange
  <1>3. (\A i \in DOMAIN node_pool : ~(node_pool[i].start < 0))
          => \A i \in DOMAIN node_pool : node_pool[i].start >= 0
    BY <1>2
  <1> QED
    BY <1>1, <1>3, EndsMarked

(* Launch arguments that divide the layers make a pipeline that passes each*)
(* layer once and in order, in whatever order and however often the nodes  *)
(* joined, and whose first and last stage are the ones marked as such, if  *)
(* no range starts below 0 and one is open-ended (executor.py:417, parallel*)
(* _state.py:95).                                                          *)
THEOREM LayersKeptInOrder == TopologySpec => []EveryLayerInOrder
    BY TopologyInvariant, LayersInOrder, PTL
=============================================================================
