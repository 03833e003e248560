----------------------- MODULE PipelineTopologyProof -----------------------
(***************************************************************************)
(* Proofs about PipelineTopology, for any set of addresses, any layer      *)
(* bounds and any number of joins.  The rank of a member in its list is a  *)
(* bijection (pigeonhole principle), hence the server list is a sorted      *)
(* permutation of the members.                                             *)
(***************************************************************************)
EXTENDS PipelineTopology, FiniteSetTheorems, SequenceTheorems, TLAPS

Preds(info, i) == {j \in DOMAIN info : Precedes(info, j, i)}

LEMMA InfoShape ==
    ASSUME NEW info \in Seq(InfoEntry)
    PROVE  /\ Len(info) \in Nat
           /\ DOMAIN info = 1..Len(info)
           /\ \A i \in DOMAIN info : /\ info[i].start \in Int
                                     /\ info[i].ip \in Nodes
           /\ IsFiniteSet(DOMAIN info)
           /\ Cardinality(DOMAIN info) = Len(info)
  <1>1. Len(info) \in Nat /\ DOMAIN info = 1..Len(info)
    BY LenProperties
  <1>2. ASSUME NEW i \in DOMAIN info
        PROVE  info[i].start \in Int /\ info[i].ip \in Nodes
    <2>1. info[i] \in InfoEntry
      BY <1>1, ElementOfSeq
    <2> QED
      BY <2>1, LayersAssumption DEF InfoEntry
  <1>3. IsFiniteSet(1..Len(info)) /\ Cardinality(1..Len(info)) = Len(info)
    <2>1. IsFiniteSet(1..Len(info))
      BY <1>1, FS_Interval
    <2>2. Cardinality(1..Len(info))
            = IF 1 > Len(info) THEN 0 ELSE Len(info) - 1 + 1
      BY <1>1, FS_Interval
    <2> QED
      BY <1>1, <2>1, <2>2
  <1> QED
    BY <1>1, <1>2, <1>3

(* Precedes orders the members of a list strictly and totally.             *)
LEMMA PrecedesTotal ==
    ASSUME NEW info \in Seq(InfoEntry),
           NEW i \in DOMAIN info, NEW j \in DOMAIN info
    PROVE  /\ ~Precedes(info, i, i)
           /\ i # j => Precedes(info, i, j) \/ Precedes(info, j, i)
  BY InfoShape DEF Precedes

LEMMA PrecedesTransitive ==
    ASSUME NEW info \in Seq(InfoEntry),
           NEW i \in DOMAIN info, NEW j \in DOMAIN info, NEW k \in DOMAIN info,
           Precedes(info, i, j), Precedes(info, j, k)
    PROVE  Precedes(info, i, k)
  BY InfoShape DEF Precedes

LEMMA PredsFinite ==
    ASSUME NEW info \in Seq(InfoEntry), NEW i \in DOMAIN info
    PROVE  /\ IsFiniteSet(Preds(info, i))
           /\ Rank(info, i) = Cardinality(Preds(info, i)) + 1
           /\ Cardinality(Preds(info, i)) \in Nat
           /\ Cardinality(Preds(info, i)) < Len(info)
  <1>1. DOMAIN info = 1..Len(info) /\ Len(info) \in Nat
    BY InfoShape
  <1>2. IsFiniteSet(DOMAIN info) /\ Cardinality(DOMAIN info) = Len(info)
    BY InfoShape
  <1>3. Preds(info, i) \in SUBSET DOMAIN info
    BY DEF Preds
  <1>4. i \notin Preds(info, i)
    BY PrecedesTotal DEF Preds
  <1>5. /\ IsFiniteSet(Preds(info, i))
        /\ Cardinality(Preds(info, i)) =< Len(info)
        /\ Cardinality(Preds(info, i)) # Len(info)
    BY <1>2, <1>3, <1>4, FS_Subset
  <1>6. Cardinality(Preds(info, i)) \in Nat
    BY <1>5, FS_CardinalityType
  <1>7. Rank(info, i) = Cardinality(Preds(info, i)) + 1
    BY DEF Rank, Preds
  <1> QED
    BY <1>1, <1>5, <1>6, <1>7

(* An earlier member has a smaller rank.                                   *)
LEMMA RankIncreases ==
    ASSUME NEW info \in Seq(InfoEntry),
           NEW i \in DOMAIN info, NEW j \in DOMAIN info, Precedes(info, i, j)
    PROVE  Rank(info, i) < Rank(info, j)
  <1>1. Preds(info, i) \in SUBSET Preds(info, j)
    BY PrecedesTransitive DEF Preds
  <1>2. i \in Preds(info, j) /\ i \notin Preds(info, i)
    BY PrecedesTotal DEF Preds
  <1>3. Cardinality(Preds(info, i)) =< Cardinality(Preds(info, j))
        /\ Cardinality(Preds(info, i)) # Cardinality(Preds(info, j))
    BY <1>1, <1>2, PredsFinite, FS_Subset
  <1> QED
    BY <1>3, PredsFinite

(* Ranks are a bijection between the members and the places of the list.   *)
LEMMA RankBijective ==
    ASSUME NEW info \in Seq(InfoEntry)
    PROVE  /\ \A i \in DOMAIN info : Rank(info, i) \in DOMAIN info
           /\ \A i, j \in DOMAIN info :
                 Rank(info, i) = Rank(info, j) => i = j
           /\ \A k \in DOMAIN info : \E i \in DOMAIN info : Rank(info, i) = k
  <1> DEFINE D == DOMAIN info
             rank == [i \in D |-> Rank(info, i)]
  <1>1. D = 1..Len(info) /\ Len(info) \in Nat
    BY InfoShape
  <1>2. \A i \in D : Rank(info, i) \in D
    BY <1>1, PredsFinite
  <1>3. \A i, j \in D : Rank(info, i) = Rank(info, j) => i = j
    <2> SUFFICES ASSUME NEW i \in D, NEW j \in D, i # j
                 PROVE  Rank(info, i) # Rank(info, j)
      OBVIOUS
    <2>1. Rank(info, i) \in Int /\ Rank(info, j) \in Int
      BY <1>1, <1>2
    <2>2. Rank(info, i) < Rank(info, j) \/ Rank(info, j) < Rank(info, i)
      BY PrecedesTotal, RankIncreases
    <2> QED
      BY <2>1, <2>2
  <1>4. rank \in Injection(D, D)
    BY <1>2, <1>3 DEF Injection, IsInjective
  <1>5. IsFiniteSet(D)
    BY InfoShape
  <1>6. rank \in Surjection(D, D)
    BY <1>4, <1>5, FS_Injection
  <1>7. \A k \in D : \E i \in D : rank[i] = k
    BY <1>6 DEF Surjection
  <1> QED
    BY <1>2, <1>3, <1>7

(* The entry at place k of the list is the one with rank k.                *)
PositionOf(info, k) == CHOOSE i \in DOMAIN info : Rank(info, i) = k

LEMMA AtRank ==
    ASSUME NEW info \in Seq(InfoEntry), NEW k \in DOMAIN info
    PROVE  /\ PositionOf(info, k) \in DOMAIN info
           /\ Rank(info, PositionOf(info, k)) = k
           /\ ServerList(info)[k] = info[PositionOf(info, k)].ip
  <1>1. \E i \in DOMAIN info : Rank(info, i) = k
    BY RankBijective
  <1> QED
    BY <1>1 DEF PositionOf, ServerList

LEMMA AtOfRank ==
    ASSUME NEW info \in Seq(InfoEntry), NEW i \in DOMAIN info
    PROVE  Rank(info, i) \in DOMAIN info /\ PositionOf(info, Rank(info, i)) = i
  <1>1. Rank(info, i) \in DOMAIN info
    BY RankBijective
  <1>2. /\ PositionOf(info, Rank(info, i)) \in DOMAIN info
        /\ Rank(info, PositionOf(info, Rank(info, i))) = Rank(info, i)
    BY <1>1, AtRank
  <1> QED
    BY <1>1, <1>2, RankBijective

(* get_sorted_server_list returns a list of addresses, as long as the dict.*)
LEMMA ServerListType ==
    ASSUME NEW info \in Seq(InfoEntry)
    PROVE  /\ ServerList(info) \in Seq(Nodes)
           /\ Len(ServerList(info)) = Len(info)
           /\ DOMAIN ServerList(info) = DOMAIN info
  <1>1. DOMAIN info = 1..Len(info) /\ Len(info) \in Nat
    BY InfoShape
  <1>2. \A k \in DOMAIN info : ServerList(info)[k] \in Nodes
    BY AtRank, InfoShape
  <1>3. ServerList(info) \in [1..Len(info) -> Nodes]
    BY <1>1, <1>2 DEF ServerList
  <1> QED
    BY <1>1, <1>3

(* The list runs through the start layers in ascending order.              *)
LEMMA ServerListAscends ==
    ASSUME NEW info \in Seq(InfoEntry),
           NEW k \in DOMAIN info, NEW m \in DOMAIN info, k < m
    PROVE  Precedes(info, PositionOf(info, k), PositionOf(info, m))
  <1>1. k \in Int /\ m \in Int
    BY InfoShape
  <1>2. PositionOf(info, k) # PositionOf(info, m)
    BY <1>1, AtRank
  <1>3. ~Precedes(info, PositionOf(info, m), PositionOf(info, k))
    <2> SUFFICES ASSUME Precedes(info, PositionOf(info, m), PositionOf(info, k))
                 PROVE  FALSE
      OBVIOUS
    <2>1. Rank(info, PositionOf(info, m)) < Rank(info, PositionOf(info, k))
      BY AtRank, RankIncreases
    <2> QED
      BY <2>1, <1>1, AtRank
  <1> QED
    BY <1>2, <1>3, AtRank, PrecedesTotal

-----------------------------------------------------------------------------
(* The two stores of the topology stay in step, whoever joins or re-joins. *)
TopologyInv == TopologyTypeOK /\ StoresAgree /\ node_info # <<>>
               /\ node_info[1].ip = HeadNode

LEMMA TopologyInitInv ==
    ASSUME NEW first \in Starts, NEW last \in Ends, TopologyInit(first, last)
    PROVE  TopologyInv
  BY NodesAssumption
     DEF TopologyInit, TopologyInv, TopologyTypeOK, StoresAgree, PoolEntry,
         InfoEntry

LEMMA AddNodeInv ==
    ASSUME TopologyInv, NEW n \in Nodes, NEW first \in Starts,
           NEW last \in Ends, AddNode(n, first, last)
    PROVE  TopologyInv'
  <1> DEFINE pe == [ip |-> n, start |-> first, end |-> last]
             ie == [ip |-> n, start |-> first]
             k == Len(node_info)
  <1>1. pe \in PoolEntry /\ ie \in InfoEntry
    BY DEF PoolEntry, InfoEntry
  <1>2. /\ node_pool \in Seq(PoolEntry) /\ node_info \in Seq(InfoEntry)
        /\ Len(node_pool) = k /\ k \in Nat \ {0}
        /\ DOMAIN node_pool = 1..k /\ DOMAIN node_info = 1..k
        /\ \A i \in 1..k : /\ node_pool[i] \in PoolEntry
                           /\ node_info[i] \in InfoEntry
                           /\ node_pool[i].ip = node_info[i].ip
                           /\ node_pool[i].start = node_info[i].start
        /\ \A i, j \in 1..k : node_info[i].ip = node_info[j].ip => i = j
        /\ node_info[1].ip = HeadNode
    BY DEF TopologyInv, TopologyTypeOK, StoresAgree
  <1>3. CASE n \in Members(node_info)
    <2>1. /\ node_pool' = [i \in 1..k |-> IF node_pool[i].ip = n
                                          THEN pe ELSE node_pool[i]]
          /\ node_info' = [i \in 1..k |-> IF node_info[i].ip = n
                                          THEN ie ELSE node_info[i]]
      BY <1>2, <1>3 DEF AddNode
    <2>2. /\ node_pool' \in [1..k -> PoolEntry]
          /\ node_info' \in [1..k -> InfoEntry]
      BY <1>1, <1>2, <2>1
    <2>3. /\ node_pool' \in Seq(PoolEntry) /\ node_info' \in Seq(InfoEntry)
          /\ Len(node_pool') = k /\ Len(node_info') = k
      BY <1>2, <2>2
    <2>4. \A i \in 1..k : /\ node_info'[i].ip = node_info[i].ip
                          /\ node_pool'[i].ip = node_pool[i].ip
                          /\ node_pool'[i].start = node_info'[i].start
      BY <1>2, <2>1
    <2> QED
      BY <1>2, <2>2, <2>3, <2>4
         DEF TopologyInv, TopologyTypeOK, StoresAgree
  <1>4. CASE n \notin Members(node_info)
    <2>1. /\ node_pool' = Append(node_pool, pe)
          /\ node_info' = Append(node_info, ie)
      BY <1>4 DEF AddNode
    <2>2. /\ node_pool' \in Seq(PoolEntry) /\ node_info' \in Seq(InfoEntry)
          /\ Len(node_pool') = k + 1 /\ Len(node_info') = k + 1
          /\ \A i \in 1..k : /\ node_pool'[i] = node_pool[i]
                             /\ node_info'[i] = node_info[i]
          /\ node_pool'[k + 1] = pe /\ node_info'[k + 1] = ie
      BY <1>1, <1>2, <2>1, AppendProperties
    <2>3. DOMAIN node_info' = 1..(k + 1)
      BY <2>2, LenProperties
    <2>4. \A i \in 1..k : node_info[i].ip # n
      BY <1>2, <1>4 DEF Members
    <2>5. \A i \in 1..(k + 1) : /\ node_pool'[i].ip = node_info'[i].ip
                                /\ node_pool'[i].start = node_info'[i].start
      <3> SUFFICES ASSUME NEW i \in 1..(k + 1)
                   PROVE  /\ node_pool'[i].ip = node_info'[i].ip
                          /\ node_pool'[i].start = node_info'[i].start
        OBVIOUS
      <3>1. CASE i \in 1..k
        BY <1>2, <2>2, <3>1
      <3>2. CASE i = k + 1
        BY <2>2, <3>2
      <3> QED
        BY <1>2, <3>1, <3>2
    <2>6. \A i, j \in 1..(k + 1) :
             node_info'[i].ip = node_info'[j].ip => i = j
      <3> SUFFICES ASSUME NEW i \in 1..(k + 1), NEW j \in 1..(k + 1),
                          node_info'[i].ip = node_info'[j].ip
                   PROVE  i = j
        OBVIOUS
      <3>1. \A m \in 1..(k + 1) : m \in 1..k \/ m = k + 1
        BY <1>2
      <3>2. ie.ip = n
        OBVIOUS
      <3> QED
        BY <1>2, <2>2, <2>4, <3>1, <3>2
    <2>7. node_info'[1].ip = HeadNode /\ node_info' # <<>>
      BY <1>2, <2>2
    <2> QED
      BY <1>2, <2>2, <2>3, <2>5, <2>6, <2>7
         DEF TopologyInv, TopologyTypeOK, StoresAgree
  <1> QED
    BY <1>3, <1>4

THEOREM TopologyInvariant == TopologySpec => []TopologyInv
  <1>1. ASSUME NEW first \in Starts, NEW last \in Ends,
               TopologyInit(first, last)
        PROVE  TopologyInv
    BY <1>1, TopologyInitInv
  <1>2. TopologyInv /\ [TopologyNext]_topology_vars => TopologyInv'
    <2> SUFFICES ASSUME TopologyInv, [TopologyNext]_topology_vars
                 PROVE  TopologyInv'
      OBVIOUS
    <2>1. CASE TopologyNext
      BY <2>1, AddNodeInv DEF TopologyNext, JoinPipeline
    <2>2. CASE UNCHANGED topology_vars
      BY <2>2 DEF topology_vars, TopologyInv, TopologyTypeOK, StoresAgree
    <2> QED
      BY <2>1, <2>2
  <1>3. (\E first \in Starts, last \in Ends : TopologyInit(first, last))
            => TopologyInv
    BY <1>1
  <1> QED
    BY <1>2, <1>3, PTL DEF TopologySpec

(* node_pool and node_info_dict hold records of the declared shape only    *)
(* (utils.py:96).                                                          *)
THEOREM TopologyTyped == TopologySpec => []TopologyTypeOK
  BY TopologyInvariant, PTL DEF TopologyInv

(* The two stores of the topology never drift apart, although every join   *)
(* writes them one after the other and a join again changes both in place  *)
(* (utils.py:120).                                                         *)
THEOREM StoresInStep == TopologySpec => []StoresAgree
  BY TopologyInvariant, PTL DEF TopologyInv

(* The server list of every reachable topology names each member once, by  *)
(* ascending start layer (utils.py:169).                                   *)
THEOREM ServerListCorrect == TopologySpec => []ServerListSound
  <1>1. TopologyInv => ServerListSound
    <2> SUFFICES ASSUME TopologyInv PROVE ServerListSound
      OBVIOUS
    <2> DEFINE info == node_info
               list == ServerList(info)
               D == DOMAIN info
    <2>1. /\ info \in Seq(InfoEntry)
          /\ \A i, j \in D : info[i].ip = info[j].ip => i = j
      BY DEF TopologyInv, TopologyTypeOK, StoresAgree
    <2>2. DOMAIN list = D /\ Len(list) = Len(info)
      BY <2>1, ServerListType
    <2>3. {list[k] : k \in DOMAIN list} = Members(info)
      <3>1. \A k \in D : list[k] \in Members(info)
        BY <2>1, AtRank DEF Members
      <3>2. \A i \in D : Rank(info, i) \in D /\ list[Rank(info, i)] = info[i].ip
        BY <2>1, AtOfRank, AtRank
      <3> QED
        BY <2>2, <3>1, <3>2 DEF Members
    <2>4. Len(list) = Cardinality(Members(info))
      <3> DEFINE f == [i \in D |-> info[i].ip]
      <3>1. f \in Injection(D, Members(info))
        BY <2>1 DEF Injection, IsInjective, Members
      <3>2. f \in Surjection(D, Members(info))
        BY <3>1 DEF Surjection, Injection, Members
      <3>3. IsFiniteSet(D) /\ Cardinality(D) = Len(info)
        BY <2>1, InfoShape
      <3>4. Cardinality(Members(info)) = Cardinality(D)
        BY <3>1, <3>2, <3>3, FS_Surjection
      <3> QED
        BY <2>2, <3>3, <3>4
    <2>5. ASSUME NEW k \in D, NEW m \in D, k < m
          PROVE  StartOf(info, list[k]) =< StartOf(info, list[m])
      <3>1. \A i \in D : StartOf(info, info[i].ip) = info[i].start
        BY <2>1 DEF StartOf
      <3>2. Precedes(info, PositionOf(info, k), PositionOf(info, m))
        BY <2>1, <2>5, ServerListAscends
      <3>3. info[PositionOf(info, k)].start =< info[PositionOf(info, m)].start
        BY <3>2, <2>1, AtRank, InfoShape DEF Precedes
      <3> QED
        BY <2>1, <3>1, <3>3, AtRank
    <2> QED
      BY <2>2, <2>3, <2>4, <2>5 DEF ServerListSound
  <1> QED
    BY <1>1, TopologyInvariant, PTL

LEMMA HeadOfTopology == TopologyInv => HeadLeads
  <1> SUFFICES ASSUME TopologyInv,
                      \A i \in DOMAIN node_info :
                          node_info[1].start =< node_info[i].start
               PROVE  ServerList(node_info)[1] = HeadNode
    BY DEF HeadLeads
  <1>1. /\ node_info \in Seq(InfoEntry) /\ 1 \in DOMAIN node_info
        /\ node_info[1].ip = HeadNode
    BY EmptySeq DEF TopologyInv, TopologyTypeOK
  <1>2. \A i \in DOMAIN node_info : ~Precedes(node_info, i, 1)
    BY <1>1, InfoShape DEF Precedes
  <1>3. Rank(node_info, 1) = 1
    BY <1>2, FS_EmptySet DEF Rank
  <1>4. PositionOf(node_info, 1) = 1
    BY <1>1, <1>3, AtOfRank
  <1> QED
    BY <1>1, <1>4, AtRank

(* The head leads the list of every reachable topology in which no member  *)
(* starts below it (executor.py:422).                                      *)
THEOREM HeadIsFirst == TopologySpec => []HeadLeads
  BY HeadOfTopology, TopologyInvariant, PTL

(* No member is listed twice.                                              *)
LEMMA ServerListDistinct ==
    ASSUME TopologyInv
    PROVE  \A i, j \in DOMAIN ServerList(node_info) :
              ServerList(node_info)[i] = ServerList(node_info)[j] => i = j
  <1>1. /\ node_info \in Seq(InfoEntry)
        /\ \A i, j \in DOMAIN node_info :
              node_info[i].ip = node_info[j].ip => i = j
    BY DEF TopologyInv, TopologyTypeOK, StoresAgree
  <1> QED
    BY <1>1, ServerListType, AtRank

-----------------------------------------------------------------------------
(* One member is listed before another exactly if it precedes it.          *)
LEMMA OrderIsPrecedence ==
    ASSUME NEW info \in Seq(InfoEntry), NEW pair
    PROVE  pair \in OrderIn(info) <=>
              \E i, j \in DOMAIN info :
                 Precedes(info, i, j) /\ pair = <<info[i].ip, info[j].ip>>
  <1> DEFINE list == ServerList(info)
             D == DOMAIN info
  <1>1. DOMAIN list = D
    BY ServerListType
  <1>2. pair \in OrderIn(info) <=>
           \E k, m \in D : k < m /\ pair = <<list[k], list[m]>>
    <2>1. pair \in OrderIn(info) <=>
             \E p \in D \X D : p[1] < p[2] /\ pair = <<list[p[1]], list[p[2]]>>
      BY <1>1 DEF OrderIn
    <2> HIDE DEF list, D
    <2>2. ASSUME NEW k \in D, NEW m \in D, k < m, pair = <<list[k], list[m]>>
          PROVE  pair \in OrderIn(info)
      <3>1. <<k, m>> \in D \X D /\ <<k, m>>[1] = k /\ <<k, m>>[2] = m
        OBVIOUS
      <3> QED
        BY <2>1, <2>2, <3>1
    <2>3. \A p \in D \X D : p[1] \in D /\ p[2] \in D
      OBVIOUS
    <2> QED
      BY <2>1, <2>2, <2>3
  <1>3. ASSUME NEW k \in D, NEW m \in D, k < m
        PROVE  \E i, j \in D : /\ Precedes(info, i, j)
                               /\ <<list[k], list[m]>> = <<info[i].ip, info[j].ip>>
    BY <1>3, ServerListAscends, AtRank
  <1>4. ASSUME NEW i \in D, NEW j \in D, Precedes(info, i, j)
        PROVE  \E k, m \in D : /\ k < m
                               /\ <<info[i].ip, info[j].ip>> = <<list[k], list[m]>>
    <2>1. Rank(info, i) < Rank(info, j)
      BY <1>4, RankIncreases
    <2>2. /\ Rank(info, i) \in D /\ list[Rank(info, i)] = info[i].ip
          /\ Rank(info, j) \in D /\ list[Rank(info, j)] = info[j].ip
      BY AtOfRank, AtRank
    <2> QED
      BY <2>1, <2>2
  <1> HIDE DEF list, D
  <1>5. ASSUME \E k, m \in D : k < m /\ pair = <<list[k], list[m]>>
        PROVE  \E i, j \in D : /\ Precedes(info, i, j)
                               /\ pair = <<info[i].ip, info[j].ip>>
    BY <1>3, <1>5
  <1>6. ASSUME \E i, j \in D : /\ Precedes(info, i, j)
                               /\ pair = <<info[i].ip, info[j].ip>>
        PROVE  \E k, m \in D : k < m /\ pair = <<list[k], list[m]>>
    BY <1>4, <1>6
  <1> QED
    BY <1>2, <1>5, <1>6 DEF D

LEMMA StartOfMember ==
    ASSUME TopologyInv, NEW i \in DOMAIN node_info
    PROVE  StartOf(node_info, node_info[i].ip) = node_info[i].start
  BY DEF TopologyInv, StoresAgree, StartOf

(* A join leaves the place of every member in the dict as it was.          *)
LEMMA PlacesInDictKept ==
    ASSUME TopologyInv, NEW n \in Nodes, NEW first \in Starts,
           NEW last \in Ends, AddNode(n, first, last)
    PROVE  \A i \in DOMAIN node_info :
              i \in DOMAIN node_info' /\ node_info'[i].ip = node_info[i].ip
  <1> DEFINE ie == [ip |-> n, start |-> first]
  <1>1. ie \in InfoEntry /\ node_info \in Seq(InfoEntry)
    BY DEF InfoEntry, TopologyInv, TopologyTypeOK
  <1>2. CASE n \in Members(node_info)
    BY <1>2 DEF AddNode
  <1>3. CASE n \notin Members(node_info)
    <2>1. node_info' = Append(node_info, ie)
      BY <1>3 DEF AddNode
    <2>2. /\ DOMAIN node_info = 1..Len(node_info) /\ Len(node_info) \in Nat
          /\ DOMAIN node_info' = 1..(Len(node_info) + 1)
          /\ \A i \in DOMAIN node_info : node_info'[i] = node_info[i]
      BY <1>1, <2>1, AppendProperties, LenProperties
    <2> QED
      BY <2>2
  <1> QED
    BY <1>2, <1>3

(* A join never swaps two members whose start layers it leaves alone: what *)
(* batches under way rely on when a worker is launched again (utils.py:120)*)
(* for any number of members and of joins before.                          *)
THEOREM OrderKeptByJoins == TopologySpec => JoinKeepsOrder
  <1>1. ASSUME TopologyInv, TopologyInv', TopologyNext
        PROVE  OrderStays
    <2>1. PICK n \in Nodes, first \in Starts, last \in Ends :
                 AddNode(n, first, last)
      BY <1>1 DEF TopologyNext, JoinPipeline
    <2>2. \A i \in DOMAIN node_info :
             i \in DOMAIN node_info' /\ node_info'[i].ip = node_info[i].ip
      BY <1>1, <2>1, PlacesInDictKept
    <2>3. node_info \in Seq(InfoEntry) /\ node_info' \in Seq(InfoEntry)
      BY <1>1 DEF TopologyInv, TopologyTypeOK
    <2>4. \A i \in DOMAIN node_info :
             /\ StartOf(node_info, node_info[i].ip) = node_info[i].start
             /\ StartOf(node_info', node_info[i].ip) = node_info'[i].start
      <3>1. \A i \in DOMAIN node_info' :
               StartOf(node_info', node_info'[i].ip) = node_info'[i].start
        BY <1>1 DEF TopologyInv, StoresAgree, StartOf
      <3> QED
        BY <1>1, <2>2, <3>1, StartOfMember
    <2> SUFFICES ASSUME NEW pair \in OrderIn(node_info),
                        StartOf(node_info', pair[1]) = StartOf(node_info, pair[1]),
                        StartOf(node_info', pair[2]) = StartOf(node_info, pair[2])
                 PROVE  pair \in OrderIn(node_info')
      BY DEF OrderStays
    <2>5. PICK i \in DOMAIN node_info, j \in DOMAIN node_info :
                 /\ Precedes(node_info, i, j)
                 /\ pair = <<node_info[i].ip, node_info[j].ip>>
      BY <2>3, OrderIsPrecedence
    <2>6. /\ node_info'[i].start = node_info[i].start
          /\ node_info'[j].start = node_info[j].start
      BY <2>4, <2>5
    <2>7. Precedes(node_info', i, j)
      BY <2>5, <2>6 DEF Precedes
    <2>8. pair = <<node_info'[i].ip, node_info'[j].ip>>
      BY <2>2, <2>5
    <2> QED
      BY <2>2, <2>3, <2>7, <2>8, OrderIsPrecedence
  <1>2. TopologyInv /\ TopologyInv' /\ [TopologyNext]_topology_vars
           => [OrderStays]_topology_vars
    BY <1>1
  <1> QED
    BY <1>2, TopologyInvariant, PTL DEF TopologySpec, JoinKeepsOrder
=============================================================================
