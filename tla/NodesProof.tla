----------------------------- MODULE NodesProof -----------------------------
(***************************************************************************)
(* Proofs about SwarmPipeline, for any number of servers, virtual engines  *)
(* and steps, however the list of servers changes and whatever is lost;    *)
(* about StageWorkers, the processes of one server; and about NodeStartup, *)
(* the ports of v1's nodes.                                                *)
(*                                                                         *)
(* What is under way, wherever it is, has followed the list that its step  *)
(* began with.  And as long as no step runs past the end of a list, every  *)
(* virtual engine has one thing under way at most, which is of the step it *)
(* waits for; the triggers not yet used are for servers it has still to    *)
(* pass, so when it arrives there are none.                                *)
(*                                                                         *)
(* Whoever holds a stage's lock gives every worker its input before the    *)
(* next one may: a worker has executed every step that was begun, or all   *)
(* but the last, and then that one's input is still to reach it.           *)
(*                                                                         *)
(* Between the probe of a port and its use nobody else on that machine     *)
(* probes, so what was free stays free; and what the head knows of a node, *)
(* it knows after the node's server has started.                           *)
(***************************************************************************)
EXTENDS SwarmPipeline, StageWorkers, NodeStartup, QueueLemmas

ServersNumbered == N \in Nat \ {0}

-----------------------------------------------------------------------------
(* The lists.                                                              *)
IsList(list) ==
    /\ list \in Seq(Servers)
    /\ \A j, k \in DOMAIN list : j < k => list[j] < list[k]

LEMMA ServerListSorted ==
  ASSUME ServersNumbered, known \in SUBSET Servers
  PROVE  IsList(ServerList)
<1> DEFINE K == Cardinality(known)
           Below(i) == {t \in known : t <= i}
<1>0. \A t \in known : t \in Int
  BY DEF Servers
<1>1. /\ K \in Nat
      /\ \A k \in 1..K : \E i \in known : Cardinality(Below(i)) = k
  BY RanksBijective DEF ServersNumbered, Servers
<1>2. IsFiniteSet(known)
  <2>1. IsFiniteSet(1..N)
    BY FS_Interval DEF ServersNumbered
  <2> QED
    BY <2>1, FS_Subset DEF Servers
<1>3. \A k \in 1..K : ServerList[k] \in known /\ Cardinality(Below(ServerList[k])) = k
  BY <1>1 DEF ServerList, Rank
<1>4. ServerList \in [1..K -> Servers]
  BY <1>3 DEF ServerList
<1>5. ServerList \in Seq(Servers) /\ DOMAIN ServerList = 1..K
  BY <1>1, <1>4
<1>6. ASSUME NEW j \in 1..K, NEW k \in 1..K, j < k
      PROVE  ServerList[j] < ServerList[k]
  <2> DEFINE a == ServerList[j]
             b == ServerList[k]
  <2>1. /\ a \in known /\ b \in known
        /\ Cardinality(Below(a)) = j /\ Cardinality(Below(b)) = k
    BY <1>3
  <2> HIDE DEF a, b
  <2>0. a \in Int /\ b \in Int
    BY <1>0, <2>1
  <2>2. ASSUME b <= a PROVE FALSE
    <3>1. Below(b) \in SUBSET Below(a)
      <4>1. \A t \in Below(b) : t \in known /\ t <= b /\ t \in Int
        BY <1>0
      <4>2. \A t \in Below(b) : t <= a
        BY <2>0, <2>2, <4>1
      <4> QED
        BY <4>1, <4>2
    <3>2. IsFiniteSet(Below(a))
      BY <1>2, FS_Subset
    <3>3. k <= j
      BY <2>1, <3>1, <3>2, FS_Subset
    <3> QED
      BY <1>1, <1>6, <3>3
  <2> QED
    BY <2>0, <2>2 DEF a, b
<1> QED
  BY <1>5, <1>6 DEF IsList

LEMMA ListFacts ==
  ASSUME ServersNumbered, NEW list, IsList(list)
  PROVE  /\ DOMAIN list = 1..Len(list) /\ Len(list) \in Nat
         /\ \A j \in 1..Len(list) : list[j] \in Servers /\ list[j] \in Int
         /\ \A j, k \in 1..Len(list) : list[j] = list[k] => j = k
         /\ \A j \in 1..Len(list) : list[j] = N => j = Len(list)
<1>1. DOMAIN list = 1..Len(list) /\ Len(list) \in Nat
  BY DEF IsList
<1>2. \A j \in 1..Len(list) : list[j] \in Servers /\ list[j] \in Int /\ list[j] <= N
  BY <1>1 DEF IsList, Servers, ServersNumbered
<1>3. \A j, k \in 1..Len(list) : j < k => list[j] < list[k]
  BY <1>1 DEF IsList
<1>4. ASSUME NEW j \in 1..Len(list), NEW k \in 1..Len(list), list[j] = list[k], j # k
      PROVE  FALSE
  <2>1. j < k \/ k < j
    BY <1>1, <1>4
  <2> QED
    BY <1>2, <1>3, <1>4, <2>1
<1>5. ASSUME NEW j \in 1..Len(list), list[j] = N, j # Len(list)
      PROVE  FALSE
  <2>0. Len(list) \in Nat /\ j \in Nat /\ 1 <= j /\ j <= Len(list)
    BY <1>1
  <2>1. Len(list) \in 1..Len(list) /\ j < Len(list)
    BY <1>5, <2>0
  <2>2. list[j] < list[Len(list)] /\ list[Len(list)] <= N /\ list[Len(list)] \in Int
    BY <1>2, <1>3, <2>1
  <2> QED
    BY <1>2, <1>5, <2>2 DEF ServersNumbered
<1> QED
  BY <1>1, <1>2, <1>4, <1>5

-----------------------------------------------------------------------------
(* What is under way has been through the first servers of its list.       *)
Item == [step : Nat, path : Seq(Int), list : Seq(Servers)]

Follows(item) ==
    /\ item \in Item /\ IsList(item.list)
    /\ Len(item.path) >= 1 /\ item.path[1] = Head1
    /\ \A j \in 2..Len(item.path) : item.path[j] = item.list[j]

(* It is at the server after those, or has been through all of them.       *)
IsAt(item, s) ==
    /\ Follows(item)
    /\ Len(item.path) < Len(item.list)
    /\ item.list[Len(item.path) + 1] = s
IsWhole(item) ==
    /\ Follows(item)
    /\ IF Len(item.list) <= 1 THEN Len(item.path) = 1
       ELSE Len(item.path) = Len(item.list) /\ item.list[Len(item.list)] = N

Trigger == [kind : {"trigger"}, to : Servers, ve : Engines, step : Nat]
Push == [kind : {"push"}, to : Servers, ve : Engines, item : Item]
Result == [kind : {"result"}, to : {Head1}, ve : Engines, item : Item]
Task == [ve : Engines, step : Nat, list : Seq(Servers)]

PathTypes ==
    /\ known \in SUBSET Servers
    /\ count \in Nat
    /\ step \in [Engines -> Nat]
    /\ toRun \in SUBSET Task
    /\ net \in SUBSET (Trigger \cup Push \cup Result)
    /\ triggers \in [Servers -> [Engines -> Nat]]
    /\ input \in [Servers -> [Engines -> Seq(Item)]]
    /\ output \in [Engines -> Seq(Item)]

PathInv ==
    /\ PathTypes
    /\ \A t \in toRun : IsList(t.list)
    /\ \A m \in net : /\ m.kind = "push" => IsAt(m.item, m.to)
                      /\ m.kind = "result" => IsWhole(m.item)
    /\ \A s \in Servers, v \in Engines :
         \A i \in DOMAIN input[s][v] : IsAt(input[s][v][i], s)
    /\ \A v \in Engines : \A i \in DOMAIN output[v] : IsWhole(output[v][i])
    /\ taken.asked # 0 => IsWhole(taken.result)

LEMMA WholePath ==
  ASSUME ServersNumbered, NEW item, IsWhole(item)
  PROVE  /\ Head1 \in ToSet(item.list) => item.path = item.list
         /\ Len(item.list) > 1 => item.path[Len(item.path)] = N
<1> DEFINE list == item.list
           path == item.path
<1>1. /\ list \in Seq(Servers) /\ path \in Seq(Int) /\ Len(list) \in Nat
      /\ Len(path) \in Nat /\ path[1] = Head1
      /\ \A j \in 2..Len(path) : path[j] = list[j]
      /\ IF Len(list) <= 1 THEN Len(path) = 1
         ELSE Len(path) = Len(list) /\ list[Len(list)] = N
  BY DEF IsWhole, Follows, Item
<1>2. /\ DOMAIN list = 1..Len(list)
      /\ \A j \in 1..Len(list) : list[j] \in Int /\ list[j] >= 1
      /\ \A j, k \in 1..Len(list) : j < k => list[j] < list[k]
  BY ListFacts DEF IsWhole, Follows, IsList, Servers
<1> HIDE DEF list, path
<1>3. ASSUME Head1 \in ToSet(list) PROVE path = list
  <2>1. PICK j \in 1..Len(list) : list[j] = 1
    BY <1>2, <1>3 DEF ToSet, Head1
  <2>2. j \in Nat /\ 1 \in 1..Len(list) /\ Len(list) >= 1
    BY <1>1, <2>1
  <2>3. j = 1
    BY <1>2, <2>1, <2>2
  <2>4. Len(path) = Len(list)
    BY <1>1, <2>2
  <2>5. \A k \in 1..Len(path) : path[k] = list[k]
    <3> SUFFICES ASSUME NEW k \in 1..Len(path) PROVE path[k] = list[k]
      OBVIOUS
    <3>1. k = 1 \/ k \in 2..Len(path)
      BY <1>1
    <3> QED
      BY <1>1, <2>1, <2>3, <3>1 DEF Head1
  <2>6. list \in Seq(Int)
    BY <1>1, <1>2
  <2> QED
    BY <1>1, <2>4, <2>5, <2>6, SeqEqual
<1>4. Len(list) > 1 => path[Len(path)] = N
  BY <1>1
<1> QED
  BY <1>3, <1>4 DEF list, path

-----------------------------------------------------------------------------
(* A server takes what is at it one further.                               *)
Done(item, s) == [item EXCEPT !.path = Append(@, s)]
InLeft(s, item) ==
    \E j \in Len(item.path) + 1..Len(item.list) : item.list[j] = s

LEMMA PathGrows ==
  ASSUME ServersNumbered, NEW s \in Servers, NEW item, IsAt(item, s)
  PROVE  /\ Follows(Done(item, s))
         /\ Done(item, s).list = item.list /\ Done(item, s).step = item.step
         /\ Len(Done(item, s).path) = Len(item.path) + 1
         /\ \A x : InLeft(x, item) /\ x # s => InLeft(x, Done(item, s))
<1> DEFINE done == Done(item, s)
           path == item.path
           list == item.list
<1>1. /\ item \in Item /\ IsList(list) /\ path \in Seq(Int) /\ s \in Int
      /\ Len(path) \in Nat /\ Len(path) >= 1 /\ Len(path) < Len(list)
      /\ path[1] = Head1 /\ list[Len(path) + 1] = s
      /\ \A j \in 2..Len(path) : path[j] = list[j]
  BY DEF IsAt, Follows, Item, Servers
<1>2. /\ Append(path, s) \in Seq(Int) /\ Len(Append(path, s)) = Len(path) + 1
      /\ Append(path, s)[Len(path) + 1] = s
      /\ \A j \in 1..Len(path) : Append(path, s)[j] = path[j]
  BY <1>1, AppendProperties
<1>3. /\ done.path = Append(path, s) /\ done.list = list /\ done.step = item.step
      /\ done \in Item
  BY <1>1, <1>2 DEF Done, Item
<1>4. \A j \in 2..Len(path) + 1 : Append(path, s)[j] = list[j]
  <2> TAKE j \in 2..Len(path) + 1
  <2>1. CASE j = Len(path) + 1
    BY <1>1, <1>2, <2>1
  <2>2. CASE j # Len(path) + 1
    <3>1. j \in 2..Len(path) /\ j \in 1..Len(path)
      BY <1>1, <2>2
    <3> QED
      BY <1>1, <1>2, <3>1
  <2> QED
    BY <2>1, <2>2
<1>5. Len(done.path) = Len(path) + 1 /\ Len(done.path) >= 1
  BY <1>1, <1>2, <1>3
<1>6. done.path[1] = Head1
  <2>1. 1 \in 1..Len(path)
    BY <1>1
  <2> QED
    BY <1>1, <1>2, <1>3, <2>1
<1>7. ASSUME NEW x, InLeft(x, item), x # s PROVE InLeft(x, done)
  <2>1. PICK j \in Len(path) + 1..Len(list) : list[j] = x
    BY <1>7 DEF InLeft
  <2>2. j # Len(path) + 1
    BY <1>1, <1>7, <2>1
  <2>3. j \in Len(path) + 1 + 1..Len(list)
    BY <1>1, <2>2
  <2> QED
    BY <1>3, <1>5, <2>1, <2>3 DEF InLeft
<1> HIDE DEF done, path, list
<1>8. Follows(done)
  BY <1>1, <1>3, <1>4, <1>5, <1>6 DEF Follows
<1> QED
  BY <1>3, <1>5, <1>7, <1>8 DEF done, path, list

(* What it sends on is one message at most, to where that belongs.         *)
LEMMA SendsOn ==
  ASSUME ServersNumbered, NEW s \in Servers, NEW v \in Engines, NEW item, IsAt(item, s)
  PROVE  /\ \A m \in Onward(s, v, item) :
              /\ m \in Push \cup Result /\ m.ve = v /\ m.item = Done(item, s)
              /\ m.kind \in {"push", "result"}
              /\ m.kind = "push" => IsAt(m.item, m.to)
              /\ m.kind = "result" => IsWhole(m.item)
         /\ \A m, n \in Onward(s, v, item) : m = n
<1> DEFINE done == Done(item, s)
           list == item.list
           k == Len(item.path)
<1>1. /\ Follows(done) /\ done \in Item /\ done.list = list
      /\ Len(done.path) = k + 1
  BY PathGrows DEF Follows
<1>2. /\ IsList(list) /\ k \in Nat /\ k >= 1 /\ k < Len(list) /\ list[k + 1] = s
  BY DEF IsAt, Follows, Item
<1>3. /\ DOMAIN list = 1..Len(list) /\ Len(list) \in Nat
      /\ \A j \in 1..Len(list) : list[j] \in Servers
      /\ \A i, j \in 1..Len(list) : list[i] = list[j] => i = j
      /\ \A j \in 1..Len(list) : list[j] = N => j = Len(list)
  BY <1>2, ListFacts
<1>4. k + 1 \in 1..Len(list)
  BY <1>2, <1>3
<1> HIDE DEF k, list
<1>5. CASE s = N
  <2>1. Onward(s, v, item) = {[kind |-> "result", to |-> Head1, ve |-> v, item |-> done]}
    BY <1>5 DEF Onward, Done
  <2>0. k + 1 = Len(list)
    BY <1>2, <1>3, <1>4, <1>5
  <2>2. k + 1 = Len(list) /\ ~(Len(list) <= 1) /\ list[Len(list)] = N
    BY <1>2, <1>5, <2>0
  <2>3. IsWhole(done)
    BY <1>1, <2>2 DEF IsWhole
  <2> HIDE DEF done
  <2> QED
    BY <1>1, <2>1, <2>3 DEF Result, done
<1>6. CASE s # N
  <2>1. /\ Onward(s, v, item) = {[kind |-> "push", to |-> n, ve |-> v, item |-> done] :
                                    n \in NextServer(list, s)}
    BY <1>6 DEF Onward, Done, list
  <2>2. \A n \in NextServer(list, s) :
          k + 1 < Len(list) /\ n = list[k + 1 + 1] /\ n \in Servers
    <3> TAKE n \in NextServer(list, s)
    <3>1. PICK i \in DOMAIN list : list[i] = s /\ i < Len(list) /\ n = list[i + 1]
      BY DEF NextServer
    <3>2. i = k + 1
      BY <1>2, <1>3, <1>4, <3>1
    <3>3. i \in 1..Len(list) /\ Len(list) \in Nat
      BY <1>3, <3>1
    <3>4. i + 1 \in 1..Len(list)
      BY <3>1, <3>3
    <3> QED
      BY <1>3, <3>1, <3>2, <3>4
  <2>3. \A n \in NextServer(list, s) : IsAt(done, n)
    BY <1>1, <2>2 DEF IsAt
  <2> HIDE DEF done
  <2>4. ASSUME NEW m \in Onward(s, v, item)
        PROVE  /\ m \in Push /\ m.ve = v /\ m.item = done /\ m.kind = "push"
               /\ IsAt(m.item, m.to)
               /\ m = [kind |-> "push", to |-> list[k + 1 + 1], ve |-> v, item |-> done]
    <3>1. PICK n \in NextServer(list, s) :
             m = [kind |-> "push", to |-> n, ve |-> v, item |-> done]
      BY <2>1, <2>4
    <3> QED
      BY <1>1, <2>2, <2>3, <3>1 DEF Push
  <2> QED
    BY <2>4 DEF done
<1> QED
  BY <1>5, <1>6

LEMMA OthersFacts ==
  ASSUME ServersNumbered, NEW list, IsList(list)
  PROVE  \A s \in ToSet(Others(list)) :
            s \in Servers /\ \E j \in 2..Len(list) : list[j] = s
<1>1. /\ Len(list) \in Nat /\ \A j \in 1..Len(list) : list[j] \in Servers
  BY ListFacts
<1>2. \A j \in 2..Len(list) : list[j] \in Servers /\ j \in 1..Len(list)
  BY <1>1
<1>3. /\ Others(list) \in Seq(Servers)
      /\ Len(Others(list)) = IF 2 <= Len(list) THEN Len(list) - 1 ELSE 0
      /\ \A j \in 1..Len(Others(list)) : Others(list)[j] = list[j + 1]
  BY <1>1, <1>2, SubSeqProperties DEF Others
<1> SUFFICES ASSUME NEW s \in ToSet(Others(list))
             PROVE  s \in Servers /\ \E j \in 2..Len(list) : list[j] = s
  OBVIOUS
<1>4. PICK j \in DOMAIN Others(list) : Others(list)[j] = s
  BY <1>3, SetOfSeq
<1>5. j \in 1..Len(Others(list)) /\ j \in Nat
  BY <1>3, <1>4
<1>6. list[j + 1] = s
  BY <1>3, <1>4, <1>5
<1>7. j + 1 \in 2..Len(list)
  BY <1>1, <1>3, <1>5
<1> QED
  BY <1>2, <1>6, <1>7

-----------------------------------------------------------------------------
(* Every action keeps to the lists.                                        *)
LEMMA FollowFromInit == ServersNumbered /\ SwarmInit => PathInv
<1> SUFFICES ASSUME ServersNumbered, SwarmInit PROVE PathInv
  OBVIOUS
<1>1. <<>> \in Seq(Item) /\ DOMAIN <<>> = {}
  OBVIOUS
<1>2. known \in SUBSET Servers
  BY DEF SwarmInit, Servers, Head1, ServersNumbered
<1>3. PathTypes
  BY <1>1, <1>2 DEF SwarmInit, PathTypes
<1> QED
  BY <1>1, <1>3 DEF SwarmInit, PathInv

LEMMA KnownFollow ==
  ASSUME PathInv, NEW s \in Servers, Join(s) \/ Unlist(s)
  PROVE  PathInv'
<1>1. UNCHANGED <<count, step, toRun, net, triggers, input, output, taken>>
      /\ known' \in SUBSET Servers
  BY DEF Join, Unlist, PathInv, PathTypes
<1> QED
  BY <1>1 DEF PathInv, PathTypes

LEMMA StartFollows ==
  ASSUME ServersNumbered, PathInv, NEW v \in Engines, StartStep(v)
  PROVE  PathInv'
<1> DEFINE task == [ve |-> v, step |-> count + 1, list |-> ServerList]
           calls == {[kind |-> "trigger", to |-> s, ve |-> v, step |-> count + 1] :
                        s \in ToSet(Others(ServerList))}
<1>1. IsList(ServerList) /\ count + 1 \in Nat
  BY ServerListSorted DEF PathInv, PathTypes
<1>2. /\ toRun' = toRun \cup {task} /\ count' = count + 1
      /\ UNCHANGED <<known, triggers, input, output, taken>>
      /\ \/ UNCHANGED <<step, net>>
         \/ step' = [step EXCEPT ![v] = count + 1] /\ net' = net \cup calls
  BY DEF StartStep
<1>3. task \in Task
  BY <1>1 DEF Task, IsList
<1>4. \A m \in calls : m \in Trigger /\ m.kind = "trigger"
  BY <1>1, OthersFacts DEF Trigger
<1> HIDE DEF task, calls
<1>5. \A m \in net' : m \in net \/ m \in calls
  BY <1>2
<1>6. task.list = ServerList
  BY DEF task
<1>7. PathTypes'
  <2>1. net' \in SUBSET (Trigger \cup Push \cup Result)
    BY <1>4, <1>5 DEF PathInv, PathTypes
  <2>2. step' \in [Engines -> Nat]
    BY <1>1, <1>2 DEF PathInv, PathTypes
  <2>3. toRun' \in SUBSET Task
    BY <1>2, <1>3 DEF PathInv, PathTypes
  <2> QED
    BY <1>1, <1>2, <2>1, <2>2, <2>3 DEF PathInv, PathTypes
<1>8. \A t \in toRun' : IsList(t.list)
  BY <1>1, <1>2, <1>6 DEF PathInv
<1>9. \A m \in net' : /\ m.kind = "push" => IsAt(m.item, m.to)
                      /\ m.kind = "result" => IsWhole(m.item)
  BY <1>4, <1>5 DEF PathInv
<1> QED
  BY <1>2, <1>7, <1>8, <1>9 DEF PathInv

(* What the head has computed has been through the head.                   *)
FromHead(t) == [step |-> t.step, path |-> <<Head1>>, list |-> t.list]

LEMMA HeadFollows ==
  ASSUME ServersNumbered, NEW t \in Task, IsList(t.list)
  PROVE  /\ FromHead(t) \in Item
         /\ Len(t.list) <= 1 => IsWhole(FromHead(t))
         /\ ~(Len(t.list) <= 1) => /\ SecondOf(t.list) \in Servers
                                   /\ IsAt(FromHead(t), SecondOf(t.list))
<1> DEFINE e == FromHead(t)
<1>1. /\ e.step = t.step /\ e.path = <<Head1>> /\ e.list = t.list
  BY DEF FromHead
<1>2. /\ t.step \in Nat /\ t.list \in Seq(Servers) /\ Len(t.list) \in Nat
      /\ \A j \in 1..Len(t.list) : t.list[j] \in Servers
  BY ListFacts DEF Task
<1>3. <<Head1>> \in Seq(Int) /\ Len(<<Head1>>) = 1 /\ <<Head1>>[1] = Head1
  BY DEF Head1
<1>4. e \in Item
  BY <1>2, <1>3 DEF Item, FromHead
<1>5. Follows(e)
  <2>1. \A j \in 2..Len(e.path) : FALSE
    BY <1>1, <1>3
  <2> HIDE DEF e
  <2> QED
    BY <1>1, <1>3, <1>4, <2>1 DEF Follows
<1> HIDE DEF e
<1>6. ASSUME Len(t.list) <= 1 PROVE IsWhole(e)
  BY <1>1, <1>3, <1>5, <1>6 DEF IsWhole
<1>7. ASSUME ~(Len(t.list) <= 1)
      PROVE  SecondOf(t.list) \in Servers /\ IsAt(e, SecondOf(t.list))
  <2>1. 2 \in 1..Len(t.list) /\ 1 < Len(t.list)
    BY <1>2, <1>7
  <2> QED
    BY <1>1, <1>2, <1>3, <1>5, <2>1 DEF IsAt, SecondOf
<1> QED
  BY <1>4, <1>6, <1>7 DEF e

LEMMA RunHeadFollows ==
  ASSUME ServersNumbered, PathInv, NEW t \in toRun, RunHead(t)
  PROVE  PathInv'
<1>1. t \in Task /\ IsList(t.list) /\ t.ve \in Engines
  BY DEF PathInv, PathTypes, Task
<1>2. /\ FromHead(t) \in Item
      /\ Len(t.list) <= 1 => IsWhole(FromHead(t))
      /\ ~(Len(t.list) <= 1) => /\ SecondOf(t.list) \in Servers
                                /\ IsAt(FromHead(t), SecondOf(t.list))
  BY <1>1, HeadFollows
<1>3. /\ toRun' \in SUBSET toRun
      /\ UNCHANGED <<known, count, step, triggers, input, taken>>
  BY DEF RunHead
<1>4. CASE Len(t.list) <= 1
  <2>1. /\ output' = [output EXCEPT ![t.ve] = Append(@, FromHead(t))] /\ net' = net
    BY <1>4 DEF RunHead, FromHead
  <2>2. output \in [Engines -> Seq(Item)]
    BY DEF PathInv, PathTypes
  <2>3. output' \in [Engines -> Seq(Item)]
    BY <1>1, <1>2, <2>1, <2>2
  <2>4. ASSUME NEW v \in Engines, NEW i \in DOMAIN output'[v]
        PROVE  IsWhole(output'[v][i])
    <3>1. CASE v = t.ve
      <4>1. output'[v] = Append(output[v], FromHead(t)) /\ output[v] \in Seq(Item)
        BY <2>1, <2>2, <3>1
      <4>2. i \in 1..Len(output[v]) + 1 /\ Len(output[v]) \in Nat
        BY <2>4, <4>1
      <4>3. CASE i = Len(output[v]) + 1
        BY <1>2, <1>4, <4>1, <4>3
      <4>4. CASE i # Len(output[v]) + 1
        <5>1. i \in DOMAIN output[v] /\ output'[v][i] = output[v][i]
          BY <4>1, <4>2, <4>4
        <5> QED
          BY <5>1 DEF PathInv
      <4> QED
        BY <4>3, <4>4
    <3>2. CASE v # t.ve
      <4>1. output'[v] = output[v]
        BY <2>1, <2>2, <3>2
      <4> QED
        BY <2>4, <4>1 DEF PathInv
    <3> QED
      BY <3>1, <3>2
  <2> QED
    BY <1>3, <2>1, <2>3, <2>4 DEF PathInv, PathTypes
<1>5. CASE ~(Len(t.list) <= 1)
  <2> DEFINE m == [kind |-> "push", to |-> SecondOf(t.list), ve |-> t.ve,
                   item |-> FromHead(t)]
  <2>1. net' = net \cup {m} /\ output' = output
    BY <1>5 DEF RunHead, FromHead
  <2>2. m \in Push /\ m.kind = "push" /\ IsAt(m.item, m.to)
    BY <1>1, <1>2, <1>5 DEF Push
  <2> HIDE DEF m
  <2>3. \A n \in net' : n \in net \/ n = m
    BY <2>1
  <2>4. net' \in SUBSET (Trigger \cup Push \cup Result)
    BY <2>2, <2>3 DEF PathInv, PathTypes
  <2>5. \A n \in net' : /\ n.kind = "push" => IsAt(n.item, n.to)
                        /\ n.kind = "result" => IsWhole(n.item)
    BY <2>2, <2>3 DEF PathInv
  <2> QED
    BY <1>3, <2>1, <2>4, <2>5 DEF PathInv, PathTypes
<1> QED
  BY <1>4, <1>5

(* A queue that lost its first entry.                                      *)
LEMMA QueueHead ==
  ASSUME NEW q \in Seq(Item), q # <<>>
  PROVE  /\ Head(q) \in Item /\ 1 \in DOMAIN q /\ Head(q) = q[1]
         /\ Tail(q) \in Seq(Item) /\ Len(Tail(q)) = Len(q) - 1
         /\ \A i \in DOMAIN Tail(q) : i + 1 \in DOMAIN q /\ Tail(q)[i] = q[i + 1]
<1>1. Len(q) \in Nat \ {0}
  BY EmptySeq
<1> QED
  BY <1>1, HeadTailProperties

LEMMA WorkFollows ==
  ASSUME ServersNumbered, PathInv, NEW s \in Servers, NEW v \in Engines, Work(s, v)
  PROVE  PathInv'
<1> DEFINE q == input[s][v]
<1>1. /\ triggers[s][v] > 0 /\ q # <<>>
      /\ triggers' = [triggers EXCEPT ![s][v] = @ - 1]
      /\ input' = [input EXCEPT ![s][v] = Tail(@)]
      /\ net' = net \cup Onward(s, v, Head(q))
      /\ UNCHANGED <<known, count, step, toRun, output, taken>>
  BY DEF Work
<1>2. /\ input \in [Servers -> [Engines -> Seq(Item)]] /\ q \in Seq(Item)
      /\ triggers \in [Servers -> [Engines -> Nat]] /\ triggers[s][v] \in Nat
  BY DEF PathInv, PathTypes
<1>3. /\ Head(q) \in Item /\ 1 \in DOMAIN q /\ Head(q) = q[1] /\ Tail(q) \in Seq(Item)
      /\ \A i \in DOMAIN Tail(q) : i + 1 \in DOMAIN q /\ Tail(q)[i] = q[i + 1]
  BY <1>1, <1>2, QueueHead
<1>4. IsAt(Head(q), s)
  BY <1>3 DEF PathInv
<1>5. \A m \in Onward(s, v, Head(q)) :
        /\ m \in Push \cup Result
        /\ m.kind = "push" => IsAt(m.item, m.to)
        /\ m.kind = "result" => IsWhole(m.item)
  BY <1>4, SendsOn
<1>6. \A m \in net' : m \in net \/ m \in Onward(s, v, Head(q))
  BY <1>1
<1>7. input' \in [Servers -> [Engines -> Seq(Item)]]
  BY <1>1, <1>2, <1>3
<1>8. triggers' \in [Servers -> [Engines -> Nat]]
  <2>1. triggers[s][v] - 1 \in Nat
    BY <1>1, <1>2
  <2> QED
    BY <1>1, <1>2, <2>1
<1>9. ASSUME NEW u \in Servers, NEW w \in Engines, NEW i \in DOMAIN input'[u][w]
      PROVE  IsAt(input'[u][w][i], u)
  <2>1. CASE u = s /\ w = v
    <3>1. input'[u][w] = Tail(q)
      BY <1>1, <1>2, <2>1
    <3>2. i + 1 \in DOMAIN q /\ Tail(q)[i] = q[i + 1]
      BY <1>3, <1>9, <3>1
    <3> QED
      BY <2>1, <3>1, <3>2 DEF PathInv
  <2>2. CASE ~(u = s /\ w = v)
    <3>1. input'[u][w] = input[u][w]
      BY <1>1, <1>2, <2>2
    <3> QED
      BY <1>9, <3>1 DEF PathInv
  <2> QED
    BY <2>1, <2>2
<1> HIDE DEF q
<1>10. PathTypes'
  <2>1. net' \in SUBSET (Trigger \cup Push \cup Result)
    BY <1>5, <1>6 DEF PathInv, PathTypes
  <2> QED
    BY <1>1, <1>7, <1>8, <2>1 DEF PathInv, PathTypes
<1>11. \A m \in net' : /\ m.kind = "push" => IsAt(m.item, m.to)
                       /\ m.kind = "result" => IsWhole(m.item)
  BY <1>5, <1>6 DEF PathInv
<1> QED
  BY <1>1, <1>9, <1>10, <1>11 DEF PathInv

LEMMA ReceivePushFollows ==
  ASSUME PathInv, NEW m \in net, ReceivePush(m)
  PROVE  PathInv'
<1>1. /\ m \in Push /\ m.to \in Servers /\ m.ve \in Engines /\ m.item \in Item
      /\ IsAt(m.item, m.to)
  BY DEF PathInv, PathTypes, ReceivePush, Trigger, Push, Result
<1>2. /\ input' = [input EXCEPT ![m.to][m.ve] = Append(@, m.item)]
      /\ net' \in SUBSET net
      /\ UNCHANGED <<known, count, step, toRun, triggers, output, taken>>
  BY DEF ReceivePush, Delivered
<1>3. input \in [Servers -> [Engines -> Seq(Item)]]
  BY DEF PathInv, PathTypes
<1>4. input' \in [Servers -> [Engines -> Seq(Item)]]
  BY <1>1, <1>2, <1>3
<1>5. ASSUME NEW u \in Servers, NEW w \in Engines, NEW i \in DOMAIN input'[u][w]
      PROVE  IsAt(input'[u][w][i], u)
  <2>1. CASE u = m.to /\ w = m.ve
    <3> DEFINE q == input[u][w]
    <3>1. input'[u][w] = Append(q, m.item) /\ q \in Seq(Item)
      BY <1>2, <1>3, <2>1
    <3>2. \A k \in DOMAIN q : IsAt(q[k], u)
      BY DEF PathInv
    <3> HIDE DEF q
    <3>3. i \in 1..Len(q) + 1 /\ Len(q) \in Nat
      BY <1>5, <3>1
    <3>4. CASE i = Len(q) + 1
      BY <1>1, <2>1, <3>1, <3>4
    <3>5. CASE i # Len(q) + 1
      <4>1. i \in DOMAIN q /\ Append(q, m.item)[i] = q[i]
        BY <3>1, <3>3, <3>5
      <4> QED
        BY <3>1, <3>2, <4>1
    <3> QED
      BY <3>4, <3>5
  <2>2. CASE ~(u = m.to /\ w = m.ve)
    <3>1. input'[u][w] = input[u][w]
      BY <1>1, <1>2, <1>3, <2>2
    <3> QED
      BY <1>5, <3>1 DEF PathInv
  <2> QED
    BY <2>1, <2>2
<1> QED
  BY <1>2, <1>4, <1>5 DEF PathInv, PathTypes

LEMMA ReceiveTriggerFollows ==
  ASSUME PathInv, NEW m \in net, ReceiveTrigger(m)
  PROVE  PathInv'
<1>1. m \in Trigger /\ m.to \in Servers /\ m.ve \in Engines
  BY DEF PathInv, PathTypes, ReceiveTrigger, Trigger, Push, Result
<1>2. /\ triggers' = [triggers EXCEPT ![m.to][m.ve] = @ + 1]
      /\ net' \in SUBSET net
      /\ UNCHANGED <<known, count, step, toRun, input, output, taken>>
  BY DEF ReceiveTrigger, Delivered
<1>3. triggers' \in [Servers -> [Engines -> Nat]]
  BY <1>1, <1>2 DEF PathInv, PathTypes
<1> QED
  BY <1>2, <1>3 DEF PathInv, PathTypes

LEMMA ReceiveResultFollows ==
  ASSUME PathInv, NEW m \in net, ReceiveResult(m)
  PROVE  PathInv'
<1>1. m \in Result /\ m.ve \in Engines /\ m.item \in Item /\ IsWhole(m.item)
  BY DEF PathInv, PathTypes, ReceiveResult, Trigger, Push, Result
<1>2. /\ output' = [output EXCEPT ![m.ve] = Append(@, m.item)]
      /\ net' \in SUBSET net
      /\ UNCHANGED <<known, count, step, toRun, triggers, input, taken>>
  BY DEF ReceiveResult, Delivered
<1>3. output \in [Engines -> Seq(Item)]
  BY DEF PathInv, PathTypes
<1>4. output' \in [Engines -> Seq(Item)]
  BY <1>1, <1>2, <1>3
<1>5. ASSUME NEW v \in Engines, NEW i \in DOMAIN output'[v]
      PROVE  IsWhole(output'[v][i])
  <2>1. CASE v = m.ve
    <3> DEFINE q == output[v]
    <3>1. output'[v] = Append(q, m.item) /\ q \in Seq(Item)
      BY <1>2, <1>3, <2>1
    <3>2. \A k \in DOMAIN q : IsWhole(q[k])
      BY DEF PathInv
    <3> HIDE DEF q
    <3>3. i \in 1..Len(q) + 1 /\ Len(q) \in Nat
      BY <1>5, <3>1
    <3>4. CASE i = Len(q) + 1
      BY <1>1, <3>1, <3>4
    <3>5. CASE i # Len(q) + 1
      <4>1. i \in DOMAIN q /\ Append(q, m.item)[i] = q[i]
        BY <3>1, <3>3, <3>5
      <4> QED
        BY <3>1, <3>2, <4>1
    <3> QED
      BY <3>4, <3>5
  <2>2. CASE v # m.ve
    <3>1. output'[v] = output[v]
      BY <1>2, <1>3, <2>2
    <3> QED
      BY <1>5, <3>1 DEF PathInv
  <2> QED
    BY <2>1, <2>2
<1> QED
  BY <1>2, <1>4, <1>5 DEF PathInv, PathTypes

LEMMA LoseFollows ==
  ASSUME PathInv, NEW m \in net, Lose(m)
  PROVE  PathInv'
  BY DEF Lose, PathInv, PathTypes

LEMMA TakeResultFollows ==
  ASSUME PathInv, NEW v \in Engines, TakeResult(v)
  PROVE  PathInv'
<1> DEFINE q == output[v]
<1>1. /\ q # <<>> /\ taken' = [asked |-> step[v], result |-> Head(q)]
      /\ output' = [output EXCEPT ![v] = Tail(@)]
      /\ step' = [step EXCEPT ![v] = 0]
      /\ UNCHANGED <<known, count, toRun, net, triggers, input>>
  BY DEF TakeResult
<1>2. output \in [Engines -> Seq(Item)] /\ q \in Seq(Item)
  BY DEF PathInv, PathTypes
<1>3. /\ 1 \in DOMAIN q /\ Head(q) = q[1] /\ Tail(q) \in Seq(Item)
      /\ \A i \in DOMAIN Tail(q) : i + 1 \in DOMAIN q /\ Tail(q)[i] = q[i + 1]
  BY <1>1, <1>2, QueueHead
<1>4. IsWhole(taken'.result)
  BY <1>1, <1>3 DEF PathInv
<1>5. ASSUME NEW w \in Engines, NEW i \in DOMAIN output'[w]
      PROVE  IsWhole(output'[w][i])
  <2>1. CASE w = v
    <3>1. output'[w] = Tail(q)
      BY <1>1, <1>2, <2>1
    <3>2. i + 1 \in DOMAIN q /\ Tail(q)[i] = q[i + 1]
      BY <1>3, <1>5, <3>1
    <3> QED
      BY <3>1, <3>2 DEF PathInv
  <2>2. CASE w # v
    <3>1. output'[w] = output[w]
      BY <1>1, <1>2, <2>2
    <3> QED
      BY <1>5, <3>1 DEF PathInv
  <2> QED
    BY <2>1, <2>2
<1>6. output' \in [Engines -> Seq(Item)] /\ step' \in [Engines -> Nat]
  BY <1>1, <1>2, <1>3 DEF PathInv, PathTypes
<1> QED
  BY <1>1, <1>4, <1>5, <1>6 DEF PathInv, PathTypes

LEMMA StepFollows == ServersNumbered /\ PathInv /\ [SwarmNext]_swarm_vars => PathInv'
<1> SUFFICES ASSUME ServersNumbered, PathInv, [SwarmNext]_swarm_vars PROVE PathInv'
  OBVIOUS
<1>1. ASSUME NEW s \in Servers, Join(s) \/ Unlist(s) PROVE PathInv'
  BY <1>1, KnownFollow
<1>2. ASSUME NEW v \in Engines, StartStep(v) PROVE PathInv'
  BY <1>2, StartFollows
<1>3. ASSUME NEW m \in net, Lose(m) PROVE PathInv'
  BY <1>3, LoseFollows
<1>4. CASE Working
  BY <1>4, RunHeadFollows, ReceivePushFollows, ReceiveTriggerFollows,
     ReceiveResultFollows, WorkFollows, TakeResultFollows DEF Working
<1>5. CASE UNCHANGED swarm_vars
  BY <1>5 DEF swarm_vars, PathInv, PathTypes
<1> QED
  BY <1>1, <1>2, <1>3, <1>4, <1>5 DEF SwarmNext

(* If the head is in its own list, a result has been through the servers   *)
(* of the list its step began with and no others, in order and once each;  *)
(* and unless the head had nobody to send to, through the last stage at    *)
(* the end (comm_handler.py:108-123): for any number of servers and        *)
(* virtual engines, whatever becomes of the list and of other steps.       *)
THEOREM ResultsFollowLists ==
  ASSUME ServersNumbered
  PROVE  SwarmSpec => []PathFollowsList
<1>1. SwarmInit => PathInv
  BY FollowFromInit
<1>2. PathInv /\ [SwarmNext]_swarm_vars => PathInv'
  BY StepFollows
<1>3. PathInv => PathFollowsList
  BY WholePath DEF PathInv, PathFollowsList
<1> QED
  BY <1>1, <1>2, <1>3, PTL DEF SwarmSpec

-----------------------------------------------------------------------------
(* Until a step runs past the end of a list.  A trigger is pending at a    *)
(* server until that computes.                                             *)
Pends(s, v) ==
    \/ triggers[s][v] # 0
    \/ \E m \in net : m.kind = "trigger" /\ m.ve = v /\ m.to = s

(* What is under way for v is of the step that v waits for, and the        *)
(* servers that still have a trigger are some that it has still to pass.   *)
Due(item, v) ==
    /\ item.step = step[v] /\ step[v] # 0
    /\ \A s \in Servers : Pends(s, v) => InLeft(s, item)

IsData(m, v) == m.ve = v /\ m.kind \in {"push", "result"}
Held(queue, v) == queue = <<>> \/ \E e \in Item : queue = <<e>> /\ Due(e, v)

AtHead(v) == \E t \in toRun : t.ve = v
InNet(v) == \E m \in net : IsData(m, v)
AtServer(v) == \E s \in Servers : input[s][v] # <<>>
AtOutput(v) == output[v] # <<>>

(* It is in one place only.                                                *)
OnePlace(v) ==
    /\ \A t, u \in toRun : t.ve = v /\ u.ve = v => t = u
    /\ \A m, n \in net : IsData(m, v) /\ IsData(n, v) => m = n
    /\ \A s, u \in Servers : input[s][v] # <<>> /\ input[u][v] # <<>> => s = u
    /\ AtHead(v) => ~InNet(v) /\ ~AtServer(v) /\ ~AtOutput(v)
    /\ InNet(v) => ~AtServer(v) /\ ~AtOutput(v)
    /\ AtServer(v) => ~AtOutput(v)
AllDue(v) ==
    /\ \A t \in toRun : t.ve = v => Due(FromHead(t), v)
    /\ \A m \in net : IsData(m, v) => Due(m.item, v)
    /\ \A s \in Servers : Held(input[s][v], v)
    /\ Held(output[v], v)
TriggeredOnce(v) ==
    /\ \A s \in Servers : Pends(s, v) => step[v] # 0
    /\ \A s \in Servers : triggers[s][v] \in {0, 1}
    /\ \A m \in net : m.kind = "trigger" /\ m.ve = v =>
          m.step = step[v] /\ m.to \in Servers /\ triggers[m.to][v] = 0

EngineOK(v) == OnePlace(v) /\ AllDue(v) /\ TriggeredOnce(v)
OneStepAtATime == TakesOwnResult /\ \A v \in Engines : EngineOK(v)

LEMMA OneEntry ==
  ASSUME NEW e \in Item
  PROVE  /\ Append(<<>>, e) = <<e>> /\ <<e>> # <<>>
         /\ Head(<<e>>) = e /\ Tail(<<e>>) = <<>>
  OBVIOUS

LEMMA DueStays ==
  ASSUME NEW e, NEW v, Due(e, v), step'[v] = step[v],
         \A s \in Servers : Pends(s, v)' => Pends(s, v)
  PROVE  Due(e, v)'
  BY DEF Due

(* What a step leaves alone of a virtual engine, or only takes away.       *)
LEMMA EngineKept ==
  ASSUME NEW v, EngineOK(v), step'[v] = step[v], output'[v] = output[v],
         \A t : t \in toRun' /\ t.ve = v => t \in toRun,
         \A m : m \in net' /\ m.ve = v => m \in net,
         \A s \in Servers : input'[s][v] = input[s][v] /\ triggers'[s][v] = triggers[s][v]
  PROVE  EngineOK(v)'
<1>1. \A s \in Servers : Pends(s, v)' => Pends(s, v)
  BY DEF Pends
<1>2. \A e : Due(e, v) => Due(e, v)'
  BY <1>1, DueStays
<1>3. OnePlace(v)'
  BY DEF EngineOK, OnePlace, IsData, AtHead, InNet, AtServer, AtOutput
<1>4. AllDue(v)'
  BY <1>2 DEF EngineOK, AllDue, IsData, Held
<1>5. TriggeredOnce(v)'
  <2>1. \A s \in Servers : Pends(s, v)' => step'[v] # 0
    BY <1>1 DEF EngineOK, TriggeredOnce
  <2> QED
    BY <2>1 DEF EngineOK, TriggeredOnce
<1> QED
  BY <1>3, <1>4, <1>5 DEF EngineOK

LEMMA StartKeepsOrder ==
  ASSUME ServersNumbered, PathInv, OneStepAtATime, NEW v \in Engines, StartStep(v),
         ~strayed'
  PROVE  OneStepAtATime'
<1>a. PICK list, n : list = ServerList /\ n = count + 1
  OBVIOUS
<1>b. PICK task : task = [ve |-> v, step |-> n, list |-> list]
  OBVIOUS
<1> DEFINE calls == {[kind |-> "trigger", to |-> s, ve |-> v, step |-> n] :
                        s \in ToSet(Others(list))}
<1>1. /\ step[v] = 0 /\ toRun' = toRun \cup {task}
      /\ step' = [step EXCEPT ![v] = n] /\ net' = net \cup calls
      /\ UNCHANGED <<triggers, input, output, taken>>
  BY <1>a, <1>b DEF StartStep
<1>2. IsList(list) /\ n \in Nat /\ n # 0 /\ step \in [Engines -> Nat]
  BY <1>a, ServerListSorted DEF PathInv, PathTypes
<1>3. \A m \in calls : /\ m.kind = "trigger" /\ m.ve = v /\ m.step = n
                       /\ m.to \in Servers
                       /\ \E j \in 2..Len(list) : list[j] = m.to
  BY <1>2, OthersFacts
<1>4. task.ve = v /\ FromHead(task) = [step |-> n, path |-> <<Head1>>,
                                       list |-> list]
  BY <1>b DEF FromHead
<1> HIDE DEF calls
<1>5. \A s, e : s \in Servers => ~Pends(s, v) /\ ~Due(e, v)
  BY <1>1 DEF OneStepAtATime, EngineOK, TriggeredOnce, Due
<1>6. /\ \A t \in toRun : t.ve # v
      /\ \A m \in net : m.ve # v
      /\ \A s \in Servers : input[s][v] = <<>> /\ triggers[s][v] = 0
      /\ output[v] = <<>>
  <2>1. \A m \in net : ~IsData(m, v)
    BY <1>1 DEF OneStepAtATime, EngineOK, AllDue, Due
  <2>2. \A m \in net : ~(m.kind = "trigger" /\ m.ve = v)
    <3> SUFFICES ASSUME NEW m \in net, m.kind = "trigger", m.ve = v PROVE FALSE
      OBVIOUS
    <3>1. m.to \in Servers
      BY DEF OneStepAtATime, EngineOK, TriggeredOnce
    <3> QED
      BY <1>5, <3>1 DEF Pends
  <2>3. \A m \in net : m.kind \in {"trigger", "push", "result"}
    BY DEF PathInv, PathTypes, Trigger, Push, Result
  <2>4. \A m \in net : m.ve # v
    BY <2>1, <2>2, <2>3 DEF IsData
  <2>5. \A t \in toRun : t.ve # v
    BY <1>1 DEF OneStepAtATime, EngineOK, AllDue, Due
  <2>6. \A s \in Servers : input[s][v] = <<>> /\ triggers[s][v] = 0
    BY <1>1, <1>5 DEF OneStepAtATime, EngineOK, AllDue, Due, Held, Pends
  <2>7. output[v] = <<>>
    BY <1>1 DEF OneStepAtATime, EngineOK, AllDue, Due, Held
  <2> QED
    BY <2>4, <2>5, <2>6, <2>7
<1>7. /\ \A t \in toRun' : t.ve = v => t = task
      /\ \A m \in net' : m.ve = v => m \in calls
      /\ step'[v] = n
      /\ \A s \in Servers : input'[s][v] = <<>> /\ triggers'[s][v] = 0
      /\ output'[v] = <<>>
  BY <1>1, <1>2, <1>6
<1>8. \A m \in net' : ~IsData(m, v)
  BY <1>3, <1>7 DEF IsData
<1>9. ASSUME NEW s \in Servers, Pends(s, v)'
      PROVE  \E j \in 2..Len(list) : list[j] = s
  BY <1>3, <1>7, <1>9 DEF Pends
<1>10. Due(FromHead(task), v)'
  <2>1. ASSUME NEW s \in Servers, Pends(s, v)' PROVE InLeft(s, FromHead(task))
    <3>1. PICK j \in 2..Len(list) : list[j] = s
      BY <1>9, <2>1
    <3>2. Len(<<Head1>>) + 1 = 2
      OBVIOUS
    <3> QED
      BY <1>4, <3>1, <3>2 DEF InLeft
  <2> QED
    BY <1>2, <1>4, <1>7, <2>1 DEF Due
<1>11. EngineOK(v)'
  <2>1. OnePlace(v)'
    BY <1>7, <1>8 DEF OnePlace, AtHead, InNet, AtServer, AtOutput
  <2>2. AllDue(v)'
    <3>1. \A t \in toRun' : t.ve = v => Due(FromHead(t), v)'
      BY <1>7, <1>10
    <3> QED
      BY <1>7, <1>8, <3>1 DEF AllDue, Held
  <2>3. TriggeredOnce(v)'
    <3>1. \A s \in Servers : Pends(s, v)' => step'[v] # 0
      BY <1>2, <1>7
    <3> QED
      BY <1>3, <1>7, <3>1 DEF TriggeredOnce
  <2> QED
    BY <2>1, <2>2, <2>3 DEF EngineOK
<1>12. ASSUME NEW w \in Engines, w # v PROVE EngineOK(w)'
  <2>1. /\ step'[w] = step[w]
        /\ \A t : t \in toRun' /\ t.ve = w => t \in toRun
        /\ \A m : m \in net' /\ m.ve = w => m \in net
    BY <1>1, <1>2, <1>3, <1>4, <1>12
  <2> QED
    BY <1>1, <2>1, EngineKept DEF OneStepAtATime
<1> QED
  BY <1>1, <1>11, <1>12 DEF OneStepAtATime, TakesOwnResult

LEMMA RunHeadKeepsOrder ==
  ASSUME ServersNumbered, PathInv, OneStepAtATime, NEW t \in toRun, RunHead(t)
  PROVE  OneStepAtATime'
<1>a. PICK v, e : v = t.ve /\ e = FromHead(t)
  OBVIOUS
<1>1. /\ v \in Engines /\ e \in Item /\ EngineOK(v) /\ Due(e, v)
      /\ AtHead(v) /\ t.ve = v
  <2>1. t \in Task /\ IsList(t.list) /\ v \in Engines
    BY <1>a DEF PathInv, PathTypes, Task
  <2>2. e \in Item
    BY <1>a, <2>1, HeadFollows
  <2>3. EngineOK(v)
    BY <2>1 DEF OneStepAtATime
  <2> QED
    BY <1>a, <2>1, <2>2, <2>3 DEF EngineOK, AllDue, AtHead
<1>2. /\ toRun' = toRun \ {t}
      /\ UNCHANGED <<step, triggers, input, taken>>
  BY DEF RunHead
<1>3. /\ \A u \in toRun' : u.ve # v
      /\ \A m \in net : ~IsData(m, v)
      /\ \A s \in Servers : input[s][v] = <<>>
      /\ output[v] = <<>>
  BY <1>1, <1>2 DEF EngineOK, OnePlace, AtHead, InNet, AtServer, AtOutput
<1>4. output \in [Engines -> Seq(Item)]
  BY DEF PathInv, PathTypes
<1>5. CASE Len(t.list) <= 1
  <2>1. net' = net /\ output' = [output EXCEPT ![v] = Append(@, e)]
    BY <1>5, <1>a DEF RunHead, FromHead
  <2>2. output'[v] = <<e>> /\ output'[v] # <<>>
    BY <1>1, <1>3, <1>4, <2>1, OneEntry
  <2>3. \A s \in Servers : Pends(s, v)' => Pends(s, v)
    BY <1>2, <2>1 DEF Pends
  <2>4. Due(e, v)'
    BY <1>1, <1>2, <2>3, DueStays
  <2>5. OnePlace(v)'
    BY <1>2, <1>3, <2>1 DEF OnePlace, AtHead, InNet, AtServer, IsData
  <2>6. AllDue(v)'
    BY <1>1, <1>2, <1>3, <2>1, <2>2, <2>4 DEF AllDue, Held, IsData
  <2>7. TriggeredOnce(v)'
    BY <1>1, <1>2, <2>1 DEF EngineOK, TriggeredOnce, Pends
  <2>8. ASSUME NEW w \in Engines, w # v PROVE EngineOK(w)'
    <3>1. output'[w] = output[w]
      BY <1>4, <2>1, <2>8
    <3> QED
      BY <1>2, <2>1, <3>1, EngineKept DEF OneStepAtATime
  <2> QED
    BY <1>2, <2>5, <2>6, <2>7, <2>8 DEF OneStepAtATime, EngineOK, TakesOwnResult
<1>6. CASE ~(Len(t.list) <= 1)
  <2>1. PICK m : /\ m = [kind |-> "push", to |-> SecondOf(t.list), ve |-> v, item |-> e]
                 /\ net' = net \cup {m}
    BY <1>6, <1>a DEF RunHead, FromHead
  <2>2. output' = output
    BY <1>6 DEF RunHead
  <2>3. m.kind = "push" /\ m.ve = v /\ m.item = e
    BY <2>1
  <2>4. \A n \in net' : n \in net \/ n = m
    BY <2>1
  <2>5. \A s \in Servers : Pends(s, v)' => Pends(s, v)
    BY <1>2, <2>3, <2>4 DEF Pends
  <2>6. Due(e, v)'
    BY <1>1, <1>2, <2>5, DueStays
  <2>7. \A n \in net' : IsData(n, v) => n = m
    BY <1>3, <2>4
  <2>8. OnePlace(v)'
    BY <1>2, <1>3, <2>2, <2>7 DEF OnePlace, AtHead, InNet, AtServer, AtOutput
  <2>9. AllDue(v)'
    BY <1>2, <1>3, <2>2, <2>3, <2>6, <2>7 DEF AllDue, Held
  <2>10. TriggeredOnce(v)'
    <3>1. \A s \in Servers : Pends(s, v)' => step'[v] # 0
      BY <1>1, <1>2, <2>5 DEF EngineOK, TriggeredOnce
    <3> QED
      BY <1>1, <1>2, <2>3, <2>4, <3>1 DEF EngineOK, TriggeredOnce
  <2>11. ASSUME NEW w \in Engines, w # v PROVE EngineOK(w)'
    <3>1. \A n : n \in net' /\ n.ve = w => n \in net
      BY <2>3, <2>4, <2>11
    <3> QED
      BY <1>2, <2>2, <3>1, EngineKept DEF OneStepAtATime
  <2> QED
    BY <1>2, <2>8, <2>9, <2>10, <2>11 DEF OneStepAtATime, EngineOK, TakesOwnResult
<1> QED
  BY <1>5, <1>6

LEMMA WorkKeepsOrder ==
  ASSUME ServersNumbered, PathInv, OneStepAtATime,
         NEW s \in Servers, NEW v \in Engines, Work(s, v)
  PROVE  OneStepAtATime'
<1>1. /\ triggers[s][v] > 0 /\ input[s][v] # <<>>
      /\ triggers' = [triggers EXCEPT ![s][v] = @ - 1]
      /\ input' = [input EXCEPT ![s][v] = Tail(@)]
      /\ net' = net \cup Onward(s, v, Head(input[s][v]))
      /\ UNCHANGED <<step, toRun, output, taken>>
  BY DEF Work
<1>2. EngineOK(v)
  BY DEF OneStepAtATime
<1>3. PICK e \in Item : input[s][v] = <<e>> /\ Due(e, v)
  BY <1>1, <1>2 DEF EngineOK, AllDue, Held
<1>4. PICK sent : sent = Onward(s, v, e)
  OBVIOUS
<1>5. PICK done : done = Done(e, s)
  OBVIOUS
<1>6. IsAt(e, s)
  <2>1. 1 \in DOMAIN input[s][v] /\ input[s][v][1] = e
    BY <1>3
  <2> QED
    BY <2>1 DEF PathInv
<1>7. /\ done.step = e.step
      /\ \A x : InLeft(x, e) /\ x # s => InLeft(x, done)
  BY <1>5, <1>6, PathGrows
<1>8. /\ \A m \in sent : m.ve = v /\ m.item = done /\ m.kind \in {"push", "result"}
      /\ \A m, n \in sent : m = n
  BY <1>4, <1>5, <1>6, SendsOn
<1>9. /\ triggers \in [Servers -> [Engines -> Nat]]
      /\ input \in [Servers -> [Engines -> Seq(Item)]]
  BY DEF PathInv, PathTypes
<1>10. net' = net \cup sent
  BY <1>1, <1>3, <1>4, OneEntry
<1>11. /\ \A m \in net' : m \in net \/ m \in sent
       /\ \A t \in toRun : t.ve # v
       /\ \A m \in net : ~IsData(m, v)
       /\ output[v] = <<>>
  BY <1>1, <1>2, <1>10 DEF EngineOK, OnePlace, AtHead, InNet, AtServer, AtOutput
<1>12. \A u \in Servers : input'[u][v] = <<>>
  <2> TAKE u \in Servers
  <2>1. CASE u = s
    BY <1>1, <1>3, <1>9, <2>1, OneEntry
  <2>2. CASE u # s
    <3>1. input'[u][v] = input[u][v]
      BY <1>1, <1>9, <2>2
    <3> QED
      BY <1>1, <1>2, <2>2, <3>1 DEF EngineOK, OnePlace
  <2> QED
    BY <2>1, <2>2
<1>13. /\ triggers'[s][v] = 0
       /\ \A u \in Servers : u # s => triggers'[u][v] = triggers[u][v]
  <2>1. triggers[s][v] = 1
    BY <1>1, <1>2 DEF EngineOK, TriggeredOnce
  <2>2. triggers'[s][v] = triggers[s][v] - 1
    BY <1>1, <1>9
  <2> QED
    BY <1>1, <1>9, <2>1, <2>2
<1>14. ASSUME NEW u \in Servers, Pends(u, v)' PROVE Pends(u, v) /\ u # s
  <2>1. CASE triggers'[u][v] # 0
    BY <1>13, <2>1 DEF Pends
  <2>2. CASE triggers'[u][v] = 0
    <3>1. PICK m \in net' : m.kind = "trigger" /\ m.ve = v /\ m.to = u
      BY <1>14, <2>2 DEF Pends
    <3>2. m \in net
      BY <1>8, <1>11, <3>1
    <3>3. triggers[m.to][v] = 0
      BY <1>2, <3>1, <3>2 DEF EngineOK, TriggeredOnce
    <3>4. triggers[s][v] # 0
      BY <1>1, <1>9
    <3> QED
      BY <3>1, <3>2, <3>3, <3>4 DEF Pends
  <2> QED
    BY <2>1, <2>2
<1>15. Due(done, v)'
  BY <1>1, <1>3, <1>7, <1>14 DEF Due
<1>16. OnePlace(v)'
  BY <1>1, <1>8, <1>11, <1>12 DEF OnePlace, AtHead, InNet, AtServer, AtOutput
<1>17. AllDue(v)'
  <2>1. \A m \in net' : IsData(m, v) => m.item = done
    BY <1>8, <1>11
  <2> QED
    BY <1>1, <1>11, <1>12, <1>15, <2>1 DEF AllDue, Held
<1>18. TriggeredOnce(v)'
  <2>1. \A u \in Servers : Pends(u, v)' => step'[v] # 0
    BY <1>1, <1>2, <1>14 DEF EngineOK, TriggeredOnce
  <2>2. \A u \in Servers : triggers'[u][v] \in {0, 1}
    BY <1>2, <1>13 DEF EngineOK, TriggeredOnce
  <2>3. ASSUME NEW m \in net', m.kind = "trigger", m.ve = v
        PROVE  m.step = step'[v] /\ m.to \in Servers /\ triggers'[m.to][v] = 0
    <3>1. m \in net
      BY <1>8, <1>11, <2>3
    <3>2. m.step = step[v] /\ m.to \in Servers /\ triggers[m.to][v] = 0
      BY <1>2, <2>3, <3>1 DEF EngineOK, TriggeredOnce
    <3> QED
      BY <1>1, <1>13, <3>2
  <2> QED
    BY <2>1, <2>2, <2>3 DEF TriggeredOnce
<1>19. ASSUME NEW w \in Engines, w # v PROVE EngineOK(w)'
  <2>1. \A n : n \in net' /\ n.ve = w => n \in net
    BY <1>8, <1>11, <1>19
  <2>2. \A u \in Servers : input'[u][w] = input[u][w] /\ triggers'[u][w] = triggers[u][w]
    BY <1>1, <1>9, <1>19
  <2> QED
    BY <1>1, <2>1, <2>2, EngineKept DEF OneStepAtATime
<1> QED
  BY <1>1, <1>16, <1>17, <1>18, <1>19 DEF OneStepAtATime, EngineOK, TakesOwnResult

LEMMA ReceivePushKeepsOrder ==
  ASSUME PathInv, OneStepAtATime, NEW m \in net, ReceivePush(m)
  PROVE  OneStepAtATime'
<1>a. PICK v, e, s : v = m.ve /\ e = m.item /\ s = m.to
  OBVIOUS
<1>1. /\ v \in Engines /\ s \in Servers /\ e \in Item /\ IsData(m, v)
      /\ m.kind = "push" /\ EngineOK(v)
  BY <1>a DEF PathInv, PathTypes, ReceivePush, Trigger, Push, Result, IsData,
              OneStepAtATime
<1>2. /\ input' = [input EXCEPT ![s][v] = Append(@, e)]
      /\ net' = net \ {m}
      /\ UNCHANGED <<step, toRun, triggers, output, taken>>
  BY <1>a DEF ReceivePush, Delivered
<1>3. /\ \A t \in toRun : t.ve # v
      /\ \A n \in net' : ~IsData(n, v)
      /\ \A u \in Servers : input[u][v] = <<>>
      /\ output[v] = <<>>
  BY <1>1, <1>2 DEF EngineOK, OnePlace, AtHead, InNet, AtServer, AtOutput
<1>4. Due(e, v)
  BY <1>a, <1>1 DEF EngineOK, AllDue
<1>5. input \in [Servers -> [Engines -> Seq(Item)]]
  BY DEF PathInv, PathTypes
<1>6. \A u \in Servers : input'[u][v] = IF u = s THEN <<e>> ELSE <<>>
  BY <1>1, <1>2, <1>3, <1>5, OneEntry
<1>7. \A u \in Servers : Pends(u, v)' => Pends(u, v)
  BY <1>2 DEF Pends
<1>8. Due(e, v)'
  BY <1>2, <1>4, <1>7, DueStays
<1>9. OnePlace(v)'
  BY <1>2, <1>3, <1>6 DEF OnePlace, AtHead, InNet, AtServer, AtOutput
<1>10. AllDue(v)'
  BY <1>1, <1>2, <1>3, <1>6, <1>8 DEF AllDue, Held
<1>11. TriggeredOnce(v)'
  BY <1>1, <1>2, <1>7 DEF EngineOK, TriggeredOnce
<1>12. ASSUME NEW w \in Engines, w # v PROVE EngineOK(w)'
  <2>1. \A u \in Servers : input'[u][w] = input[u][w]
    BY <1>1, <1>2, <1>5, <1>12
  <2> QED
    BY <1>2, <2>1, EngineKept DEF OneStepAtATime
<1> QED
  BY <1>2, <1>9, <1>10, <1>11, <1>12 DEF OneStepAtATime, EngineOK, TakesOwnResult

LEMMA ReceiveResultKeepsOrder ==
  ASSUME PathInv, OneStepAtATime, NEW m \in net, ReceiveResult(m)
  PROVE  OneStepAtATime'
<1>a. PICK v, e : v = m.ve /\ e = m.item
  OBVIOUS
<1>1. /\ v \in Engines /\ e \in Item /\ IsData(m, v)
      /\ m.kind = "result" /\ EngineOK(v)
  BY <1>a DEF PathInv, PathTypes, ReceiveResult, Trigger, Push, Result, IsData,
              OneStepAtATime
<1>2. /\ output' = [output EXCEPT ![v] = Append(@, e)]
      /\ net' = net \ {m}
      /\ UNCHANGED <<step, toRun, triggers, input, taken>>
  BY <1>a DEF ReceiveResult, Delivered
<1>3. /\ \A t \in toRun : t.ve # v
      /\ \A n \in net' : ~IsData(n, v)
      /\ \A u \in Servers : input[u][v] = <<>>
      /\ output[v] = <<>>
  BY <1>1, <1>2 DEF EngineOK, OnePlace, AtHead, InNet, AtServer, AtOutput
<1>4. Due(e, v)
  BY <1>a, <1>1 DEF EngineOK, AllDue
<1>5. output \in [Engines -> Seq(Item)]
  BY DEF PathInv, PathTypes
<1>6. output'[v] = <<e>>
  BY <1>1, <1>2, <1>3, <1>5, OneEntry
<1>7. \A u \in Servers : Pends(u, v)' => Pends(u, v)
  BY <1>2 DEF Pends
<1>8. Due(e, v)'
  BY <1>2, <1>4, <1>7, DueStays
<1>9. OnePlace(v)'
  BY <1>2, <1>3 DEF OnePlace, AtHead, InNet, AtServer, AtOutput
<1>10. AllDue(v)'
  BY <1>1, <1>2, <1>3, <1>6, <1>8 DEF AllDue, Held
<1>11. TriggeredOnce(v)'
  BY <1>1, <1>2, <1>7 DEF EngineOK, TriggeredOnce
<1>12. ASSUME NEW w \in Engines, w # v PROVE EngineOK(w)'
  <2>1. output'[w] = output[w]
    BY <1>2, <1>5, <1>12
  <2> QED
    BY <1>2, <2>1, EngineKept DEF OneStepAtATime
<1> QED
  BY <1>2, <1>9, <1>10, <1>11, <1>12 DEF OneStepAtATime, EngineOK, TakesOwnResult

LEMMA ReceiveTriggerKeepsOrder ==
  ASSUME PathInv, OneStepAtATime, NEW m \in net, ReceiveTrigger(m)
  PROVE  OneStepAtATime'
<1>a. PICK v, s : v = m.ve /\ s = m.to
  OBVIOUS
<1>1. /\ v \in Engines /\ s \in Servers /\ m \in Trigger
      /\ m.kind = "trigger" /\ EngineOK(v)
  BY <1>a DEF PathInv, PathTypes, ReceiveTrigger, Trigger, Push, Result, OneStepAtATime
<1>2. /\ triggers' = [triggers EXCEPT ![s][v] = @ + 1]
      /\ net' = net \ {m}
      /\ UNCHANGED <<step, toRun, input, output, taken>>
  BY <1>a DEF ReceiveTrigger, Delivered
<1>3. triggers \in [Servers -> [Engines -> Nat]]
  BY DEF PathInv, PathTypes
<1>4. triggers[s][v] = 0 /\ m.step = step[v]
  BY <1>a, <1>1 DEF EngineOK, TriggeredOnce
<1>5. \A u \in Servers : triggers'[u][v] = IF u = s THEN 1 ELSE triggers[u][v]
  BY <1>1, <1>2, <1>3, <1>4
<1>6. ASSUME NEW n \in net', n.kind = "trigger", n.ve = v PROVE n.to # s
  <2>1. n \in net /\ n # m /\ n.step = step[v] /\ n \in Trigger
    BY <1>1, <1>2, <1>6 DEF EngineOK, TriggeredOnce, PathInv, PathTypes, Trigger, Push,
                            Result
  <2>2. n.to = s => n = m
    BY <1>a, <1>1, <1>4, <1>6, <2>1 DEF Trigger
  <2> QED
    BY <2>1, <2>2
<1>7. \A u \in Servers : Pends(u, v)' => Pends(u, v)
  <2> TAKE u \in Servers
  <2>1. CASE u = s
    BY <1>a, <1>1, <2>1 DEF Pends
  <2>2. CASE u # s
    BY <1>2, <1>5, <2>2 DEF Pends
  <2> QED
    BY <2>1, <2>2
<1>8. \A e : Due(e, v) => Due(e, v)'
  BY <1>2, <1>7, DueStays
<1>9. OnePlace(v)'
  BY <1>1, <1>2 DEF EngineOK, OnePlace, AtHead, InNet, AtServer, AtOutput, IsData
<1>10. AllDue(v)'
  BY <1>1, <1>2, <1>8 DEF EngineOK, AllDue, Held, IsData
<1>11. TriggeredOnce(v)'
  <2>1. \A u \in Servers : Pends(u, v)' => step'[v] # 0
    BY <1>1, <1>2, <1>7 DEF EngineOK, TriggeredOnce
  <2>2. \A u \in Servers : triggers'[u][v] \in {0, 1}
    BY <1>1, <1>5 DEF EngineOK, TriggeredOnce
  <2>3. ASSUME NEW n \in net', n.kind = "trigger", n.ve = v
        PROVE  n.step = step'[v] /\ n.to \in Servers /\ triggers'[n.to][v] = 0
    <3>1. n \in net /\ n.to # s
      BY <1>2, <1>6, <2>3
    <3>2. n.step = step[v] /\ n.to \in Servers /\ triggers[n.to][v] = 0
      BY <1>1, <2>3, <3>1 DEF EngineOK, TriggeredOnce
    <3> QED
      BY <1>2, <1>5, <3>1, <3>2
  <2> QED
    BY <2>1, <2>2, <2>3 DEF TriggeredOnce
<1>12. ASSUME NEW w \in Engines, w # v PROVE EngineOK(w)'
  <2>1. \A u \in Servers : triggers'[u][w] = triggers[u][w]
    BY <1>1, <1>2, <1>3, <1>12
  <2> QED
    BY <1>2, <2>1, EngineKept DEF OneStepAtATime
<1> QED
  BY <1>2, <1>9, <1>10, <1>11, <1>12 DEF OneStepAtATime, EngineOK, TakesOwnResult

LEMMA LoseKeepsOrder ==
  ASSUME OneStepAtATime, NEW m \in net, Lose(m)
  PROVE  OneStepAtATime'
<1>1. /\ net' \in SUBSET net
      /\ UNCHANGED <<step, toRun, triggers, input, output, taken>>
  BY DEF Lose
<1>2. ASSUME NEW v \in Engines PROVE EngineOK(v)'
  BY <1>1, EngineKept DEF OneStepAtATime
<1> QED
  BY <1>1, <1>2 DEF OneStepAtATime, TakesOwnResult

(* A result that is complete has nothing left to pass.                     *)
LEMMA WholeHasNoneLeft ==
  ASSUME ServersNumbered, NEW e, IsWhole(e)
  PROVE  \A s : ~InLeft(s, e)
<1>a. PICK k, n : k = Len(e.path) /\ n = Len(e.list)
  OBVIOUS
<1>1. k \in Nat /\ n \in Nat
  BY <1>a DEF IsWhole, Follows, Item
<1>2. IF n <= 1 THEN k = 1 ELSE k = n
  BY <1>a DEF IsWhole
<1>3. k + 1 > n
  BY <1>1, <1>2
<1> QED
  BY <1>a, <1>1, <1>3 DEF InLeft

LEMMA TakeResultKeepsOrder ==
  ASSUME ServersNumbered, PathInv, OneStepAtATime, NEW v \in Engines, TakeResult(v)
  PROVE  OneStepAtATime'
<1>1. /\ output[v] # <<>> /\ taken' = [asked |-> step[v], result |-> Head(output[v])]
      /\ output' = [output EXCEPT ![v] = Tail(@)]
      /\ step' = [step EXCEPT ![v] = 0]
      /\ UNCHANGED <<toRun, net, triggers, input>>
  BY DEF TakeResult
<1>2. EngineOK(v) /\ step \in [Engines -> Nat] /\ output \in [Engines -> Seq(Item)]
  BY DEF OneStepAtATime, PathInv, PathTypes
<1>3. PICK e \in Item : output[v] = <<e>> /\ Due(e, v)
  BY <1>1, <1>2 DEF EngineOK, AllDue, Held
<1>4. IsWhole(e)
  <2>1. 1 \in DOMAIN output[v] /\ output[v][1] = e
    BY <1>3
  <2> QED
    BY <2>1 DEF PathInv
<1>5. \A s \in Servers : ~Pends(s, v)
  BY <1>3, <1>4, WholeHasNoneLeft DEF Due
<1>6. /\ \A t \in toRun : t.ve # v
      /\ \A m \in net : ~IsData(m, v)
      /\ \A s \in Servers : input[s][v] = <<>>
  BY <1>1, <1>2 DEF EngineOK, OnePlace, AtHead, InNet, AtServer, AtOutput
<1>7. output'[v] = <<>> /\ step'[v] = 0 /\ taken'.asked = step[v] /\ taken'.result = e
  BY <1>1, <1>2, <1>3, OneEntry
<1>8. \A m \in net : ~(m.kind = "trigger" /\ m.ve = v)
  <2> SUFFICES ASSUME NEW m \in net, m.kind = "trigger", m.ve = v PROVE FALSE
    OBVIOUS
  <2>1. m.to \in Servers
    BY <1>2 DEF EngineOK, TriggeredOnce
  <2> QED
    BY <1>5, <2>1 DEF Pends
<1>9. \A s \in Servers : ~Pends(s, v)'
  BY <1>1, <1>5 DEF Pends
<1>10. EngineOK(v)'
  <2>1. OnePlace(v)'
    BY <1>1, <1>6, <1>7 DEF OnePlace, AtHead, InNet, AtServer, AtOutput, IsData
  <2>2. AllDue(v)'
    BY <1>1, <1>6, <1>7 DEF AllDue, Held, IsData
  <2>3. TriggeredOnce(v)'
    BY <1>1, <1>2, <1>8, <1>9 DEF EngineOK, TriggeredOnce
  <2> QED
    BY <2>1, <2>2, <2>3 DEF EngineOK
<1>11. ASSUME NEW w \in Engines, w # v PROVE EngineOK(w)'
  <2>1. output'[w] = output[w] /\ step'[w] = step[w]
    BY <1>1, <1>2, <1>11
  <2> QED
    BY <1>1, <2>1, EngineKept DEF OneStepAtATime
<1>12. TakesOwnResult'
  BY <1>3, <1>7 DEF TakesOwnResult, Due
<1> QED
  BY <1>10, <1>11, <1>12 DEF OneStepAtATime

LEMMA OthersKeepOrder ==
  ASSUME OneStepAtATime,
         UNCHANGED <<step, toRun, net, triggers, input, output, taken>>
  PROVE  OneStepAtATime'
<1>1. ASSUME NEW v \in Engines PROVE EngineOK(v)'
  BY EngineKept DEF OneStepAtATime
<1> QED
  BY <1>1 DEF OneStepAtATime, TakesOwnResult

LEMMA OrderFromInit == SwarmInit => OneStepAtATime
<1> SUFFICES ASSUME SwarmInit PROVE OneStepAtATime
  OBVIOUS
<1>0. TakesOwnResult
  BY DEF SwarmInit, TakesOwnResult
<1> SUFFICES ASSUME NEW v \in Engines PROVE EngineOK(v)
  BY <1>0 DEF OneStepAtATime
<1>1. \A s \in Servers : ~Pends(s, v)
  BY DEF SwarmInit, Pends
<1>2. OnePlace(v) /\ AllDue(v) /\ TriggeredOnce(v)
  BY <1>1 DEF SwarmInit, OnePlace, AllDue, TriggeredOnce, AtHead, InNet, AtServer,
              AtOutput, Held
<1> QED
  BY <1>2 DEF EngineOK

OrderInv == PathInv /\ (strayed \/ OneStepAtATime)

LEMMA StepKeepsOrder == ServersNumbered /\ OrderInv /\ [SwarmNext]_swarm_vars => OrderInv'
<1> SUFFICES ASSUME ServersNumbered, OrderInv, [SwarmNext]_swarm_vars, ~strayed'
             PROVE  OneStepAtATime'
  BY StepFollows DEF OrderInv
<1>1. ~strayed
  <2>1. strayed => strayed'
    BY DEF SwarmNext, Join, Unlist, StartStep, Lose, Working, RunHead, ReceivePush,
           ReceiveTrigger, ReceiveResult, Work, TakeResult, swarm_vars
  <2> QED
    BY <2>1
<1>2. PathInv /\ OneStepAtATime
  BY <1>1 DEF OrderInv
<1>3. ASSUME NEW s \in Servers, Join(s) \/ Unlist(s) PROVE OneStepAtATime'
  BY <1>2, <1>3, OthersKeepOrder DEF Join, Unlist
<1>4. ASSUME NEW v \in Engines, StartStep(v) PROVE OneStepAtATime'
  BY <1>2, <1>4, StartKeepsOrder
<1>5. ASSUME NEW m \in net, Lose(m) PROVE OneStepAtATime'
  BY <1>2, <1>5, LoseKeepsOrder
<1>6. CASE Working
  BY <1>2, <1>6, RunHeadKeepsOrder, ReceivePushKeepsOrder, ReceiveTriggerKeepsOrder,
     ReceiveResultKeepsOrder, WorkKeepsOrder, TakeResultKeepsOrder DEF Working
<1>7. CASE UNCHANGED swarm_vars
  BY <1>2, <1>7, OthersKeepOrder DEF swarm_vars
<1> QED
  BY <1>3, <1>4, <1>5, <1>6, <1>7 DEF SwarmNext

LEMMA NothingIsLeftThen == PathInv /\ OneStepAtATime => NothingIsLeft
<1> SUFFICES ASSUME PathInv, OneStepAtATime, NEW v \in Engines, step[v] = 0
             PROVE  /\ \A t \in toRun : t.ve # v
                    /\ \A m \in net : m.ve # v
                    /\ output[v] = <<>>
                    /\ \A s \in Servers : triggers[s][v] = 0 /\ input[s][v] = <<>>
  BY DEF NothingIsLeft
<1>1. EngineOK(v) /\ \A e : ~Due(e, v)
  BY DEF OneStepAtATime, Due
<1>2. \A s \in Servers : ~Pends(s, v)
  BY <1>1 DEF EngineOK, TriggeredOnce
<1>3. ASSUME NEW m \in net, m.ve = v PROVE FALSE
  <2>1. m.kind \in {"trigger", "push", "result"}
    BY DEF PathInv, PathTypes, Trigger, Push, Result
  <2>2. CASE m.kind = "trigger"
    <3>1. m.to \in Servers
      BY <1>1, <1>3, <2>2 DEF EngineOK, TriggeredOnce
    <3> QED
      BY <1>2, <1>3, <2>2, <3>1 DEF Pends
  <2>3. CASE m.kind # "trigger"
    <3>1. IsData(m, v)
      BY <1>3, <2>1, <2>3 DEF IsData
    <3> QED
      BY <1>1, <3>1 DEF EngineOK, AllDue
  <2> QED
    BY <2>2, <2>3
<1>4. \A t \in toRun : t.ve # v
  BY <1>1 DEF EngineOK, AllDue
<1>5. output[v] = <<>> /\ \A s \in Servers : input[s][v] = <<>>
  BY <1>1 DEF EngineOK, AllDue, Held
<1>6. \A s \in Servers : triggers[s][v] = 0
  BY <1>2 DEF Pends
<1> QED
  BY <1>3, <1>4, <1>5, <1>6

(* Until a step runs past the end of a list                                *)
(* (mp_distributed_executor.py:406), a step takes the result of its own    *)
(* batch and leaves nothing of it with any server, as the engine takes for *)
(* granted (engine/molink_engine.py:90): for any number of servers and     *)
(* virtual engines, whichever servers are listed when a step begins, in    *)
(* whatever order the calls arrive, and whatever is lost.                  *)
THEOREM StepsTakeTheirResults ==
  ASSUME ServersNumbered
  PROVE  SwarmSpec => []BatchHasCompleted
<1>1. SwarmInit => OrderInv
  BY FollowFromInit, OrderFromInit DEF OrderInv
<1>2. OrderInv /\ [SwarmNext]_swarm_vars => OrderInv'
  BY StepKeepsOrder
<1>3. OrderInv => BatchHasCompleted
  BY NothingIsLeftThen DEF OrderInv, OneStepAtATime, BatchHasCompleted
<1> QED
  BY <1>1, <1>2, <1>3, PTL DEF SwarmSpec

-----------------------------------------------------------------------------
(* The workers of a stage.  A worker has either executed all steps that    *)
(* the driver began, or all but the last one, which is running: its input  *)
(* is still to be sent to this worker, or on its way there.                *)
Newest == order[Len(order)]

UpToDate(w) ==
    /\ ran[w] = order /\ broadcast[w] = <<>>
    /\ \A s \in Nat : <<s, w>> \notin unsent

OneBehind(w) ==
    /\ Newest \in running
    /\ Append(ran[w], Newest) = order
    /\ \A s \in Nat : <<s, w>> \in unsent => s = Newest
    /\ IF <<Newest, w>> \in unsent THEN broadcast[w] = <<>>
       ELSE broadcast[w] = <<Newest>>

StepsTyped ==
    /\ steps \in Nat
    /\ waiting \subseteq 1..steps
    /\ order \in Seq(1..steps)
    /\ unsent \subseteq Nat \X Workers
    /\ ran \in [Workers -> Seq(Nat)]
    /\ broadcast \in [Workers -> Seq(Nat)]

BegunOnce ==
    /\ \A i \in 1..Len(order) : order[i] \notin waiting
    /\ \A i, j \in 1..Len(order) : order[i] = order[j] => i = j

OneRuns == running = {} \/ (order # <<>> /\ running = {Newest})

WorkersInv ==
    /\ StepsTyped /\ BegunOnce /\ OneRuns
    /\ \A w \in Workers : UpToDate(w) \/ OneBehind(w)

LEMMA AppendParts ==
  ASSUME NEW S, NEW a \in Seq(S), NEW e \in S
  PROVE  /\ Append(a, e) \in Seq(S) /\ Append(a, e) # <<>>
         /\ Len(a) \in Nat /\ Len(Append(a, e)) = Len(a) + 1
         /\ Append(a, e)[Len(a) + 1] = e
         /\ \A k \in 1..Len(a) : Append(a, e)[k] = a[k]
  BY AppendProperties

LEMMA InitWorkersInv == WorkersInit => WorkersInv
<1> SUFFICES ASSUME WorkersInit PROVE WorkersInv
  OBVIOUS
<1>1. \A w \in Workers : ran[w] = <<>> /\ broadcast[w] = <<>>
  BY DEF WorkersInit
<1>2. order = <<>> /\ Len(order) = 0 /\ unsent = {} /\ waiting = {} /\ running = {}
      /\ steps = 0
  BY DEF WorkersInit
<1>3. ran \in [Workers -> Seq(Nat)] /\ broadcast \in [Workers -> Seq(Nat)]
  BY DEF WorkersInit
<1>4. StepsTyped
  BY <1>2, <1>3 DEF StepsTyped
<1>5. BegunOnce /\ OneRuns
  BY <1>2 DEF BegunOnce, OneRuns
<1>6. \A w \in Workers : UpToDate(w)
  BY <1>1, <1>2 DEF UpToDate
<1> QED
  BY <1>4, <1>5, <1>6 DEF WorkersInv

(* Actions that leave alone what the driver and the workers exchange.      *)
LEMMA OthersKeepWorkers ==
  ASSUME WorkersInv, UNCHANGED <<running, unsent, order, broadcast, ran>>,
         steps' \in Nat, steps' >= steps,
         waiting' \subseteq 1..steps',
         \A s \in waiting' : s \in waiting \/ s > steps
  PROVE  WorkersInv'
<1>1. order' \in Seq(1..steps')
  <2>1. 1..steps \subseteq 1..steps'
    BY DEF WorkersInv, StepsTyped
  <2>2. \A i \in 1..Len(order) : order[i] \in 1..steps'
    BY <2>1 DEF WorkersInv, StepsTyped
  <2>3. order \in [1..Len(order) -> 1..steps'] /\ Len(order) \in Nat
    BY <2>2 DEF WorkersInv, StepsTyped
  <2> QED
    BY <2>3
<1>2. StepsTyped'
  BY <1>1 DEF WorkersInv, StepsTyped
<1>3. BegunOnce'
  <2>1. \A i \in 1..Len(order) : order[i] \in 1..steps /\ order[i] \notin waiting
    BY DEF WorkersInv, StepsTyped, BegunOnce
  <2>2. \A i \in 1..Len(order) : ~(order[i] > steps)
    BY <2>1 DEF WorkersInv, StepsTyped
  <2> QED
    BY <2>1, <2>2 DEF WorkersInv, BegunOnce
<1>4. OneRuns' /\ \A w \in Workers : UpToDate(w)' \/ OneBehind(w)'
  BY DEF WorkersInv, OneRuns, Newest, UpToDate, OneBehind
<1> QED
  BY <1>2, <1>3, <1>4 DEF WorkersInv

(* The lock is free, so all workers are up to date; now all are one        *)
(* behind.                                                                 *)
LEMMA BeginKeeps ==
  ASSUME WorkersInv, NEW s \in waiting, Begin(s)
  PROVE  WorkersInv'
<1>1. /\ running = {} /\ running' = {s} /\ waiting' = waiting \ {s}
      /\ unsent' = unsent \cup ({s} \X Workers)
      /\ order' = Append(order, s)
      /\ UNCHANGED <<steps, broadcast, ran>>
  BY DEF Begin, LockIsFree
<1>2. s \in 1..steps /\ s \in Nat /\ order \in Seq(1..steps) /\ steps \in Nat
  BY DEF WorkersInv, StepsTyped
<1>3. /\ order' \in Seq(1..steps) /\ order' # <<>>
      /\ Len(order) \in Nat /\ Len(order') = Len(order) + 1
      /\ order'[Len(order) + 1] = s
      /\ \A k \in 1..Len(order) : order'[k] = order[k]
  BY <1>1, <1>2, AppendParts
<1>4. StepsTyped'
  BY <1>1, <1>2, <1>3 DEF WorkersInv, StepsTyped
<1>5. BegunOnce'
  <2>1. \A i \in 1..Len(order') : i \in 1..Len(order) \/ i = Len(order')
    BY <1>3
  <2>2. \A i \in 1..Len(order) : order[i] \notin waiting /\ order[i] # s
    BY DEF WorkersInv, BegunOnce
  <2>3. order'[Len(order')] = s
    BY <1>3
  <2>4. \A i \in 1..Len(order') : order'[i] \notin waiting'
    BY <1>1, <1>3, <2>1, <2>2, <2>3
  <2>5. \A i, j \in 1..Len(order') : order'[i] = order'[j] => i = j
    BY <1>3, <2>1, <2>2, <2>3 DEF WorkersInv, BegunOnce
  <2> QED
    BY <2>4, <2>5 DEF BegunOnce
<1>6. Newest' = s
  BY <1>3 DEF Newest
<1>7. OneRuns'
  BY <1>1, <1>3, <1>6 DEF OneRuns
<1>8. ASSUME NEW w \in Workers PROVE OneBehind(w)'
  <2>1. UpToDate(w)
    BY <1>1 DEF WorkersInv, OneBehind
  <2>2. Append(ran[w], s) = order' /\ broadcast'[w] = <<>> /\ ran' = ran
    BY <1>1, <2>1 DEF UpToDate
  <2>3. <<s, w>> \in unsent' /\ \A r \in Nat : <<r, w>> \in unsent' => r = s
    BY <1>1, <2>1 DEF UpToDate
  <2> QED
    BY <1>1, <1>6, <2>2, <2>3 DEF OneBehind
<1> QED
  BY <1>4, <1>5, <1>7, <1>8 DEF WorkersInv

LEMMA SendKeeps ==
  ASSUME WorkersInv, NEW s \in running, NEW w \in Workers, Send(s, w)
  PROVE  WorkersInv'
<1>1. /\ <<s, w>> \in unsent /\ unsent' = unsent \ {<<s, w>>}
      /\ broadcast' = [broadcast EXCEPT ![w] = Append(@, s)]
      /\ UNCHANGED <<steps, waiting, running, order, ran>>
  BY DEF Send
<1>2. s \in Nat
  BY <1>1 DEF WorkersInv, StepsTyped
<1>3. OneBehind(w) /\ s = Newest /\ broadcast[w] = <<>>
  BY <1>1, <1>2 DEF WorkersInv, UpToDate, OneBehind
<1>4. broadcast'[w] = <<s>> /\ \A v \in Workers : v # w => broadcast'[v] = broadcast[v]
  BY <1>1, <1>3 DEF WorkersInv, StepsTyped
<1>5. StepsTyped'
  <2>1. <<s>> \in Seq(Nat)
    BY <1>2
  <2>2. broadcast' \in [Workers -> Seq(Nat)]
    BY <1>1, <1>2, AppendProperties DEF WorkersInv, StepsTyped
  <2> QED
    BY <1>1, <2>2 DEF WorkersInv, StepsTyped
<1>6. BegunOnce' /\ OneRuns' /\ Newest' = Newest
  BY <1>1 DEF WorkersInv, BegunOnce, OneRuns, Newest
<1>7. OneBehind(w)'
  BY <1>1, <1>3, <1>4, <1>6 DEF OneBehind
<1>8. ASSUME NEW v \in Workers, v # w PROVE UpToDate(v)' \/ OneBehind(v)'
  <2>1. \A r \in Nat : <<r, v>> \in unsent' <=> <<r, v>> \in unsent
    BY <1>1, <1>8
  <2>2. <<Newest, v>> \in unsent' <=> <<Newest, v>> \in unsent
    BY <1>1, <1>8
  <2>3. UpToDate(v) \/ OneBehind(v)
    BY DEF WorkersInv
  <2>4. CASE UpToDate(v)
    BY <1>1, <1>4, <1>8, <2>1, <2>4 DEF UpToDate
  <2>5. CASE OneBehind(v)
    BY <1>1, <1>4, <1>6, <1>8, <2>1, <2>2, <2>5 DEF OneBehind
  <2> QED
    BY <2>3, <2>4, <2>5
<1> QED
  BY <1>5, <1>6, <1>7, <1>8 DEF WorkersInv

LEMMA ExecuteKeeps ==
  ASSUME WorkersInv, NEW w \in Workers, Execute(w)
  PROVE  WorkersInv'
<1>1. /\ broadcast[w] # <<>>
      /\ ran' = [ran EXCEPT ![w] = Append(@, Head(broadcast[w]))]
      /\ broadcast' = [broadcast EXCEPT ![w] = Tail(@)]
      /\ UNCHANGED <<steps, waiting, running, unsent, order>>
  BY DEF Execute, driver
<1>2. /\ OneBehind(w) /\ broadcast[w] = <<Newest>>
      /\ <<Newest, w>> \notin unsent
  BY <1>1 DEF WorkersInv, UpToDate, OneBehind
<1>3. Head(broadcast[w]) = Newest /\ Tail(broadcast[w]) = <<>>
  BY <1>2
<1>4. /\ ran'[w] = order /\ broadcast'[w] = <<>>
      /\ \A v \in Workers : v # w => ran'[v] = ran[v] /\ broadcast'[v] = broadcast[v]
  BY <1>1, <1>2, <1>3 DEF WorkersInv, StepsTyped, OneBehind
<1>5. StepsTyped'
  <2>1. order \in Seq(Nat)
    <3>1. \A i \in 1..Len(order) : order[i] \in Nat
      BY DEF WorkersInv, StepsTyped
    <3>2. order \in [1..Len(order) -> Nat] /\ Len(order) \in Nat
      BY <3>1 DEF WorkersInv, StepsTyped
    <3> QED
      BY <3>2
  <2>2. <<>> \in Seq(Nat)
    OBVIOUS
  <2>3. ran' \in [Workers -> Seq(Nat)] /\ broadcast' \in [Workers -> Seq(Nat)]
    BY <1>1, <1>4, <2>1, <2>2 DEF WorkersInv, StepsTyped
  <2> QED
    BY <1>1, <2>3 DEF WorkersInv, StepsTyped
<1>6. BegunOnce' /\ OneRuns' /\ Newest' = Newest
  BY <1>1 DEF WorkersInv, BegunOnce, OneRuns, Newest
<1>7. UpToDate(w)'
  BY <1>1, <1>2, <1>4 DEF UpToDate, OneBehind
<1>8. ASSUME NEW v \in Workers, v # w PROVE UpToDate(v)' \/ OneBehind(v)'
  <2>1. UpToDate(v) \/ OneBehind(v)
    BY DEF WorkersInv
  <2> QED
    BY <1>1, <1>4, <1>6, <1>8, <2>1 DEF UpToDate, OneBehind
<1> QED
  BY <1>5, <1>6, <1>7, <1>8 DEF WorkersInv

(* Every worker has done its share of the newest step, so none is behind.  *)
LEMMA EndKeeps ==
  ASSUME WorkersInv, NEW s \in running, End(s)
  PROVE  WorkersInv'
<1>1. /\ \A w \in Workers : \E k \in DOMAIN ran[w] : ran[w][k] = s
      /\ running' = running \ {s}
      /\ UNCHANGED <<steps, waiting, unsent, order, broadcast, ran>>
  BY DEF End
<1>2. running = {Newest} /\ s = Newest /\ running' = {}
  BY <1>1 DEF WorkersInv, OneRuns
<1>3. ASSUME NEW w \in Workers, OneBehind(w) PROVE FALSE
  <2>1. PICK k \in DOMAIN ran[w] : ran[w][k] = s
    BY <1>1
  <2>2. ran[w] \in Seq(Nat) /\ DOMAIN ran[w] = 1..Len(ran[w]) /\ Len(ran[w]) \in Nat
    BY DEF WorkersInv, StepsTyped
  <2>3. Append(ran[w], Newest) = order
    BY <1>3 DEF OneBehind
  <2>4. \A i \in 1..Len(order) : order[i] \in Nat
    BY DEF WorkersInv, StepsTyped
  <2>5. Len(order) = Len(ran[w]) + 1 /\ k \in 1..Len(order) /\ Len(order) \in 1..Len(order)
    BY <2>1, <2>2, <2>3
  <2>6. order[k] = s /\ order[Len(order)] = s
    BY <1>2, <2>1, <2>2, <2>3, <2>5 DEF Newest
  <2>7. k = Len(order)
    BY <2>5, <2>6 DEF WorkersInv, BegunOnce
  <2> QED
    BY <2>1, <2>2, <2>5, <2>7
<1>4. StepsTyped' /\ BegunOnce' /\ OneRuns'
  BY <1>1, <1>2 DEF WorkersInv, StepsTyped, BegunOnce, OneRuns
<1>5. \A w \in Workers : UpToDate(w)'
  BY <1>1, <1>3 DEF WorkersInv, UpToDate
<1> QED
  BY <1>4, <1>5 DEF WorkersInv

LEMMA NextWorkersInv == WorkersInv /\ [WorkersNext]_workers_vars => WorkersInv'
<1> SUFFICES ASSUME WorkersInv, [WorkersNext]_workers_vars PROVE WorkersInv'
  OBVIOUS
<1>0. steps \in Nat /\ steps >= steps /\ waiting \subseteq 1..steps
      /\ \A s \in waiting : s \in waiting \/ s > steps
  BY DEF WorkersInv, StepsTyped
<1>1. CASE Arrive
  <2>1. UNCHANGED <<running, unsent, order, broadcast, ran>>
        /\ waiting' = waiting \cup {steps + 1} /\ steps' = steps + 1
    BY <1>1 DEF Arrive
  <2>2. steps' \in Nat /\ steps' >= steps /\ waiting' \subseteq 1..steps'
    BY <1>0, <2>1
  <2>3. \A s \in waiting' : s \in waiting \/ s > steps
    BY <1>0, <2>1
  <2> QED
    BY <2>1, <2>2, <2>3, OthersKeepWorkers
<1>2. CASE Control
  BY <1>0, <1>2, OthersKeepWorkers DEF Control, driver
<1>3. ASSUME NEW s \in waiting, Begin(s) PROVE WorkersInv'
  BY <1>3, BeginKeeps
<1>4. ASSUME NEW s \in running, End(s) PROVE WorkersInv'
  BY <1>4, EndKeeps
<1>5. ASSUME NEW s \in running, NEW w \in Workers, Send(s, w) PROVE WorkersInv'
  BY <1>5, SendKeeps
<1>6. ASSUME NEW w \in Workers, Serve(w) PROVE WorkersInv'
  <2>1. UNCHANGED <<driver, steps, broadcast, ran>>
    BY <1>6 DEF Serve
  <2> QED
    BY <1>0, <2>1, OthersKeepWorkers DEF driver
<1>7. ASSUME NEW w \in Workers, Execute(w) PROVE WorkersInv'
  BY <1>7, ExecuteKeeps
<1>8. CASE UNCHANGED workers_vars
  BY <1>0, <1>8, OthersKeepWorkers DEF workers_vars, driver
<1> QED
  BY <1>1, <1>2, <1>3, <1>4, <1>5, <1>6, <1>7, <1>8 DEF WorkersNext

LEMMA WorkersInvSameSteps == WorkersInv => SameSteps
<1> SUFFICES ASSUME WorkersInv, NEW w \in Workers
             PROVE  /\ Len(order) \in {Len(ran[w]), Len(ran[w]) + 1}
                    /\ \A k \in DOMAIN ran[w] : ran[w][k] = order[k]
  BY DEF SameSteps
<1>1. CASE UpToDate(w)
  BY <1>1 DEF UpToDate
<1>2. CASE OneBehind(w)
  <2>1. ran[w] \in Seq(Nat) /\ order \in Seq(1..steps) /\ Append(ran[w], Newest) = order
    BY <1>2 DEF WorkersInv, StepsTyped, OneBehind
  <2>2. Len(order) = Len(ran[w]) + 1
    BY <2>1
  <2>3. \A k \in 1..Len(ran[w]) : Append(ran[w], Newest)[k] = ran[w][k]
    BY <2>1
  <2> QED
    BY <2>1, <2>2, <2>3
<1> QED
  BY <1>1, <1>2 DEF WorkersInv

(* Every worker of a stage executes the steps of the driver, in the order  *)
(* in which it began them and at most one behind, for any number of        *)
(* workers, virtual engines and steps, although an input reaches one       *)
(* worker after the other, and whatever else is called on them: the lock   *)
(* of the stage is enough (mp_distributed_executor.py:437,                 *)
(* comm_handler.py:97).                                                    *)
THEOREM WorkersExecuteSameSteps == WorkersSpec => []SameSteps
<1>1. WorkersSpec => []WorkersInv
  BY InitWorkersInv, NextWorkersInv, PTL DEF WorkersSpec
<1> QED
  BY <1>1, WorkersInvSameSteps, PTL

-----------------------------------------------------------------------------
(* NodeStartup.  There is a free port, and the first one is free.          *)
LEMMA LeastExists ==
  ASSUME NEW b \in Nat, NEW S \in SUBSET (0..b), S # {}
  PROVE  Min(S) \in S
<1> DEFINE D == {i \in 1..b + 1 : i - 1 \in S}
           Upto(i) == {j \in D : j <= i}
<1>0. D \in SUBSET (1..b + 1) /\ b + 1 \in Nat
  OBVIOUS
<1> HIDE DEF D
<1>1. /\ Cardinality(D) \in Nat
      /\ \A k \in 1..Cardinality(D) : \E i \in D : Cardinality(Upto(i)) = k
  BY <1>0, RanksBijective
<1> USE DEF D
<1>2. IsFiniteSet(D)
  <2>1. IsFiniteSet(1..b + 1)
    BY FS_Interval
  <2> QED
    BY <1>0, <2>1, FS_Subset
<1>3. D # {}
  <2>1. PICK x \in S : TRUE
    OBVIOUS
  <2>2. x + 1 \in D
    BY <2>1
  <2> QED
    BY <2>2
<1>4. Cardinality(D) # 0
  BY <1>2, <1>3, FS_EmptySet
<1>5. PICK i \in D : Cardinality(Upto(i)) = 1
  BY <1>1, <1>4
<1>6. ASSUME NEW j \in D, j < i PROVE FALSE
  <2>1. {i} \in SUBSET Upto(i) /\ j \in Upto(i) /\ j \notin {i}
    BY <1>0, <1>5, <1>6
  <2>2. IsFiniteSet(Upto(i))
    BY <1>2, FS_Subset
  <2>3. Cardinality({i}) = 1
    BY FS_Singleton
  <2>4. Upto(i) = {i}
    BY <1>5, <2>1, <2>2, <2>3, FS_Subset
  <2> QED
    BY <2>1, <2>4
<1>7. \A x \in S : i - 1 <= x
  <2> TAKE x \in S
  <2>1. x + 1 \in D /\ x \in Int /\ i \in Int
    BY <1>0
  <2>2. ~(x + 1 < i)
    BY <1>6, <2>1
  <2> QED
    BY <2>1, <2>2
<1>8. i - 1 \in S
  OBVIOUS
<1> QED
  BY <1>7, <1>8 DEF Min

LEMMA FreePort ==
  ASSUME port \in [Nodes -> Nat], NEW n \in Nodes
  PROVE  FindFreePort(n) \in Nat /\ ListenersAt(<<HostOf[n], FindFreePort(n)>>) = {}
<1> DEFINE K == Cardinality(Nodes)
           a == StartPort[n]
           S == {p \in a..a + K : ListenersAt(<<HostOf[n], p>>) = {}}
<1>1. K \in Nat /\ a \in Nat /\ IsFiniteSet(Nodes)
  BY NodeStartupAssumption, FS_CardinalityType DEF NodeStartupAssumption
<1> HIDE DEF K, a
<1>2. ASSUME S = {} PROVE FALSE
  <2> DEFINE D == {m \in Nodes : port[m] \in a..a + K}
             f == [m \in D |-> port[m]]
  <2>1. \A p \in a..a + K : \E m \in D : port[m] = p
    <3> TAKE p \in a..a + K
    <3>1. ListenersAt(<<HostOf[n], p>>) # {}
      BY <1>2
    <3>2. PICK m \in Nodes : Address(m) = <<HostOf[n], p>>
      BY <3>1 DEF ListenersAt, Up
    <3>3. port[m] = p
      BY <3>2 DEF Address
    <3> QED
      BY <3>3
  <2>2. f \in Surjection(D, a..a + K)
    BY <2>1 DEF Surjection
  <2>3. IsFiniteSet(D) /\ Cardinality(D) <= K
    BY <1>1, FS_Subset DEF K
  <2>4. Cardinality(a..a + K) <= Cardinality(D)
    BY <2>2, <2>3, FS_Surjection
  <2>5. Cardinality(a..a + K) = K + 1
    BY <1>1, FS_Interval
  <2>6. Cardinality(D) \in Nat
    BY <2>3, FS_CardinalityType
  <2> QED
    BY <1>1, <2>3, <2>4, <2>5, <2>6
<1>3. S \in SUBSET (0..a + K) /\ a + K \in Nat
  BY <1>1
<1>4. Min(S) \in S
  BY <1>2, <1>3, LeastExists
<1>5. FindFreePort(n) = Min(S)
  BY DEF FindFreePort, a, K
<1> QED
  BY <1>1, <1>3, <1>4, <1>5

-----------------------------------------------------------------------------
Stages == {"off", "launched", "probed", "serving", "member", "alone"}

(* One node of a machine comes up at a time; the port it has probed is     *)
(* free, and no port is used twice.                                        *)
PortsInv ==
    /\ \A m, n \in Nodes : ComesUp(m) /\ ComesUp(n) /\ HostOf[m] = HostOf[n] => m = n
    /\ \A n \in Nodes : stage[n] = "probed" => \A m \in Up : Address(m) # Address(n)
    /\ \A m, n \in Up : Address(m) = Address(n) => m = n

StartupInv ==
    /\ stage \in [Nodes -> Stages]
    /\ port \in [Nodes -> Nat]
    /\ oneByOne => PortsInv
    /\ \A a \in members : \/ a \in abandoned
                          \/ \E n \in Nodes : stage[n] = "member" /\ Address(n) = a

LEMMA InitStartupInv == StartupInit => StartupInv
  BY DEF StartupInit, StartupInv, PortsInv, Stages, Up, ComesUp

LEMMA LaunchStartupInv ==
  ASSUME StartupInv, NEW n \in Nodes, Launch(n)
  PROVE  StartupInv'
<1>1. /\ stage[n] = "off" /\ stage \in [Nodes -> Stages] /\ port \in [Nodes -> Nat]
      /\ oneByOne => \A m \in Nodes : HostOf[m] = HostOf[n] => ~ComesUp(m)
      /\ stage' = [stage EXCEPT ![n] = "launched"]
      /\ UNCHANGED <<oneByOne, port, members, abandoned>>
  BY DEF Launch, StartupInv
<1>2. \A m : Address(m)' = Address(m)
  BY <1>1 DEF Address
<1>3. /\ stage'[n] = "launched" /\ \A m \in Nodes : m # n => stage'[m] = stage[m]
      /\ stage' \in [Nodes -> Stages]
  BY <1>1 DEF Stages
<1>4. Up' = Up
  BY <1>1, <1>3 DEF Up
<1>5. \A m \in Nodes : ComesUp(m)' => m = n \/ ComesUp(m)
  BY <1>3 DEF ComesUp
<1>6. ASSUME oneByOne PROVE PortsInv'
  <2>1. \A k, m \in Nodes : ComesUp(k)' /\ ComesUp(m)' /\ HostOf[k] = HostOf[m] => k = m
    BY <1>1, <1>5, <1>6 DEF StartupInv, PortsInv
  <2>2. \A k \in Nodes : stage'[k] = "probed" => stage[k] = "probed"
    BY <1>3
  <2> QED
    BY <1>2, <1>4, <1>6, <2>1, <2>2 DEF StartupInv, PortsInv
<1>7. ASSUME NEW a \in members, a \notin abandoned
      PROVE  \E m \in Nodes : stage'[m] = "member" /\ Address(m) = a
  <2>1. PICK m \in Nodes : stage[m] = "member" /\ Address(m) = a
    BY <1>7 DEF StartupInv
  <2>2. m # n
    BY <1>1, <2>1
  <2> QED
    BY <1>3, <2>1, <2>2
<1> QED
  BY <1>1, <1>2, <1>3, <1>6, <1>7 DEF StartupInv

LEMMA ProbeStartupInv ==
  ASSUME StartupInv, NEW n \in Nodes, Probe(n)
  PROVE  StartupInv'
<1>a. PICK p : p = FindFreePort(n)
  OBVIOUS
<1>1. /\ stage[n] = "launched" /\ stage \in [Nodes -> Stages] /\ port \in [Nodes -> Nat]
      /\ stage' = [stage EXCEPT ![n] = "probed"]
      /\ port' = [port EXCEPT ![n] = p]
      /\ UNCHANGED <<oneByOne, members, abandoned, crashes>>
  BY <1>a DEF Probe, StartupInv
<1>2. p \in Nat /\ ListenersAt(<<HostOf[n], p>>) = {}
  BY <1>a, <1>1, FreePort
<1>3. /\ stage'[n] = "probed" /\ port'[n] = p
      /\ \A m \in Nodes : m # n => stage'[m] = stage[m] /\ port'[m] = port[m]
  BY <1>1
<1>4. Up' = Up /\ n \notin Up
  BY <1>1, <1>3 DEF Up
<1>5. /\ \A m \in Nodes : m # n => Address(m)' = Address(m)
      /\ Address(n)' = <<HostOf[n], p>>
  BY <1>3 DEF Address
<1>6. \A m \in Up : m \in Nodes /\ m # n /\ Address(m) # <<HostOf[n], p>>
  BY <1>2, <1>4 DEF ListenersAt, Up
<1>7. ASSUME oneByOne PROVE PortsInv'
  <2>0. \A m \in Nodes : ComesUp(m)' => ComesUp(m)
    BY <1>1, <1>3 DEF ComesUp
  <2>1. \A k, m \in Nodes : ComesUp(k)' /\ ComesUp(m)' /\ HostOf[k] = HostOf[m] => k = m
    BY <1>7, <2>0 DEF StartupInv, PortsInv
  <2>2. \A k \in Nodes : stage'[k] = "probed" =>
          \A m \in Up' : Address(m)' # Address(k)'
    BY <1>3, <1>4, <1>5, <1>6, <1>7 DEF StartupInv, PortsInv
  <2>3. \A k, m \in Up' : Address(k)' = Address(m)' => k = m
    BY <1>4, <1>5, <1>6, <1>7 DEF StartupInv, PortsInv
  <2> QED
    BY <2>1, <2>2, <2>3 DEF PortsInv
<1>8. ASSUME NEW a \in members, a \notin abandoned
      PROVE  \E m \in Nodes : stage'[m] = "member" /\ Address(m)' = a
  <2>1. PICK m \in Nodes : stage[m] = "member" /\ Address(m) = a
    BY <1>8 DEF StartupInv
  <2>2. m # n
    BY <1>1, <2>1
  <2> QED
    BY <1>3, <1>5, <2>1, <2>2
<1>9. stage' \in [Nodes -> Stages] /\ port' \in [Nodes -> Nat]
  BY <1>1, <1>2 DEF Stages
<1> QED
  BY <1>1, <1>7, <1>8, <1>9 DEF StartupInv

(* What starts a server, or lets one join, leaves the ports alone.         *)
LEMMA ServerStartupInv ==
  ASSUME StartupInv, NEW n \in Nodes, InitGrpcServer(n)
  PROVE  StartupInv'
<1>1. /\ stage[n] = "probed" /\ stage \in [Nodes -> Stages] /\ port \in [Nodes -> Nat]
      /\ UNCHANGED <<oneByOne, port, abandoned, crashes>>
  BY DEF InitGrpcServer, StartupInv
<1>2. \A m : Address(m)' = Address(m)
  BY <1>1 DEF Address
<1>3. PICK s : /\ stage' = [stage EXCEPT ![n] = s]
               /\ \/ /\ s \in {"member", "serving"}
                     /\ s = "member" <=> n = HeadNode
                     /\ members' = IF n = HeadNode THEN {Address(n)} ELSE members
                  \/ s = "off" /\ members' = members
  BY DEF InitGrpcServer
<1>4. /\ stage'[n] = s /\ \A m \in Nodes : m # n => stage'[m] = stage[m]
      /\ stage' \in [Nodes -> Stages] /\ s # "probed"
  BY <1>1, <1>3 DEF Stages
<1>5. \A m \in Up' : m \in Up \/ m = n
  BY <1>4 DEF Up
<1>6. ASSUME oneByOne PROVE PortsInv'
  <2>1. \A m \in Nodes : stage'[m] = "probed" => stage[m] = "probed" /\ m # n
    BY <1>4
  <2>2. \A m \in Up : m \in Nodes /\ Address(m) # Address(n)
    BY <1>1, <1>6 DEF StartupInv, PortsInv, Up
  <2>3. \A m \in Nodes : stage'[m] = "probed" => Address(m) # Address(n)
    BY <1>1, <1>6, <2>1 DEF StartupInv, PortsInv, Address, ComesUp
  <2>0. \A m \in Nodes : ComesUp(m)' => ComesUp(m)
    BY <1>1, <1>3, <1>4 DEF ComesUp
  <2>4. \A k, m \in Nodes : ComesUp(k)' /\ ComesUp(m)' /\ HostOf[k] = HostOf[m] => k = m
    BY <1>6, <2>0 DEF StartupInv, PortsInv
  <2>5. \A k \in Nodes : stage'[k] = "probed" =>
          \A m \in Up' : Address(m)' # Address(k)'
    BY <1>2, <1>5, <1>6, <2>1, <2>3 DEF StartupInv, PortsInv
  <2>6. \A k, m \in Up' : Address(k)' = Address(m)' => k = m
    BY <1>2, <1>5, <1>6, <2>2 DEF StartupInv, PortsInv
  <2> QED
    BY <2>4, <2>5, <2>6 DEF PortsInv
<1>7. ASSUME NEW a \in members', a \notin abandoned
      PROVE  \E m \in Nodes : stage'[m] = "member" /\ Address(m) = a
  <2>1. CASE a \in members
    <3>1. PICK m \in Nodes : stage[m] = "member" /\ Address(m) = a
      BY <1>7, <2>1 DEF StartupInv
    <3>2. m # n
      BY <1>1, <3>1
    <3> QED
      BY <1>4, <3>1, <3>2
  <2>2. CASE a \notin members
    <3>1. s = "member" /\ a = Address(n)
      BY <1>3, <1>7, <2>2
    <3> QED
      BY <1>4, <3>1
  <2> QED
    BY <2>1, <2>2
<1> QED
  BY <1>1, <1>2, <1>4, <1>6, <1>7 DEF StartupInv

LEMMA JoinStartupInv ==
  ASSUME StartupInv, NEW n \in Nodes, JoinPipeline(n)
  PROVE  StartupInv'
<1>1. /\ stage[n] = "serving" /\ stage \in [Nodes -> Stages] /\ port \in [Nodes -> Nat]
      /\ UNCHANGED <<oneByOne, port, abandoned, crashes>>
  BY DEF JoinPipeline, StartupInv
<1>2. \A m : Address(m)' = Address(m)
  BY <1>1 DEF Address
<1>3. PICK s : /\ stage' = [stage EXCEPT ![n] = s]
               /\ \/ s = "member" /\ members' = members \cup {Address(n)}
                  \/ s = "alone" /\ members' = members
  BY DEF JoinPipeline
<1>4. /\ stage'[n] = s /\ \A m \in Nodes : m # n => stage'[m] = stage[m]
      /\ stage' \in [Nodes -> Stages] /\ s \in {"member", "alone"}
  BY <1>1, <1>3 DEF Stages
<1>5. Up' = Up
  BY <1>1, <1>4 DEF Up
<1>6. \A m \in Nodes : stage'[m] = "probed" => stage[m] = "probed"
  BY <1>4
<1>7. ASSUME oneByOne PROVE PortsInv'
  <2>1. \A m \in Nodes : ComesUp(m)' => ComesUp(m)
    BY <1>4 DEF ComesUp
  <2> QED
    BY <1>2, <1>5, <1>6, <1>7, <2>1 DEF StartupInv, PortsInv
<1>8. ASSUME NEW a \in members', a \notin abandoned
      PROVE  \E m \in Nodes : stage'[m] = "member" /\ Address(m) = a
  <2>1. CASE a \in members
    <3>1. PICK m \in Nodes : stage[m] = "member" /\ Address(m) = a
      BY <1>8, <2>1 DEF StartupInv
    <3>2. m # n
      BY <1>1, <3>1
    <3> QED
      BY <1>4, <3>1, <3>2
  <2>2. CASE a \notin members
    <3>1. s = "member" /\ a = Address(n)
      BY <1>3, <1>8, <2>2
    <3> QED
      BY <1>4, <3>1
  <2> QED
    BY <2>1, <2>2
<1> QED
  BY <1>1, <1>2, <1>4, <1>7, <1>8 DEF StartupInv

LEMMA CrashStartupInv ==
  ASSUME StartupInv, NEW n \in Nodes, Crash(n)
  PROVE  StartupInv'
<1>1. /\ stage \in [Nodes -> Stages] /\ port \in [Nodes -> Nat]
      /\ stage' = [stage EXCEPT ![n] = "off"]
      /\ members' \in SUBSET members
      /\ abandoned \in SUBSET abandoned'
      /\ stage[n] = "member" => Address(n) \in abandoned'
      /\ UNCHANGED <<oneByOne, port>>
  BY DEF Crash, StartupInv, Up
<1>2. \A m : Address(m)' = Address(m)
  BY <1>1 DEF Address
<1>3. /\ \A m \in Nodes : m # n => stage'[m] = stage[m]
      /\ stage'[n] = "off" /\ stage' \in [Nodes -> Stages]
  BY <1>1 DEF Stages
<1>4. Up' \in SUBSET Up
  BY <1>3 DEF Up
<1>5. \A m \in Nodes : stage'[m] = "probed" => stage[m] = "probed"
  BY <1>3
<1>6. ASSUME oneByOne PROVE PortsInv'
  <2>1. \A m \in Nodes : ComesUp(m)' => ComesUp(m)
    BY <1>3 DEF ComesUp
  <2> QED
    BY <1>2, <1>4, <1>5, <1>6, <2>1 DEF StartupInv, PortsInv
<1>7. ASSUME NEW a \in members', a \notin abandoned'
      PROVE  \E m \in Nodes : stage'[m] = "member" /\ Address(m) = a
  <2>1. PICK m \in Nodes : stage[m] = "member" /\ Address(m) = a
    BY <1>1, <1>7 DEF StartupInv
  <2>2. m # n
    BY <1>1, <1>7, <2>1
  <2> QED
    BY <1>3, <2>1, <2>2
<1> QED
  BY <1>1, <1>2, <1>3, <1>6, <1>7 DEF StartupInv

(* An address the head knows belongs to one server that is up: to one, if  *)
(* the nodes of a machine are launched one after another (utils.py:57), so *)
(* that what was probed stays free; to a server that is up unless a        *)
(* process died there, because nodes register last (executor.py:144-190).  *)
THEOREM AddressesAreRight == StartupSpec => []AddressesHold
<1>1. StartupInv /\ [StartupNext]_startup_vars => StartupInv'
  <2> SUFFICES ASSUME StartupInv, [StartupNext]_startup_vars PROVE StartupInv'
    OBVIOUS
  <2>1. CASE UNCHANGED startup_vars
    <3>1. /\ UNCHANGED <<oneByOne, stage, port, members, abandoned>>
      BY <2>1 DEF startup_vars
    <3>2. Up' = Up /\ \A m : Address(m)' = Address(m) /\ ComesUp(m)' = ComesUp(m)
      BY <3>1 DEF Up, Address, ComesUp
    <3> QED
      BY <3>1, <3>2 DEF StartupInv, PortsInv
  <2> QED
    BY <2>1, LaunchStartupInv, ProbeStartupInv, ServerStartupInv, JoinStartupInv,
       CrashStartupInv DEF StartupNext
<1>2. StartupInv => AddressesHold
  <2> SUFFICES ASSUME StartupInv PROVE AddressesHold
    OBVIOUS
  <2>1. OneServerPerAddress
    BY DEF StartupInv, PortsInv, OneServerPerAddress, ListenersAt
  <2>2. MembersListen
    <3> SUFFICES ASSUME NEW a \in members, a \notin abandoned PROVE ListenersAt(a) # {}
      BY DEF MembersListen
    <3>1. PICK n \in Nodes : stage[n] = "member" /\ Address(n) = a
      BY DEF StartupInv
    <3> QED
      BY <3>1 DEF ListenersAt, Up
  <2> QED
    BY <2>1, <2>2 DEF AddressesHold
<1> QED
  BY <1>1, <1>2, InitStartupInv, PTL DEF StartupSpec
=============================================================================
