------------------------ MODULE MolinkPipelineProof ------------------------
(***************************************************************************)
(* Proofs about MolinkPipeline, for any nodes, batches, layouts and bounds.*)
(*                                                                         *)
(* First types, and the tensor slot of a worker.  Then where a batch is:   *)
(* never at two places of the cluster at once, since the hand-offs between *)
(* head task, delivery process, network and handlers move it, under any    *)
(* interleaving and fault.  What is proved about batches rests on this.    *)
(* Then the order of a batch's stages and the number of triggers.          *)
(* Last, what becomes of a batch and what its call returns.                *)
(***************************************************************************)
EXTENDS MolinkPipeline, PipelineTopologyProof

(* Whoever holds a lock stands at the head of its queue.                   *)
LockHeld ==
    /\ head_phase # "idle" => headq # <<>>
    /\ \A n \in Nodes : phase[n] # "idle" => lockq[n] # <<>>

(* A batch has a server list from its submission on, and none before.      *)
Fresh == \A b \in Batches : status[b] = "new" => servers[b] = <<>>

InList(b, n) == \E k \in DOMAIN servers[b] : servers[b][k] = n

RoutedPush(m) == m.push = "next" => InList(m.batch, m.to)

(* The data of a batch is only ever at, or on its way to, nodes of its     *)
(* list, so that a worker finds itself in it (executor.py:682).            *)
RoutedDq == \A n \in Nodes : \A i \in DOMAIN dq[n] : RoutedPush(dq[n][i])
RoutedNet == \A m \in net : RoutedPush(m)
RoutedInq == \A n \in Nodes : \A i \in DOMAIN inq[n] : InList(inq[n][i], n)
RoutedDeser == \A n \in Nodes : \A b \in deser[n] : InList(b, n)
RoutedLockq == \A n \in Nodes : \A i \in DOMAIN lockq[n] : InList(lockq[n][i], n)

Routed == RoutedDq /\ RoutedNet /\ RoutedInq /\ RoutedDeser /\ RoutedLockq

TypeInv == TypeOK /\ TopologyInv /\ LockHeld /\ Fresh /\ Routed

-----------------------------------------------------------------------------
(* Taking from the front of a queue and putting at its back.               *)
LEMMA QueueGet ==
    ASSUME NEW S, NEW q \in Seq(S), q # <<>>
    PROVE  /\ Head(q) \in S /\ Head(q) = q[1] /\ 1 \in DOMAIN q
           /\ Tail(q) \in Seq(S)
           /\ \A i \in DOMAIN Tail(q) : i + 1 \in DOMAIN q
                                       /\ Tail(q)[i] = q[i + 1]
  BY HeadTailProperties, EmptySeq, LenProperties

LEMMA QueuePut ==
    ASSUME NEW S, NEW q \in Seq(S), NEW e \in S
    PROVE  /\ Append(q, e) \in Seq(S) /\ Append(q, e) # <<>>
           /\ \A i \in DOMAIN Append(q, e) :
                 \/ i \in DOMAIN q /\ Append(q, e)[i] = q[i]
                 \/ Append(q, e)[i] = e
  BY AppendProperties, LenProperties

LEMMA LayoutRange ==
    ASSUME layout \in Layouts, NEW n \in Nodes
    PROVE  layout[n].start \in Starts /\ layout[n].end \in Ends
  BY LayoutsAssumption

LEMMA InitTypeInv == Init => TypeInv
  <1> SUFFICES ASSUME Init PROVE TypeInv
    OBVIOUS
  <1> USE NodesAssumption DEF Init
  <1>1. TopologyInv
    BY LayoutRange, TopologyInitInv
  <1>2. HeadTypeOK
    BY DEF HeadTypeOK
  <1>3. NetworkTypeOK
    BY DEF NetworkTypeOK
  <1>4. ServiceTypeOK
    BY DEF ServiceTypeOK
  <1>5. AuxTypeOK
    BY DEF AuxTypeOK
  <1>6. LockHeld /\ Fresh
    BY DEF LockHeld, Fresh
  <1>7. Routed
    BY DEF Routed, RoutedDq, RoutedNet, RoutedInq, RoutedDeser, RoutedLockq
  <1> QED
    BY <1>1, <1>2, <1>3, <1>4, <1>5, <1>6, <1>7
       DEF TypeInv, TypeOK, TopologyInv


(* What a step keeps when it leaves the variables behind it alone.         *)
LEMMA TopologyKept ==
    ASSUME TypeInv, UNCHANGED <<topology_vars, layout>>
    PROVE  TopologyTypeOK' /\ TopologyInv' /\ (layout \in Layouts)'
  BY DEF topology_vars, TypeInv, TypeOK, TopologyInv, TopologyTypeOK, StoresAgree

LEMMA HeadKept ==
    ASSUME TypeInv, UNCHANGED head_vars
    PROVE  HeadTypeOK' /\ Fresh'
  BY DEF TypeInv, TypeOK, head_vars, HeadTypeOK, Fresh

LEMMA ServiceKept ==
    ASSUME TypeInv, UNCHANGED service_vars, UNCHANGED servers
    PROVE  ServiceTypeOK' /\ RoutedInq' /\ RoutedDeser' /\ RoutedLockq'
  BY DEF TypeInv, TypeOK, service_vars, ServiceTypeOK, Routed, RoutedInq,
         RoutedDeser, RoutedLockq, InList

LEMMA NetworkKept ==
    ASSUME TypeInv, UNCHANGED network_vars, UNCHANGED servers
    PROVE  NetworkTypeOK' /\ RoutedDq' /\ RoutedNet'
  BY DEF TypeInv, TypeOK, network_vars, NetworkTypeOK, Routed, RoutedDq,
         RoutedNet, RoutedPush, InList

LEMMA AuxKept ==
    ASSUME TypeInv, UNCHANGED aux_vars
    PROVE  AuxTypeOK'
  BY DEF TypeInv, TypeOK, aux_vars, AuxTypeOK

LEMMA Keep ==
    ASSUME TopologyTypeOK', TopologyInv', (layout \in Layouts)', HeadTypeOK',
           Fresh', NetworkTypeOK', ServiceTypeOK', AuxTypeOK', LockHeld', Routed'
    PROVE  TypeInv'
  BY DEF TypeInv, TypeOK

(* Putting a routed push into a delivery queue, or dropping it.            *)
LEMMA DeliverTypeInv ==
    ASSUME TypeInv, NEW n \in Nodes, NEW item \in Push, RoutedPush(item),
           Deliver(n, item), UNCHANGED <<net, trig, path, faults, servers>>
    PROVE  NetworkTypeOK' /\ AuxTypeOK' /\ RoutedDq' /\ RoutedNet'
  <1> USE DEF TypeInv, TypeOK, NetworkTypeOK, AuxTypeOK, Routed
  <1>1. AuxTypeOK' /\ RoutedNet'
    BY DEF Deliver, Push, RoutedNet, RoutedPush, InList
  <1>2. CASE UNCHANGED dq
    BY <1>1, <1>2 DEF RoutedDq, RoutedPush, InList
  <1>3. CASE dq' = [dq EXCEPT ![n] = Append(@, item)]
    <2>1. dq[n] \in Seq(Push)
      OBVIOUS
    <2>2. dq' \in [Nodes -> Seq(Push)]
      BY <1>3, <2>1, QueuePut
    <2>3. \A m \in Nodes : \A i \in DOMAIN dq'[m] :
             dq'[m][i] = item \/ (i \in DOMAIN dq[m] /\ dq'[m][i] = dq[m][i])
      BY <1>3, <2>1, QueuePut
    <2>4. \A m \in Nodes : \A i \in DOMAIN dq'[m] : RoutedPush(dq'[m][i])
      BY <2>3 DEF RoutedDq
    <2>5. RoutedDq'
      BY <2>4 DEF RoutedDq, RoutedPush, InList
    <2> QED
      BY <1>1, <2>2, <2>5
  <1> QED
    BY <1>2, <1>3 DEF Deliver

LEMMA DropTypeInv ==
    ASSUME TypeInv, NEW b \in Batches, Drop(b), UNCHANGED <<trig, path, servers>>,
           net' \subseteq net, faults' \in Nat
    PROVE  NetworkTypeOK' /\ AuxTypeOK' /\ RoutedDq' /\ RoutedNet'
  BY DEF TypeInv, TypeOK, NetworkTypeOK, AuxTypeOK, Routed, Drop, RoutedDq,
         RoutedNet, RoutedPush, InList

LEMMA FaultCounts == ASSUME TypeInv, Fault PROVE faults' \in Nat
  BY DEF TypeInv, TypeOK, AuxTypeOK, Fault

LEMMA AnswerTypeInv ==
    ASSUME TypeInv, NEW b \in Batches, NEW r \in Result, Answer(b, r)
    PROVE  /\ status' \in [Batches -> {"new", "pending", "done", "failed"}]
           /\ result' \in [Batches -> Result \cup {NoResult}]
           /\ status'[b] # "new"
           /\ \A c \in Batches : c # b => status'[c] = status[c]
  BY DEF TypeInv, TypeOK, HeadTypeOK, Answer

-----------------------------------------------------------------------------
(* A queue with the members of another, none of them doubled.              *)
Rearranges(w, q) ==
    /\ DOMAIN w = DOMAIN q
    /\ \A i \in DOMAIN q : \E j \in DOMAIN q : w[i] = q[j]
    /\ (\A i, j \in DOMAIN q : q[i] = q[j] => i = j)
          => \A i, j \in DOMAIN q : w[i] = w[j] => i = j

LEMMA OvertakenKeeps ==
    ASSUME NEW S, NEW q \in Seq(S), NEW k \in 1..Len(q)
    PROVE  Overtaken(q, k) \in Seq(S) /\ Rearranges(Overtaken(q, k), q)
  <1> DEFINE w == Overtaken(q, k)
  <1>1. DOMAIN q = 1..Len(q) /\ Len(q) \in Nat /\ \A i \in DOMAIN q : q[i] \in S
    BY ElementOfSeq, LenProperties
  <1>2. DOMAIN w = DOMAIN q
    BY DEF Overtaken
  <1>3. \A i \in DOMAIN q : w[i] = IF i < k THEN q[i]
                                   ELSE IF i < Len(q) THEN q[i + 1] ELSE q[k]
    BY DEF Overtaken
  <1> HIDE DEF w
  <1>4. \A i \in DOMAIN q : \E j \in DOMAIN q : w[i] = q[j]
    <2> TAKE i \in DOMAIN q
    <2>1. CASE i < k
      BY <1>3, <2>1
    <2>2. CASE ~(i < k) /\ i < Len(q)
      <3>1. i + 1 \in DOMAIN q
        BY <1>1, <2>2
      <3> QED
        BY <1>3, <2>2, <3>1
    <2>3. CASE ~(i < k) /\ ~(i < Len(q))
      BY <1>1, <1>3, <2>3
    <2> QED
      BY <2>1, <2>2, <2>3
  <1>5. w \in Seq(S)
    <2>1. \A i \in 1..Len(q) : w[i] \in S
      BY <1>1, <1>4
    <2>2. w = [i \in 1..Len(q) |-> w[i]]
      BY <1>1 DEF w, Overtaken
    <2> QED
      BY <1>1, <2>1, <2>2, IsASeq
  <1>6. ASSUME \A i, j \in DOMAIN q : q[i] = q[j] => i = j,
               NEW i \in DOMAIN q, NEW j \in DOMAIN q, w[i] = w[j]
        PROVE  i = j
    <2> DEFINE from(m) == IF m < k THEN m ELSE IF m < Len(q) THEN m + 1 ELSE k
    <2>1. \A m \in DOMAIN q : from(m) \in DOMAIN q /\ w[m] = q[from(m)]
      BY <1>1, <1>3
    <2>2. from(i) = from(j)
      <3> HIDE DEF from
      <3> QED
        BY <1>6, <2>1
    <2> QED
      BY <1>1, <2>2
  <1> QED
    BY <1>2, <1>4, <1>5, <1>6 DEF w, Rearranges

(* After an output was taken ahead of them they still are who they were.   *)
LEMMA StolenFrom ==
    ASSUME TypeInv, NEW b \in Batches, Submit(b), outq # <<>>
    PROVE  waiters' \in Seq(Batches) /\ Rearranges(waiters', waiters)
  <1>1. waiters \in Seq(Batches) /\ Len(waiters) \in Nat
    BY LenProperties DEF TypeInv, TypeOK, HeadTypeOK
  <1>2. Len(outq) \in Nat \ {0}
    <2>1. outq \in Seq(Result)
      BY DEF TypeInv, TypeOK, HeadTypeOK
    <2> QED
      BY <2>1, LenProperties, EmptySeq
  <1>3. CASE waiters' = waiters
    BY <1>1, <1>3 DEF Rearranges
  <1>4. CASE waiters' # waiters
    <2>1. PICK k \in Len(outq)..Len(waiters) : waiters' = Overtaken(waiters, k)
      BY <1>4 DEF Submit
    <2>2. k \in 1..Len(waiters)
      BY <1>1, <1>2, <2>1
    <2> QED
      BY <1>1, <2>1, <2>2, OvertakenKeeps
  <1> QED
    BY <1>3, <1>4

-----------------------------------------------------------------------------
(* One lemma per action.                                                   *)

(* Submission: the list is well typed, and no data of b exists yet.        *)
LEMMA SubmitTypeInv ==
    ASSUME TypeInv, NEW b \in Batches, Submit(b)
    PROVE  TypeInv'
  <1> DEFINE list == ServerList(node_info)
  <1> USE DEF TypeInv, TypeOK, Submit
  <1>1. list \in Seq(Nodes) /\ DOMAIN list = 1..Len(list)
    BY ServerListType DEF TopologyTypeOK
  <1>2. servers' \in [Batches -> Seq(Nodes)]
    BY <1>1 DEF HeadTypeOK
  <1>3. headq' = Append(headq, b) /\ headq \in Seq(Batches)
    BY DEF HeadTypeOK
  <1>3a. headq' \in Seq(Batches) /\ headq' # <<>>
    BY <1>3, QueuePut
  <1>4. HeadTypeOK' /\ Fresh'
    <2>1. CASE outq = <<>>
      <3>0. waiters' = Append(waiters, b) /\ waiters \in Seq(Batches)
        BY <2>1 DEF HeadTypeOK
      <3>1. waiters' \in Seq(Batches)
        BY <3>0, QueuePut
      <3>2. status' = [status EXCEPT ![b] = "pending"]
        BY <2>1
      <3> QED
        BY <2>1, <3>1, <3>2, <1>2, <1>3a DEF HeadTypeOK, Fresh
    <2>2. CASE outq # <<>>
      <3>1. Head(outq) \in Result /\ outq' \in Seq(Result)
        BY <2>2, QueueGet DEF HeadTypeOK
      <3>2. Answer(b, Head(outq))
        BY <2>2
      <3>3. /\ status' \in [Batches -> {"new", "pending", "done", "failed"}]
            /\ result' \in [Batches -> Result \cup {NoResult}]
            /\ status'[b] # "new"
            /\ \A c \in Batches : c # b => status'[c] = status[c]
        BY <3>1, <3>2, AnswerTypeInv
      <3>4. waiters' \in Seq(Batches)
        BY <2>2, StolenFrom
      <3> QED
        BY <2>2, <3>1, <3>3, <3>4, <1>2, <1>3a DEF HeadTypeOK, Fresh
    <2> QED
      BY <2>1, <2>2
  <1>5. NetworkTypeOK' /\ ServiceTypeOK' /\ AuxTypeOK'
    BY DEF NetworkTypeOK, ServiceTypeOK, AuxTypeOK, service_vars, aux_vars
  <1>6. LockHeld'
    BY <1>3a DEF LockHeld, service_vars
  <1>7. \A c \in Batches, n \in Nodes : InList(c, n) => InList(c, n)'
    BY DEF InList, Fresh, HeadTypeOK
  <1>8. dq \in [Nodes -> Seq(Push)] /\ net \subseteq Push
    BY DEF NetworkTypeOK
  <1>9. \A m \in Push : RoutedPush(m) => RoutedPush(m)'
    BY <1>7 DEF RoutedPush, Push
  <1>10. RoutedDq'
    BY <1>8, <1>9 DEF Routed, RoutedDq
  <1>11. RoutedNet'
    BY <1>8, <1>9 DEF Routed, RoutedNet
  <1>12. RoutedInq' /\ RoutedDeser' /\ RoutedLockq'
    BY <1>7 DEF Routed, RoutedInq, RoutedDeser, RoutedLockq, ServiceTypeOK,
                service_vars
  <1> QED
    BY <1>4, <1>5, <1>6, <1>10, <1>11, <1>12, TopologyKept, Keep DEF Routed

LEMMA SubmitEmptyTypeInv ==
    ASSUME TypeInv, NEW b \in Batches, SubmitEmpty(b)
    PROVE  TypeInv'
  <1> USE DEF SubmitEmpty
  <1>1. [batch |-> b, out |-> "empty"] \in Result
    BY DEF Result
  <1>2. HeadTypeOK' /\ Fresh'
    BY <1>1, AnswerTypeInv DEF TypeInv, TypeOK, HeadTypeOK, Fresh
  <1>3. LockHeld'
    BY DEF TypeInv, LockHeld, service_vars
  <1> QED
    BY <1>2, <1>3, TopologyKept, NetworkKept, ServiceKept, AuxKept, Keep
       DEF Routed

LEMMA CollectTypeInv ==
    ASSUME TypeInv, Collect
    PROVE  TypeInv'
  <1> USE DEF Collect
  <1>1. /\ Head(outq) \in Result /\ outq' \in Seq(Result)
        /\ Head(waiters) \in Batches /\ waiters' \in Seq(Batches)
    BY QueueGet DEF TypeInv, TypeOK, HeadTypeOK
  <1>2. HeadTypeOK' /\ Fresh'
    BY <1>1, AnswerTypeInv DEF TypeInv, TypeOK, HeadTypeOK, Fresh
  <1>3. LockHeld'
    BY DEF TypeInv, LockHeld, service_vars
  <1> QED
    BY <1>2, <1>3, TopologyKept, NetworkKept, ServiceKept, AuxKept, Keep
       DEF Routed

LEMMA HeadExecuteTypeInv ==
    ASSUME TypeInv, HeadExecute
    PROVE  TypeInv'
  <1> USE NodesAssumption DEF HeadExecute
  <1>1. Head(headq) \in Batches
    BY QueueGet DEF TypeInv, TypeOK, HeadTypeOK
  <1>2. HeadTypeOK' /\ Fresh'
    BY DEF TypeInv, TypeOK, HeadTypeOK, Fresh
  <1>3. AuxTypeOK'
    <2>1. Append(path[Head(headq)], HeadNode) \in Seq(Nodes)
      BY <1>1, QueuePut DEF TypeInv, TypeOK, AuxTypeOK
    <2> QED
      BY <1>1, <2>1 DEF TypeInv, TypeOK, AuxTypeOK
  <1>4. ServiceTypeOK' /\ LockHeld'
    BY DEF TypeInv, TypeOK, ServiceTypeOK, LockHeld
  <1>5. RoutedInq' /\ RoutedDeser' /\ RoutedLockq'
    BY DEF TypeInv, Routed, RoutedInq, RoutedDeser, RoutedLockq, InList
  <1> QED
    BY <1>2, <1>3, <1>4, <1>5, TopologyKept, NetworkKept, Keep DEF Routed

(* Freeing the executor's lock.                                            *)
LEMMA ReleaseHeadLockTypeInv ==
    ASSUME TypeInv, ReleaseHeadLock, outq' \in Seq(Result)
    PROVE  /\ TopologyTypeOK' /\ TopologyInv' /\ (layout \in Layouts)'
           /\ HeadTypeOK' /\ Fresh' /\ LockHeld'
           /\ ServiceTypeOK' /\ RoutedInq' /\ RoutedDeser' /\ RoutedLockq'
           /\ Head(headq) \in Batches
  <1> USE DEF ReleaseHeadLock
  <1>1. headq # <<>>
    BY DEF TypeInv, LockHeld
  <1>2. Head(headq) \in Batches /\ headq' \in Seq(Batches)
    BY <1>1, QueueGet DEF TypeInv, TypeOK, HeadTypeOK
  <1>3. HeadTypeOK' /\ Fresh'
    BY <1>2 DEF TypeInv, TypeOK, HeadTypeOK, Fresh
  <1>4. LockHeld'
    BY DEF TypeInv, LockHeld, service_vars
  <1> QED
    BY <1>2, <1>3, <1>4, TopologyKept, ServiceKept

LEMMA HeadDeliverTypeInv ==
    ASSUME TypeInv, HeadDeliver
    PROVE  TypeInv'
  <1> DEFINE b == Head(headq)
             item == ToNext(b, servers[b][2])
  <1> USE NodesAssumption DEF HeadDeliver
  <1>1. outq' \in Seq(Result)
    BY DEF TypeInv, TypeOK, HeadTypeOK
  <1>2. ReleaseHeadLock
    OBVIOUS
  <1>3. b \in Batches
    BY <1>1, <1>2, ReleaseHeadLockTypeInv
  <1>4. servers[b] \in Seq(Nodes) /\ 2 \in DOMAIN servers[b]
    BY <1>3, LenProperties DEF TypeInv, TypeOK, HeadTypeOK
  <1>5. item \in Push /\ RoutedPush(item)
    BY <1>3, <1>4 DEF ToNext, Push, RoutedPush, InList
  <1>6. Deliver(HeadNode, item) /\ UNCHANGED <<net, trig, path, faults, servers>>
    BY DEF ReleaseHeadLock
  <1>7. NetworkTypeOK' /\ AuxTypeOK' /\ RoutedDq' /\ RoutedNet'
    BY <1>5, <1>6, DeliverTypeInv
  <1> QED
    BY <1>1, <1>2, <1>7, ReleaseHeadLockTypeInv, Keep DEF Routed

LEMMA HeadOutputsNoneTypeInv ==
    ASSUME TypeInv, HeadOutputsNone
    PROVE  TypeInv'
  <1> DEFINE r == [batch |-> Head(headq), out |-> "none"]
  <1> USE DEF HeadOutputsNone, ReleaseHeadLock
  <1>1. headq # <<>> /\ Head(headq) \in Batches
    BY QueueGet DEF TypeInv, TypeOK, LockHeld, HeadTypeOK
  <1>2. r \in Result
    BY <1>1 DEF Result
  <1>3. outq' \in Seq(Result)
    BY <1>2, QueuePut DEF TypeInv, TypeOK, HeadTypeOK
  <1>4. NetworkTypeOK' /\ AuxTypeOK' /\ RoutedDq' /\ RoutedNet'
    BY NetworkKept, AuxKept DEF network_vars, aux_vars
  <1> QED
    BY <1>3, <1>4, ReleaseHeadLockTypeInv, Keep DEF Routed

LEMMA HeadAloneTypeInv ==
    ASSUME TypeInv, HeadAlone
    PROVE  TypeInv'
  <1> DEFINE b == Head(headq)
             r == [batch |-> b, out |-> "json"]
  <1> USE DEF HeadAlone, ReleaseHeadLock
  <1>1. headq # <<>> /\ b \in Batches
    BY QueueGet DEF TypeInv, TypeOK, LockHeld, HeadTypeOK
  <1>2. r \in Result
    BY <1>1 DEF Result
  <1>3. outq' \in Seq(Result)
    <2>1. outq \in Seq(Result) /\ (outq' = Append(outq, r) \/ outq' = outq)
      BY DEF TypeInv, TypeOK, HeadTypeOK
    <2> QED
      BY <1>2, <2>1, QueuePut
  <1>4. CASE IsLastStage(layout[HeadNode])
    <2>1. NetworkTypeOK' /\ AuxTypeOK' /\ RoutedDq' /\ RoutedNet'
      BY <1>4, NetworkKept, AuxKept DEF network_vars, aux_vars
    <2> QED
      BY <1>3, <2>1, ReleaseHeadLockTypeInv, Keep DEF Routed
  <1>5. CASE ~IsLastStage(layout[HeadNode])
    <2>1. Drop(b) /\ net' \subseteq net /\ faults' \in Nat
      BY <1>5 DEF TypeInv, TypeOK, AuxTypeOK
    <2>2. NetworkTypeOK' /\ AuxTypeOK' /\ RoutedDq' /\ RoutedNet'
      BY <1>1, <2>1, DropTypeInv
    <2> QED
      BY <1>3, <2>2, ReleaseHeadLockTypeInv, Keep DEF Routed
  <1> QED
    BY <1>4, <1>5

LEMMA HeadFailsTypeInv ==
    ASSUME TypeInv, HeadFails
    PROVE  TypeInv'
  <1> USE DEF HeadFails
  <1>1. Head(headq) \in Batches /\ headq' \in Seq(Batches)
    BY QueueGet DEF TypeInv, TypeOK, HeadTypeOK
  <1>2. HeadTypeOK' /\ Fresh'
    BY <1>1 DEF TypeInv, TypeOK, HeadTypeOK, Fresh
  <1>3. LockHeld'
    BY DEF TypeInv, LockHeld, service_vars
  <1>4. NetworkTypeOK' /\ AuxTypeOK' /\ RoutedDq' /\ RoutedNet'
    BY <1>1, DropTypeInv, FaultCounts
  <1> QED
    BY <1>2, <1>3, <1>4, TopologyKept, ServiceKept, Keep DEF Routed

LEMMA ConsumerTakeTypeInv ==
    ASSUME TypeInv, NEW n \in Nodes, ConsumerTake(n)
    PROVE  TypeInv'
  <1> USE DEF ConsumerTake
  <1>1. dq \in [Nodes -> Seq(Push)] /\ dq[n] \in Seq(Push) /\ net \subseteq Push
    BY DEF TypeInv, TypeOK, NetworkTypeOK
  <1>2. /\ Head(dq[n]) \in Push /\ Head(dq[n]) = dq[n][1] /\ 1 \in DOMAIN dq[n]
        /\ Tail(dq[n]) \in Seq(Push)
        /\ \A i \in DOMAIN Tail(dq[n]) : /\ i + 1 \in DOMAIN dq[n]
                                         /\ Tail(dq[n])[i] = dq[n][i + 1]
    BY <1>1, QueueGet
  <1>3. UNCHANGED servers
    BY DEF head_vars
  <1>4. NetworkTypeOK'
    BY <1>1, <1>2 DEF TypeInv, TypeOK, NetworkTypeOK
  <1>5. RoutedPush(Head(dq[n])) /\ RoutedNet'
    BY <1>2, <1>3 DEF TypeInv, Routed, RoutedDq, RoutedNet, RoutedPush, InList
  <1>6. \A m \in Nodes : \A i \in DOMAIN dq'[m] : RoutedPush(dq'[m][i])
    BY <1>1, <1>2 DEF TypeInv, Routed, RoutedDq
  <1>7. RoutedDq'
    <2>1. ASSUME NEW m \in Nodes, NEW i \in DOMAIN dq'[m] PROVE RoutedPush(dq[m][i])'
      <3>1. RoutedPush(dq'[m][i])
        BY <1>6
      <3> QED
        BY <1>3, <3>1 DEF RoutedPush, InList
    <2> QED
      BY <2>1 DEF RoutedDq
  <1>8. LockHeld'
    BY DEF TypeInv, LockHeld, service_vars, head_vars
  <1> QED
    BY <1>3, <1>4, <1>5, <1>7, <1>8, TopologyKept, HeadKept, ServiceKept,
       AuxKept, Keep DEF Routed

LEMMA PushIntermediateTensorsTypeInv ==
    ASSUME TypeInv, NEW m \in net, PushIntermediateTensors(m)
    PROVE  TypeInv'
  <1> USE DEF PushIntermediateTensors
  <1>1. m \in Push /\ m.to \in Nodes /\ m.batch \in Batches
    BY DEF TypeInv, TypeOK, NetworkTypeOK, Push
  <1>2. InList(m.batch, m.to)
    BY DEF TypeInv, Routed, RoutedNet, RoutedPush
  <1>3. inq \in [Nodes -> Seq(Batches)] /\ inq[m.to] \in Seq(Batches)
    BY <1>1 DEF TypeInv, TypeOK, ServiceTypeOK
  <1>4. /\ Append(inq[m.to], m.batch) \in Seq(Batches)
        /\ \A i \in DOMAIN Append(inq[m.to], m.batch) :
              \/ /\ i \in DOMAIN inq[m.to]
                 /\ Append(inq[m.to], m.batch)[i] = inq[m.to][i]
              \/ Append(inq[m.to], m.batch)[i] = m.batch
    BY <1>1, <1>3, QueuePut
  <1>5. NetworkTypeOK' /\ ServiceTypeOK'
    BY <1>1, <1>3, <1>4 DEF TypeInv, TypeOK, NetworkTypeOK, ServiceTypeOK
  <1>6. UNCHANGED servers
    BY DEF head_vars
  <1>7. RoutedInq'
    <2>1. \A n \in Nodes : \A i \in DOMAIN inq'[n] : InList(inq'[n][i], n)
      BY <1>1, <1>2, <1>3, <1>4 DEF TypeInv, Routed, RoutedInq
    <2> QED
      BY <1>6, <2>1 DEF RoutedInq, InList
  <1>8. RoutedDq' /\ RoutedNet' /\ RoutedDeser' /\ RoutedLockq'
    BY <1>6 DEF TypeInv, Routed, RoutedDq, RoutedNet, RoutedDeser, RoutedLockq,
                RoutedPush, InList
  <1>9. LockHeld'
    BY DEF TypeInv, LockHeld, head_vars
  <1> QED
    BY <1>5, <1>7, <1>8, <1>9, TopologyKept, HeadKept, AuxKept, Keep DEF Routed

LEMMA PushSamplerOutputTypeInv ==
    ASSUME TypeInv, NEW m \in net, PushSamplerOutput(m)
    PROVE  TypeInv'
  <1> DEFINE r == [batch |-> m.batch, out |-> m.out]
  <1> USE DEF PushSamplerOutput
  <1>1. r \in Result
    BY DEF TypeInv, TypeOK, NetworkTypeOK, Push, Result
  <1>2. HeadTypeOK' /\ Fresh'
    BY <1>1, QueuePut DEF TypeInv, TypeOK, HeadTypeOK, Fresh
  <1>3. NetworkTypeOK' /\ RoutedDq' /\ RoutedNet'
    BY DEF TypeInv, TypeOK, NetworkTypeOK, Routed, RoutedDq, RoutedNet,
           RoutedPush, InList
  <1>4. LockHeld'
    BY DEF TypeInv, LockHeld, service_vars
  <1> QED
    BY <1>2, <1>3, <1>4, TopologyKept, ServiceKept, AuxKept, Keep DEF Routed

LEMMA LosePushTypeInv ==
    ASSUME TypeInv, NEW m \in net, LosePush(m)
    PROVE  TypeInv'
  <1> USE DEF LosePush
  <1>1. m.batch \in Batches /\ UNCHANGED servers
    BY DEF TypeInv, TypeOK, NetworkTypeOK, Push, head_vars
  <1>2. NetworkTypeOK' /\ AuxTypeOK' /\ RoutedDq' /\ RoutedNet'
    BY <1>1, DropTypeInv, FaultCounts
  <1>3. LockHeld'
    BY DEF TypeInv, LockHeld, service_vars, head_vars
  <1> QED
    BY <1>1, <1>2, <1>3, TopologyKept, HeadKept, ServiceKept, Keep DEF Routed

LEMMA TriggerArrivesTypeInv ==
    ASSUME TypeInv, NEW n \in Nodes, TriggerArrives(n)
    PROVE  TypeInv'
  <1> USE DEF TriggerArrives
  <1>1. NetworkTypeOK' /\ ServiceTypeOK'
    BY DEF TypeInv, TypeOK, NetworkTypeOK, ServiceTypeOK
  <1>2. LockHeld'
    BY DEF TypeInv, LockHeld, head_vars
  <1>3. Routed'
    BY DEF TypeInv, Routed, RoutedDq, RoutedNet, RoutedInq, RoutedDeser,
           RoutedLockq, RoutedPush, InList, head_vars
  <1> QED
    BY <1>1, <1>2, <1>3, TopologyKept, HeadKept, AuxKept, Keep

LEMMA LoseTriggerTypeInv ==
    ASSUME TypeInv, NEW n \in Nodes, LoseTrigger(n)
    PROVE  TypeInv'
  <1> USE DEF LoseTrigger
  <1>1. NetworkTypeOK' /\ AuxTypeOK'
    BY FaultCounts DEF TypeInv, TypeOK, NetworkTypeOK, AuxTypeOK
  <1>2. LockHeld'
    BY DEF TypeInv, LockHeld, head_vars, service_vars
  <1>3. Routed'
    BY DEF TypeInv, Routed, RoutedDq, RoutedNet, RoutedInq, RoutedDeser,
           RoutedLockq, RoutedPush, InList, head_vars, service_vars
  <1>4. UNCHANGED servers
    BY DEF head_vars
  <1> QED
    BY <1>1, <1>2, <1>3, <1>4, TopologyKept, HeadKept, ServiceKept, Keep

LEMMA GetInputTypeInv ==
    ASSUME TypeInv, NEW n \in Nodes, GetInput(n)
    PROVE  TypeInv'
  <1> USE DEF GetInput
  <1>1. inq \in [Nodes -> Seq(Batches)] /\ inq[n] \in Seq(Batches)
    BY DEF TypeInv, TypeOK, ServiceTypeOK
  <1>2. /\ Head(inq[n]) \in Batches /\ Head(inq[n]) = inq[n][1]
        /\ 1 \in DOMAIN inq[n] /\ Tail(inq[n]) \in Seq(Batches)
        /\ \A i \in DOMAIN Tail(inq[n]) : /\ i + 1 \in DOMAIN inq[n]
                                          /\ Tail(inq[n])[i] = inq[n][i + 1]
    BY <1>1, QueueGet
  <1>3. ServiceTypeOK'
    BY <1>1, <1>2 DEF TypeInv, TypeOK, ServiceTypeOK
  <1>4. UNCHANGED servers
    BY DEF head_vars
  <1>5. RoutedInq'
    <2>1. \A m \in Nodes : \A i \in DOMAIN inq'[m] : InList(inq'[m][i], m)
      BY <1>1, <1>2 DEF TypeInv, Routed, RoutedInq
    <2> QED
      BY <1>4, <2>1 DEF RoutedInq, InList
  <1>6. InList(Head(inq[n]), n)
    BY <1>2 DEF TypeInv, Routed, RoutedInq
  <1>7. RoutedDeser' /\ RoutedLockq'
    <2>1. \A m \in Nodes : \A c \in deser'[m] : InList(c, m)
      BY <1>6 DEF TypeInv, TypeOK, ServiceTypeOK, Routed, RoutedDeser
    <2> QED
      BY <1>4, <2>1 DEF TypeInv, Routed, RoutedDeser, RoutedLockq, InList
  <1>8. LockHeld'
    BY DEF TypeInv, LockHeld, head_vars
  <1> QED
    BY <1>3, <1>4, <1>5, <1>7, <1>8, TopologyKept, HeadKept, NetworkKept,
       AuxKept, Keep DEF Routed

LEMMA InputTimeoutTypeInv ==
    ASSUME TypeInv, NEW n \in Nodes, InputTimeout(n)
    PROVE  TypeInv'
  <1> USE DEF InputTimeout
  <1>1. ServiceTypeOK' /\ AuxTypeOK'
    BY FaultCounts DEF TypeInv, TypeOK, ServiceTypeOK, AuxTypeOK
  <1>2. LockHeld'
    BY DEF TypeInv, LockHeld, head_vars
  <1>3. Routed'
    BY DEF TypeInv, Routed, RoutedDq, RoutedNet, RoutedInq, RoutedDeser,
           RoutedLockq, RoutedPush, InList, head_vars, network_vars
  <1>4. UNCHANGED servers
    BY DEF head_vars
  <1> QED
    BY <1>1, <1>2, <1>3, <1>4, TopologyKept, HeadKept, NetworkKept, Keep

LEMMA DeserializedTypeInv ==
    ASSUME TypeInv, NEW n \in Nodes, NEW b \in Batches, Deserialized(n, b)
    PROVE  TypeInv'
  <1> USE DEF Deserialized
  <1>1. lockq \in [Nodes -> Seq(Batches)] /\ lockq[n] \in Seq(Batches)
    BY DEF TypeInv, TypeOK, ServiceTypeOK
  <1>2. /\ Append(lockq[n], b) \in Seq(Batches) /\ Append(lockq[n], b) # <<>>
        /\ \A i \in DOMAIN Append(lockq[n], b) :
              \/ /\ i \in DOMAIN lockq[n]
                 /\ Append(lockq[n], b)[i] = lockq[n][i]
              \/ Append(lockq[n], b)[i] = b
    BY <1>1, QueuePut
  <1>3. ServiceTypeOK'
    BY <1>1, <1>2 DEF TypeInv, TypeOK, ServiceTypeOK
  <1>4. UNCHANGED servers
    BY DEF head_vars
  <1>5. InList(b, n)
    BY DEF TypeInv, Routed, RoutedDeser
  <1>6. RoutedLockq'
    <2>1. \A m \in Nodes : \A i \in DOMAIN lockq'[m] : InList(lockq'[m][i], m)
      BY <1>1, <1>2, <1>5 DEF TypeInv, Routed, RoutedLockq
    <2> QED
      BY <1>4, <2>1 DEF RoutedLockq, InList
  <1>7. RoutedInq' /\ RoutedDeser'
    <2>1. \A m \in Nodes : \A c \in deser'[m] : InList(c, m)
      BY DEF TypeInv, TypeOK, ServiceTypeOK, Routed, RoutedDeser
    <2> QED
      BY <1>4, <2>1 DEF TypeInv, Routed, RoutedInq, RoutedDeser, InList
  <1>8. LockHeld'
    BY <1>1, <1>2 DEF TypeInv, LockHeld, head_vars
  <1> QED
    BY <1>3, <1>4, <1>6, <1>7, <1>8, TopologyKept, HeadKept, NetworkKept,
       AuxKept, Keep DEF Routed

LEMMA DeserializeFailsTypeInv ==
    ASSUME TypeInv, NEW n \in Nodes, NEW b \in Batches, DeserializeFails(n, b)
    PROVE  TypeInv'
  <1> USE DEF DeserializeFails
  <1>1. UNCHANGED servers
    BY DEF head_vars
  <1>2. NetworkTypeOK' /\ AuxTypeOK' /\ RoutedDq' /\ RoutedNet'
    BY <1>1, DropTypeInv, FaultCounts
  <1>3. ServiceTypeOK'
    BY DEF TypeInv, TypeOK, ServiceTypeOK
  <1>4. LockHeld'
    BY DEF TypeInv, LockHeld, head_vars
  <1>5. RoutedInq' /\ RoutedDeser' /\ RoutedLockq'
    <2>1. \A m \in Nodes : \A c \in deser'[m] : InList(c, m)
      BY DEF TypeInv, TypeOK, ServiceTypeOK, Routed, RoutedDeser
    <2> QED
      BY <1>1, <2>1
         DEF TypeInv, Routed, RoutedInq, RoutedDeser, RoutedLockq, InList
  <1> QED
    BY <1>1, <1>2, <1>3, <1>4, <1>5, TopologyKept, HeadKept, Keep DEF Routed

LEMMA SetTensorsTypeInv ==
    ASSUME TypeInv, NEW n \in Nodes, SetTensors(n)
    PROVE  TypeInv'
  <1> USE DEF SetTensors
  <1>1. Head(lockq[n]) \in Batches
    BY QueueGet DEF TypeInv, TypeOK, ServiceTypeOK
  <1>2. ServiceTypeOK' /\ LockHeld'
    BY <1>1 DEF TypeInv, TypeOK, ServiceTypeOK, LockHeld, head_vars
  <1>3. Routed'
    BY DEF TypeInv, Routed, RoutedDq, RoutedNet, RoutedInq, RoutedDeser,
           RoutedLockq, RoutedPush, InList, head_vars, network_vars
  <1>4. UNCHANGED servers
    BY DEF head_vars
  <1> QED
    BY <1>2, <1>3, <1>4, TopologyKept, HeadKept, NetworkKept, AuxKept, Keep

LEMMA WorkerExecuteTypeInv ==
    ASSUME TypeInv, NEW n \in Nodes, WorkerExecute(n)
    PROVE  TypeInv'
  <1> USE DEF WorkerExecute
  <1>1. lockq[n] # <<>> /\ Head(lockq[n]) \in Batches
    BY QueueGet DEF TypeInv, TypeOK, ServiceTypeOK, LockHeld
  <1>2. slot' \in [Nodes -> Batches \cup {NoBatch}]
    BY DEF TypeInv, TypeOK, ServiceTypeOK, TakeTensors
  <1>3. ServiceTypeOK' /\ LockHeld'
    BY <1>1, <1>2 DEF TypeInv, TypeOK, ServiceTypeOK, LockHeld, head_vars
  <1>4. AuxTypeOK'
    <2>1. Append(path[Head(lockq[n])], n) \in Seq(Nodes)
      BY <1>1, QueuePut DEF TypeInv, TypeOK, AuxTypeOK
    <2> QED
      BY <1>1, <2>1 DEF TypeInv, TypeOK, AuxTypeOK
  <1>5. Routed'
    BY DEF TypeInv, Routed, RoutedDq, RoutedNet, RoutedInq, RoutedDeser,
           RoutedLockq, RoutedPush, InList, head_vars, network_vars
  <1>6. UNCHANGED servers
    BY DEF head_vars
  <1> QED
    BY <1>3, <1>4, <1>5, <1>6, TopologyKept, HeadKept, NetworkKept, Keep

(* Freeing a node's lock.                                                  *)
LEMMA LockFreed ==
    ASSUME TypeInv, NEW n \in Nodes, phase[n] # "idle",
           phase' = [phase EXCEPT ![n] = "idle"],
           lockq' = [lockq EXCEPT ![n] = Tail(@)],
           slot' \in [Nodes -> Batches \cup {NoBatch}],
           UNCHANGED <<getters, inq, deser>>, UNCHANGED head_vars
    PROVE  /\ ServiceTypeOK' /\ LockHeld'
           /\ RoutedInq' /\ RoutedDeser' /\ RoutedLockq'
           /\ Head(lockq[n]) \in Batches /\ InList(Head(lockq[n]), n)
  <1>1. lockq \in [Nodes -> Seq(Batches)] /\ lockq[n] \in Seq(Batches)
    BY DEF TypeInv, TypeOK, ServiceTypeOK
  <1>2. lockq[n] # <<>>
    BY DEF TypeInv, LockHeld
  <1>3. /\ Head(lockq[n]) \in Batches /\ Head(lockq[n]) = lockq[n][1]
        /\ 1 \in DOMAIN lockq[n] /\ Tail(lockq[n]) \in Seq(Batches)
        /\ \A i \in DOMAIN Tail(lockq[n]) :
              i + 1 \in DOMAIN lockq[n] /\ Tail(lockq[n])[i] = lockq[n][i + 1]
    BY <1>1, <1>2, QueueGet
  <1>4. ServiceTypeOK' /\ LockHeld'
    BY <1>1, <1>3 DEF TypeInv, TypeOK, ServiceTypeOK, LockHeld, head_vars
  <1>5. UNCHANGED servers
    BY DEF head_vars
  <1>6. RoutedLockq'
    <2>1. \A m \in Nodes : \A i \in DOMAIN lockq'[m] : InList(lockq'[m][i], m)
      BY <1>1, <1>3 DEF TypeInv, Routed, RoutedLockq
    <2> QED
      BY <1>5, <2>1 DEF RoutedLockq, InList
  <1>7. RoutedInq' /\ RoutedDeser'
    BY <1>5 DEF TypeInv, Routed, RoutedInq, RoutedDeser, InList
  <1>8. InList(Head(lockq[n]), n)
    BY <1>3 DEF TypeInv, Routed, RoutedLockq
  <1> QED
    BY <1>3, <1>4, <1>6, <1>7, <1>8

(* The node finds itself in the list, so the next hop is in it too.        *)
LEMMA WorkerDeliverTypeInv ==
    ASSUME TypeInv, NEW n \in Nodes, WorkerDeliver(n)
    PROVE  TypeInv'
  <1> DEFINE b == Head(lockq[n])
             k == MyIndex(b, n)
  <1> USE NodesAssumption DEF WorkerDeliver
  <1>1. phase[n] # "idle" /\ UNCHANGED head_vars
    BY DEF head_vars
  <1>2. /\ ServiceTypeOK' /\ LockHeld'
        /\ RoutedInq' /\ RoutedDeser' /\ RoutedLockq'
        /\ b \in Batches /\ InList(b, n)
    BY <1>1, LockFreed DEF TypeInv, TypeOK, ServiceTypeOK
  <1>3. servers[b] \in Seq(Nodes) /\ k \in DOMAIN servers[b]
    BY <1>2 DEF TypeInv, TypeOK, HeadTypeOK, InList, MyIndex, Route
  <1>4. UNCHANGED <<net, trig, path, servers>> /\ net' \subseteq net
    BY <1>1 DEF head_vars
  <1>5. NetworkTypeOK' /\ AuxTypeOK' /\ RoutedDq' /\ RoutedNet'
    <2>1. CASE k = Len(Route(b))
      <3> DEFINE item == [push |-> "head", to |-> HeadNode, batch |-> b,
                          out |-> WorkerOutput(n)]
      <3>1. item \in Push /\ RoutedPush(item)
        BY <1>2 DEF Push, RoutedPush, WorkerOutput
      <3>2. Deliver(n, item) /\ UNCHANGED faults
        BY <2>1
      <3> HIDE DEF item
      <3> QED
        BY <1>4, <3>1, <3>2, DeliverTypeInv
    <2>2. CASE k # Len(Route(b)) /\ IsLastStage(layout[n])
      <3>1. Drop(b) /\ faults' \in Nat
        BY <2>2 DEF TypeInv, TypeOK, AuxTypeOK
      <3> QED
        BY <1>2, <1>4, <3>1, DropTypeInv
    <2>3. CASE k # Len(Route(b)) /\ ~IsLastStage(layout[n])
      <3> DEFINE item == ToNext(b, Route(b)[k + 1])
      <3>1. k + 1 \in DOMAIN servers[b] /\ servers[b][k + 1] \in Nodes
        BY <1>3, <2>3, LenProperties DEF Route
      <3>2. item \in Push /\ RoutedPush(item)
        BY <1>2, <3>1 DEF Push, RoutedPush, ToNext, Route, InList
      <3>3. Deliver(n, item) /\ UNCHANGED faults
        BY <2>3
      <3> HIDE DEF item
      <3> QED
        BY <1>4, <3>2, <3>3, DeliverTypeInv
    <2> QED
      BY <2>1, <2>2, <2>3
  <1> QED
    BY <1>1, <1>2, <1>5, TopologyKept, HeadKept, Keep DEF Routed

LEMMA WorkerFailsTypeInv ==
    ASSUME TypeInv, NEW n \in Nodes, WorkerFails(n)
    PROVE  TypeInv'
  <1> USE DEF WorkerFails
  <1>1. slot' \in [Nodes -> Batches \cup {NoBatch}]
    BY DEF TypeInv, TypeOK, ServiceTypeOK, TakeTensors
  <1>2. phase[n] # "idle" /\ UNCHANGED head_vars /\ UNCHANGED servers
    BY DEF head_vars
  <1>3. /\ ServiceTypeOK' /\ LockHeld'
        /\ RoutedInq' /\ RoutedDeser' /\ RoutedLockq'
        /\ Head(lockq[n]) \in Batches
    BY <1>1, <1>2, LockFreed
  <1>4. NetworkTypeOK' /\ AuxTypeOK' /\ RoutedDq' /\ RoutedNet'
    BY <1>2, <1>3, DropTypeInv, FaultCounts
  <1> QED
    BY <1>2, <1>3, <1>4, TopologyKept, HeadKept, Keep DEF Routed

LEMMA RestartTypeInv ==
    ASSUME TypeInv, NEW n \in Nodes, Restart(n)
    PROVE  TypeInv'
  <1> USE DEF Restart
  <1>1. UNCHANGED servers
    BY DEF head_vars
  <1>2. NetworkTypeOK' /\ ServiceTypeOK'
    BY DEF TypeInv, TypeOK, NetworkTypeOK, ServiceTypeOK
  <1>3. AuxTypeOK'
    BY FaultCounts DEF TypeInv, TypeOK, AuxTypeOK, HeldBy
  <1>4. RoutedDq' /\ RoutedNet'
    <2>1. \A m \in Nodes : dq'[m] = dq[m] \/ dq'[m] = <<>>
      BY DEF TypeInv, TypeOK, NetworkTypeOK
    <2>2. \A m \in Nodes : \A i \in DOMAIN dq'[m] : RoutedPush(dq'[m][i])
      BY <2>1 DEF TypeInv, Routed, RoutedDq
    <2> QED
      BY <1>1, <2>2 DEF TypeInv, Routed, RoutedDq, RoutedNet, RoutedPush, InList
  <1>5. RoutedInq' /\ RoutedDeser' /\ RoutedLockq'
    <2>1. \A m \in Nodes : /\ inq'[m] = inq[m] \/ inq'[m] = <<>>
                           /\ deser'[m] \subseteq deser[m]
                           /\ lockq'[m] = lockq[m] \/ lockq'[m] = <<>>
      BY DEF TypeInv, TypeOK, ServiceTypeOK
    <2>2. \A m \in Nodes : \A i \in DOMAIN inq'[m] : InList(inq'[m][i], m)
      BY <2>1 DEF TypeInv, Routed, RoutedInq
    <2>3. \A m \in Nodes : \A c \in deser'[m] : InList(c, m)
      BY <2>1 DEF TypeInv, Routed, RoutedDeser
    <2>4. \A m \in Nodes : \A i \in DOMAIN lockq'[m] : InList(lockq'[m][i], m)
      BY <2>1 DEF TypeInv, Routed, RoutedLockq
    <2> QED
      BY <1>1, <2>2, <2>3, <2>4 DEF RoutedInq, RoutedDeser, RoutedLockq, InList
  <1>6. LockHeld'
    BY DEF TypeInv, TypeOK, ServiceTypeOK, LockHeld, head_vars
  <1> QED
    BY <1>2, <1>3, <1>4, <1>5, <1>6, TopologyKept, HeadKept, Keep DEF Routed

LEMMA JoinTypeInv ==
    ASSUME TypeInv, NEW n \in Nodes, Join(n)
    PROVE  TypeInv'
  <1> USE DEF Join
  <1>1. layout[n].start \in Starts /\ layout[n].end \in Ends
    BY LayoutRange DEF TypeInv, TypeOK
  <1>2. TopologyTypeOK' /\ TopologyInv' /\ (layout \in Layouts)'
    BY <1>1, AddNodeInv DEF TypeInv, TypeOK, JoinPipeline, TopologyInv
  <1>3. UNCHANGED servers
    BY DEF head_vars
  <1>4. LockHeld'
    BY DEF TypeInv, LockHeld, head_vars, service_vars
  <1> QED
    BY <1>2, <1>3, <1>4, HeadKept, NetworkKept, ServiceKept, AuxKept, Keep
       DEF Routed

-----------------------------------------------------------------------------
LEMMA StutterTypeInv ==
    ASSUME TypeInv, UNCHANGED vars
    PROVE  TypeInv'
  <1>1. /\ UNCHANGED <<topology_vars, layout>> /\ UNCHANGED head_vars
        /\ UNCHANGED network_vars /\ UNCHANGED service_vars
        /\ UNCHANGED aux_vars /\ UNCHANGED servers
    BY DEF vars, head_vars
  <1>2. LockHeld'
    BY <1>1 DEF TypeInv, LockHeld, head_vars, service_vars
  <1> QED
    BY <1>1, <1>2, TopologyKept, HeadKept, NetworkKept, ServiceKept, AuxKept,
       Keep DEF Routed

LEMMA NextTypeInv ==
    ASSUME TypeInv, [Next]_vars
    PROVE  TypeInv'
  <1>1. ASSUME NEW b \in Batches, Submit(b) \/ SubmitEmpty(b)
        PROVE  TypeInv'
    BY <1>1, SubmitTypeInv, SubmitEmptyTypeInv
  <1>2. CASE HeadStep
    BY <1>2, CollectTypeInv, HeadExecuteTypeInv, HeadDeliverTypeInv,
       HeadOutputsNoneTypeInv, HeadAloneTypeInv DEF HeadStep
  <1>3. CASE MessageStep
    BY <1>3, PushIntermediateTensorsTypeInv, PushSamplerOutputTypeInv
       DEF MessageStep
  <1>4. ASSUME NEW n \in Nodes, NodeStep(n) \/ Join(n)
        PROVE  TypeInv'
    BY <1>4, ConsumerTakeTypeInv, TriggerArrivesTypeInv, GetInputTypeInv,
       DeserializedTypeInv, SetTensorsTypeInv, WorkerExecuteTypeInv,
       WorkerDeliverTypeInv, JoinTypeInv DEF NodeStep
  <1>5. CASE FaultStep
    BY <1>5, HeadFailsTypeInv, LosePushTypeInv, LoseTriggerTypeInv,
       InputTimeoutTypeInv, DeserializeFailsTypeInv, WorkerFailsTypeInv,
       RestartTypeInv DEF FaultStep
  <1>6. CASE UNCHANGED vars
    BY <1>6, StutterTypeInv
  <1> QED
    BY <1>1, <1>2, <1>3, <1>4, <1>5, <1>6 DEF Next

(* TypeInv is an invariant: whoever holds a lock is first in its queue, a  *)
(* batch gets its server list once, and its data is only at nodes of it.   *)
THEOREM PipelineInvariant == Spec => []TypeInv
  <1>1. TypeInv /\ [Next]_vars => TypeInv'
    BY NextTypeInv
  <1> QED
    BY <1>1, InitTypeInv, PTL DEF Spec

(* Type correctness of the whole pipeline under any joins, interleavings   *)
(* and faults.  The one step that can break it is a worker looking itself  *)
(* up in the list of a batch it was not meant to get.                      *)
THEOREM TypeCorrect == Spec => []TypeOK
  BY PipelineInvariant, PTL DEF TypeInv

-----------------------------------------------------------------------------
(* The head's own forward passes share the worker, and so the slot, with   *)
(* the service; they leave it alone if the head holds the first layer.     *)
HeadHoldsFirstLayer == \A l \in Layouts : IsFirstStage(l[HeadNode])

LEMMA NextSlot ==
    ASSUME HeadHoldsFirstLayer, TypeInv, SlotHoldsRunningBatch, [Next]_vars
    PROVE  SlotHoldsRunningBatch'
  <1> USE DEF SlotHoldsRunningBatch
  <1>0. /\ lockq \in [Nodes -> Seq(Batches)]
        /\ phase \in [Nodes -> {"idle", "set", "ran"}]
        /\ slot \in [Nodes -> Batches \cup {NoBatch}]
    BY DEF TypeInv, TypeOK, ServiceTypeOK
  <1>1. CASE UNCHANGED <<slot, phase, lockq>>
    BY <1>1
  <1>2. CASE HeadExecute
    <2>1. UNCHANGED <<slot, phase, lockq>>
      BY <1>2 DEF HeadExecute, HeadHoldsFirstLayer, TypeInv, TypeOK
    <2> QED
      BY <2>1
  <1>3. ASSUME NEW n \in Nodes, NEW b \in Batches, Deserialized(n, b)
        PROVE  SlotHoldsRunningBatch'
    <2>1. /\ UNCHANGED <<slot, phase>>
          /\ \A k \in Nodes : lockq'[k] = IF k = n THEN Append(lockq[n], b)
                                                   ELSE lockq[k]
      BY <1>0, <1>3 DEF Deserialized
    <2>2. phase[n] = "set" => Head(Append(lockq[n], b)) = Head(lockq[n])
      <3>1. phase[n] = "set" => lockq[n] # <<>> /\ lockq[n] \in Seq(Batches)
        BY <1>0 DEF TypeInv, LockHeld
      <3> QED
        BY <3>1, AppendProperties, HeadTailProperties, LenProperties, EmptySeq
    <2> QED
      BY <2>1, <2>2
  <1>4. ASSUME NEW n \in Nodes, SetTensors(n)
        PROVE  SlotHoldsRunningBatch'
    BY <1>0, <1>4 DEF SetTensors
  <1>5. ASSUME NEW n \in Nodes,
               WorkerExecute(n) \/ WorkerFails(n) \/ WorkerDeliver(n) \/ Restart(n)
        PROVE  SlotHoldsRunningBatch'
    <2>1. /\ phase'[n] # "set"
          /\ \A k \in Nodes \ {n} : /\ phase'[k] = phase[k]
                                    /\ slot'[k] = slot[k]
                                    /\ lockq'[k] = lockq[k]
      BY <1>0, <1>5 DEF WorkerExecute, WorkerFails, WorkerDeliver, Restart,
                        TakeTensors
    <2> QED
      BY <2>1
  <1>6. ASSUME NEW b \in Batches, Submit(b) \/ SubmitEmpty(b)
        PROVE  UNCHANGED <<slot, phase, lockq>>
    BY <1>6 DEF Submit, SubmitEmpty, service_vars
  <1>7. ASSUME Collect \/ HeadDeliver \/ HeadOutputsNone \/ HeadAlone \/ MessageStep
        PROVE  UNCHANGED <<slot, phase, lockq>>
    BY <1>7 DEF Collect, HeadDeliver, HeadOutputsNone, HeadAlone, ReleaseHeadLock,
                MessageStep, PushIntermediateTensors, PushSamplerOutput,
                service_vars
  <1>8. ASSUME NEW n \in Nodes,
               \/ ConsumerTake(n) \/ TriggerArrives(n) \/ GetInput(n) \/ Join(n)
               \/ LoseTrigger(n) \/ InputTimeout(n)
        PROVE  UNCHANGED <<slot, phase, lockq>>
    BY <1>8 DEF ConsumerTake, TriggerArrives, GetInput, Join, LoseTrigger,
                InputTimeout, service_vars
  <1>9. ASSUME HeadFails \/ \E m \in net : LosePush(m)
        PROVE  UNCHANGED <<slot, phase, lockq>>
    BY <1>9 DEF HeadFails, LosePush, service_vars
  <1>10. CASE UNCHANGED vars
    BY <1>1, <1>10 DEF vars, service_vars
  <1>11. ASSUME NEW n \in Nodes, NEW b \in Batches, DeserializeFails(n, b)
         PROVE  UNCHANGED <<slot, phase, lockq>>
    BY <1>11 DEF DeserializeFails
  <1> QED
    BY <1>1, <1>2, <1>3, <1>4, <1>5, <1>6, <1>7, <1>8, <1>9, <1>10, <1>11
       DEF Next, HeadStep, NodeStep, FaultStep

(* No forward pass reads the tensors of another batch, however many        *)
(* batches are outstanding: the service's lock spans storing and reading.  *)
THEOREM RightTensors ==
    ASSUME HeadHoldsFirstLayer
    PROVE  Spec => []SlotHoldsRunningBatch
  <1>1. TypeInv /\ SlotHoldsRunningBatch /\ [Next]_vars
           => TypeInv' /\ SlotHoldsRunningBatch'
    BY NextTypeInv, NextSlot
  <1>2. Init => TypeInv /\ SlotHoldsRunningBatch
    BY InitTypeInv DEF Init, SlotHoldsRunningBatch
  <1> QED
    BY <1>1, <1>2, PTL DEF Spec

-----------------------------------------------------------------------------
(* Queues of batches, and queues of messages about batches.                *)
Occurs(q, b) == \E i \in DOMAIN q : q[i] = b
OccursIn(q, b) == \E i \in DOMAIN q : q[i].batch = b

Distinct(q) == \A i, j \in DOMAIN q : q[i] = q[j] => i = j
DistinctIn(q) == \A i, j \in DOMAIN q : q[i].batch = q[j].batch => i = j

Places == {"headq", "outq", "net", "dq", "inq", "deser", "lockq"}

(* The data of b is at place p of node n; the places there is only one of  *)
(* belong to the head.                                                     *)
At(p, n, b) ==
    \/ p = "headq" /\ n = HeadNode /\ Occurs(headq, b)
    \/ p = "outq" /\ n = HeadNode /\ OccursIn(outq, b)
    \/ p = "net" /\ n = HeadNode /\ \E m \in net : m.batch = b
    \/ p = "dq" /\ OccursIn(dq[n], b)
    \/ p = "inq" /\ Occurs(inq[n], b)
    \/ p = "deser" /\ b \in deser[n]
    \/ p = "lockq" /\ Occurs(lockq[n], b)

Somewhere(b) == \E p \in Places : \E n \in Nodes : At(p, n, b)

(* A step after which a batch is somewhere only if it was before.          *)
NoneAppears == \A b \in Batches : Somewhere(b)' => Somewhere(b)

NoRepeatNet == \A m1, m2 \in net : m1.batch = m2.batch => m1 = m2
NoRepeatHead == Distinct(headq) /\ DistinctIn(outq)
NoRepeatNode ==
    \A n \in Nodes : DistinctIn(dq[n]) /\ Distinct(inq[n]) /\ Distinct(lockq[n])

NoRepeat == NoRepeatNet /\ NoRepeatHead /\ NoRepeatNode

Single ==
    \A b \in Batches : \A p, q \in Places : \A n, m \in Nodes :
        At(p, n, b) /\ At(q, m, b) => p = q /\ n = m

Unborn ==
    \A b \in Batches : status[b] = "new" =>
        \A p \in Places : \A n \in Nodes : ~At(p, n, b)

PlacesInv == NoRepeat /\ Single /\ Unborn

-----------------------------------------------------------------------------
(* Taking from a queue without repetitions removes the batch from it;      *)
(* putting a batch that is not in it keeps it without repetitions.         *)
LEMMA GetBatch ==
    ASSUME NEW S, NEW q \in Seq(S), q # <<>>, Distinct(q)
    PROVE  /\ Distinct(Tail(q)) /\ ~Occurs(Tail(q), Head(q))
           /\ Occurs(q, Head(q))
           /\ \A c : Occurs(Tail(q), c) => Occurs(q, c)
  <1>1. /\ Head(q) = q[1] /\ 1 \in DOMAIN q
        /\ \A i \in DOMAIN Tail(q) : i + 1 \in DOMAIN q
                                    /\ Tail(q)[i] = q[i + 1]
    BY QueueGet
  <1>2. \A i \in DOMAIN Tail(q) : i \in Nat /\ i # 0
    BY HeadTailProperties, LenProperties
  <1> QED
    BY <1>1, <1>2 DEF Distinct, Occurs

LEMMA GetMessage ==
    ASSUME NEW S, NEW q \in Seq(S), q # <<>>, DistinctIn(q)
    PROVE  /\ DistinctIn(Tail(q)) /\ ~OccursIn(Tail(q), Head(q).batch)
           /\ OccursIn(q, Head(q).batch)
           /\ \A c : OccursIn(Tail(q), c) => OccursIn(q, c)
  <1>1. /\ Head(q) = q[1] /\ 1 \in DOMAIN q
        /\ \A i \in DOMAIN Tail(q) : i + 1 \in DOMAIN q
                                    /\ Tail(q)[i] = q[i + 1]
    BY QueueGet
  <1>2. \A i \in DOMAIN Tail(q) : i \in Nat /\ i # 0
    BY HeadTailProperties, LenProperties
  <1> QED
    BY <1>1, <1>2 DEF DistinctIn, OccursIn

LEMMA PutBatch ==
    ASSUME NEW S, NEW q \in Seq(S), NEW e \in S, Distinct(q), ~Occurs(q, e)
    PROVE  /\ Distinct(Append(q, e))
           /\ \A c : Occurs(Append(q, e), c) => c = e \/ Occurs(q, c)
  <1>1. /\ DOMAIN q = 1..Len(q) /\ Len(q) \in Nat
        /\ DOMAIN Append(q, e) = 1..(Len(q) + 1)
        /\ \A i \in DOMAIN q : Append(q, e)[i] = q[i]
        /\ Append(q, e)[Len(q) + 1] = e
    BY AppendProperties, LenProperties
  <1>2. \A i \in DOMAIN Append(q, e) : i \in DOMAIN q \/ i = Len(q) + 1
    BY <1>1
  <1> QED
    BY <1>1, <1>2 DEF Distinct, Occurs

LEMMA PutMessage ==
    ASSUME NEW S, NEW q \in Seq(S), NEW e \in S, DistinctIn(q),
           ~OccursIn(q, e.batch)
    PROVE  /\ DistinctIn(Append(q, e))
           /\ \A c : OccursIn(Append(q, e), c) => c = e.batch \/ OccursIn(q, c)
  <1>1. /\ DOMAIN q = 1..Len(q) /\ Len(q) \in Nat
        /\ DOMAIN Append(q, e) = 1..(Len(q) + 1)
        /\ \A i \in DOMAIN q : Append(q, e)[i] = q[i]
        /\ Append(q, e)[Len(q) + 1] = e
    BY AppendProperties, LenProperties
  <1>2. \A i \in DOMAIN Append(q, e) : i \in DOMAIN q \/ i = Len(q) + 1
    BY <1>1
  <1> QED
    BY <1>1, <1>2 DEF DistinctIn, OccursIn

(* A batch that is at one place is at no other.                            *)
LEMMA NowhereElse ==
    ASSUME PlacesInv, NEW b \in Batches, NEW p \in Places, NEW n \in Nodes,
           At(p, n, b)
    PROVE  /\ status[b] # "new"
           /\ p # "headq" => ~Occurs(headq, b)
           /\ p # "outq" => ~OccursIn(outq, b)
           /\ p # "net" => \A m \in net : m.batch # b
           /\ \A k \in Nodes :
                 /\ p # "dq" \/ k # n => ~OccursIn(dq[k], b)
                 /\ p # "inq" \/ k # n => ~Occurs(inq[k], b)
                 /\ p # "deser" \/ k # n => b \notin deser[k]
                 /\ p # "lockq" \/ k # n => ~Occurs(lockq[k], b)
  <1>1. \A r \in Places : \A k \in Nodes : At(r, k, b) => r = p /\ k = n
    BY DEF PlacesInv, Single
  <1>2. status[b] # "new"
    BY DEF PlacesInv, Unborn
  <1>3. /\ HeadNode \in Nodes
        /\ "headq" \in Places /\ "outq" \in Places /\ "net" \in Places
        /\ "dq" \in Places /\ "inq" \in Places /\ "deser" \in Places
        /\ "lockq" \in Places
    BY NodesAssumption DEF Places
  <1>4. p # "headq" => ~Occurs(headq, b)
    BY <1>1, <1>3 DEF At
  <1>5. p # "outq" => ~OccursIn(outq, b)
    BY <1>1, <1>3 DEF At
  <1>6. p # "net" => \A m \in net : m.batch # b
    BY <1>1, <1>3 DEF At
  <1>7. \A k \in Nodes :
           /\ p # "dq" \/ k # n => ~OccursIn(dq[k], b)
           /\ p # "inq" \/ k # n => ~Occurs(inq[k], b)
           /\ p # "deser" \/ k # n => b \notin deser[k]
           /\ p # "lockq" \/ k # n => ~Occurs(lockq[k], b)
    BY <1>1, <1>3 DEF At
  <1> QED
    BY <1>2, <1>4, <1>5, <1>6, <1>7

(* A batch that has not been submitted is nowhere.                         *)
LEMMA Nowhere ==
    ASSUME PlacesInv, NEW b \in Batches, status[b] = "new"
    PROVE  /\ ~Occurs(headq, b) /\ ~OccursIn(outq, b)
           /\ \A m \in net : m.batch # b
           /\ \A k \in Nodes : /\ ~OccursIn(dq[k], b) /\ ~Occurs(inq[k], b)
                               /\ b \notin deser[k] /\ ~Occurs(lockq[k], b)
  <1>1. \A r \in Places : \A k \in Nodes : ~At(r, k, b)
    BY DEF PlacesInv, Unborn
  <1> QED
    BY <1>1, NodesAssumption DEF At, Places

(* Moving b to place q of node m, or dropping it, and moving nothing else. *)
LEMMA Moved ==
    ASSUME PlacesInv, NEW b \in Batches, NEW q, NEW m,
           status'[b] # "new",
           \A c \in Batches : status'[c] = "new" => status[c] = "new",
           \A c \in Batches : \A r \in Places : \A k \in Nodes :
              At(r, k, c)' => \/ c = b /\ r = q /\ k = m
                              \/ c # b /\ At(r, k, c)
    PROVE  /\ Single' /\ Unborn'
           /\ \A c \in Batches \ {b} : Somewhere(c)' => Somewhere(c)
           /\ Somewhere(b) => NoneAppears
  <1>1. Single'
    <2> SUFFICES ASSUME NEW c \in Batches, NEW r \in Places, NEW s \in Places,
                        NEW k \in Nodes, NEW l \in Nodes,
                        At(r, k, c)', At(s, l, c)'
                 PROVE  r = s /\ k = l
      BY DEF Single
    <2> QED
      BY DEF PlacesInv, Single
  <1>2. Unborn'
    <2> SUFFICES ASSUME NEW c \in Batches, status'[c] = "new",
                        NEW r \in Places, NEW k \in Nodes, At(r, k, c)'
                 PROVE  FALSE
      BY DEF Unborn
    <2> QED
      BY DEF PlacesInv, Unborn
  <1>3. \A c \in Batches \ {b} : Somewhere(c)' => Somewhere(c)
    BY DEF Somewhere
  <1> QED
    BY <1>1, <1>2, <1>3 DEF NoneAppears

(* A step that moves nothing, or only drops batches.                       *)
LEMMA NotMoved ==
    ASSUME PlacesInv,
           \A c \in Batches : status'[c] = "new" => status[c] = "new",
           \A c \in Batches : \A r \in Places : \A k \in Nodes :
              At(r, k, c)' => At(r, k, c)
    PROVE  Single' /\ Unborn' /\ NoneAppears
  <1>1. Single'
    <2> SUFFICES ASSUME NEW c \in Batches, NEW r \in Places, NEW s \in Places,
                        NEW k \in Nodes, NEW l \in Nodes,
                        At(r, k, c)', At(s, l, c)'
                 PROVE  r = s /\ k = l
      BY DEF Single
    <2> QED
      BY DEF PlacesInv, Single
  <1>2. Unborn'
    <2> SUFFICES ASSUME NEW c \in Batches, status'[c] = "new",
                        NEW r \in Places, NEW k \in Nodes, At(r, k, c)'
                 PROVE  FALSE
      BY DEF Unborn
    <2> QED
      BY DEF PlacesInv, Unborn
  <1>3. NoneAppears
    BY DEF NoneAppears, Somewhere
  <1> QED
    BY <1>1, <1>2, <1>3

-----------------------------------------------------------------------------
LEMMA InitPlaces == Init => PlacesInv
  BY DEF Init, PlacesInv, NoRepeat, NoRepeatNet, NoRepeatHead, NoRepeatNode,
         Distinct, DistinctIn, Single, Unborn, At, Occurs, OccursIn

(* A new batch appears at the executor's lock and nowhere else.            *)
LEMMA SubmitPlaces ==
    ASSUME TypeInv, PlacesInv, NEW b \in Batches, Submit(b)
    PROVE  /\ PlacesInv'
           /\ \A c \in Batches \ {b} : Somewhere(c)' => Somewhere(c)
  <1> USE DEF Submit
  <1>1. headq \in Seq(Batches) /\ outq \in Seq(Result)
    BY DEF TypeInv, TypeOK, HeadTypeOK
  <1>2. /\ ~Occurs(headq, b) /\ ~OccursIn(outq, b)
        /\ \A m \in net : m.batch # b
        /\ \A k \in Nodes : /\ ~OccursIn(dq[k], b) /\ ~Occurs(inq[k], b)
                            /\ b \notin deser[k] /\ ~Occurs(lockq[k], b)
    BY Nowhere
  <1>3. /\ Distinct(Append(headq, b))
        /\ \A c : Occurs(Append(headq, b), c) => c = b \/ Occurs(headq, c)
    BY <1>1, <1>2, PutBatch DEF PlacesInv, NoRepeat, NoRepeatHead
  <1>4. DistinctIn(outq') /\ \A c : OccursIn(outq', c) => OccursIn(outq, c)
    <2>1. CASE outq' = outq
      BY <2>1 DEF PlacesInv, NoRepeat, NoRepeatHead
    <2>2. CASE outq # <<>> /\ outq' = Tail(outq)
      BY <1>1, <2>2, GetMessage DEF PlacesInv, NoRepeat, NoRepeatHead
    <2> QED
      BY <2>1, <2>2
  <1>5. /\ status'[b] # "new"
        /\ \A c \in Batches : status'[c] = "new" => status[c] = "new"
    BY DEF Answer, TypeInv, TypeOK, HeadTypeOK
  <1>6. \A c \in Batches : \A r \in Places : \A k \in Nodes :
           At(r, k, c)' => \/ c = b /\ r = "headq" /\ k = HeadNode
                           \/ c # b /\ At(r, k, c)
    BY <1>2, <1>3, <1>4 DEF At, service_vars
  <1>7. /\ Single' /\ Unborn'
        /\ \A c \in Batches \ {b} : Somewhere(c)' => Somewhere(c)
    BY <1>5, <1>6, Moved
  <1>8. NoRepeat'
    BY <1>3, <1>4 DEF PlacesInv, NoRepeat, NoRepeatHead, NoRepeatNet,
                      NoRepeatNode, service_vars
  <1> QED
    BY <1>7, <1>8 DEF PlacesInv

LEMMA SubmitEmptyPlaces ==
    ASSUME TypeInv, PlacesInv, NEW b \in Batches, SubmitEmpty(b)
    PROVE  PlacesInv' /\ NoneAppears
  <1> USE DEF SubmitEmpty
  <1>1. \A c \in Batches : status'[c] = "new" => status[c] = "new"
    BY DEF Answer, TypeInv, TypeOK, HeadTypeOK
  <1>2. \A c \in Batches : \A r \in Places : \A k \in Nodes :
           At(r, k, c)' => At(r, k, c)
    BY DEF At, network_vars, service_vars
  <1>3. NoRepeat'
    BY DEF PlacesInv, NoRepeat, NoRepeatHead, NoRepeatNet, NoRepeatNode,
           network_vars, service_vars
  <1> QED
    BY <1>1, <1>2, <1>3, NotMoved DEF PlacesInv

LEMMA CollectPlaces ==
    ASSUME TypeInv, PlacesInv, Collect
    PROVE  PlacesInv' /\ NoneAppears
  <1> USE DEF Collect
  <1>1. /\ outq \in Seq(Result) /\ outq # <<>>
        /\ waiters \in Seq(Batches) /\ waiters # <<>>
    BY DEF TypeInv, TypeOK, HeadTypeOK
  <1>2. DistinctIn(outq') /\ \A c : OccursIn(outq', c) => OccursIn(outq, c)
    BY <1>1, GetMessage DEF PlacesInv, NoRepeat, NoRepeatHead
  <1>3. \A c \in Batches : status'[c] = "new" => status[c] = "new"
    BY DEF Answer, TypeInv, TypeOK, HeadTypeOK
  <1>4. \A c \in Batches : \A r \in Places : \A k \in Nodes :
           At(r, k, c)' => At(r, k, c)
    BY <1>2 DEF At, network_vars, service_vars
  <1>5. NoRepeat'
    BY <1>2 DEF PlacesInv, NoRepeat, NoRepeatHead, NoRepeatNet, NoRepeatNode,
                network_vars, service_vars
  <1> QED
    BY <1>3, <1>4, <1>5, NotMoved DEF PlacesInv

LEMMA HeadExecutePlaces ==
    ASSUME PlacesInv, HeadExecute
    PROVE  PlacesInv' /\ NoneAppears
  <1> USE DEF HeadExecute
  <1>1. \A c \in Batches : \A r \in Places : \A k \in Nodes :
           At(r, k, c)' => At(r, k, c)
    BY DEF At, network_vars
  <1>2. NoRepeat'
    BY DEF PlacesInv, NoRepeat, NoRepeatHead, NoRepeatNet, NoRepeatNode,
           network_vars
  <1> QED
    BY <1>1, <1>2, NotMoved DEF PlacesInv

(* The front of the executor's lock queue.                                 *)
LEMMA HeadTask ==
    ASSUME TypeInv, PlacesInv, headq # <<>>
    PROVE  LET b == Head(headq)
           IN  /\ b \in Batches /\ At("headq", HeadNode, b) /\ Somewhere(b)
               /\ Distinct(Tail(headq)) /\ ~Occurs(Tail(headq), b)
               /\ \A c : Occurs(Tail(headq), c) => Occurs(headq, c)
               /\ status[b] # "new" /\ ~OccursIn(outq, b)
               /\ \A m \in net : m.batch # b
               /\ \A k \in Nodes : /\ ~OccursIn(dq[k], b) /\ ~Occurs(inq[k], b)
                                   /\ b \notin deser[k] /\ ~Occurs(lockq[k], b)
  <1> DEFINE b == Head(headq)
  <1>1. headq \in Seq(Batches) /\ b \in Batches
    BY QueueGet DEF TypeInv, TypeOK, HeadTypeOK
  <1>2. /\ Distinct(Tail(headq)) /\ ~Occurs(Tail(headq), b) /\ Occurs(headq, b)
        /\ \A c : Occurs(Tail(headq), c) => Occurs(headq, c)
    BY <1>1, GetBatch DEF PlacesInv, NoRepeat, NoRepeatHead
  <1>3. At("headq", HeadNode, b) /\ "headq" \in Places
        /\ Somewhere(b)
    BY <1>2, NodesAssumption DEF At, Places, Somewhere
  <1> HIDE DEF b
  <1>4. /\ status[b] # "new" /\ ~OccursIn(outq, b)
        /\ \A m \in net : m.batch # b
        /\ \A k \in Nodes : /\ ~OccursIn(dq[k], b) /\ ~Occurs(inq[k], b)
                            /\ b \notin deser[k] /\ ~Occurs(lockq[k], b)
    BY <1>1, <1>3, NowhereElse, NodesAssumption
  <1> QED
    BY <1>1, <1>2, <1>3, <1>4 DEF b

(* What Deliver does to the queues: b enters dq[n], or nothing does.       *)
LEMMA DeliverPlaces ==
    ASSUME TypeInv, PlacesInv, NEW n \in Nodes, NEW item \in Push,
           Deliver(n, item), ~OccursIn(dq[n], item.batch)
    PROVE  /\ \A k \in Nodes : DistinctIn(dq'[k])
           /\ \A k \in Nodes, c \in Batches :
                 OccursIn(dq'[k], c) => \/ c = item.batch /\ k = n
                                        \/ OccursIn(dq[k], c)
  <1>1. dq \in [Nodes -> Seq(Push)] /\ dq[n] \in Seq(Push)
    BY DEF TypeInv, TypeOK, NetworkTypeOK
  <1>2. /\ DistinctIn(Append(dq[n], item))
        /\ \A c : OccursIn(Append(dq[n], item), c)
                     => c = item.batch \/ OccursIn(dq[n], c)
    BY <1>1, PutMessage DEF PlacesInv, NoRepeat, NoRepeatNode
  <1>3. CASE UNCHANGED dq
    BY <1>3 DEF PlacesInv, NoRepeat, NoRepeatNode
  <1>4. CASE dq' = [dq EXCEPT ![n] = Append(@, item)]
    <2>1. \A k \in Nodes : dq'[k] = IF k = n THEN Append(dq[n], item) ELSE dq[k]
      BY <1>1, <1>4
    <2> QED
      BY <1>2, <2>1 DEF PlacesInv, NoRepeat, NoRepeatNode
  <1> QED
    BY <1>3, <1>4 DEF Deliver

(* Any way the head task may end: its batch moves to the delivery queue or *)
(* to the output queue, or it is dropped.                                  *)
LEMMA HeadTaskEnds ==
    ASSUME TypeInv, PlacesInv, headq # <<>>, headq' = Tail(headq),
           UNCHANGED <<status, net>>, UNCHANGED service_vars,
           NEW q \in {"dq", "outq"},
           DistinctIn(outq'),
           \A c \in Batches : OccursIn(outq', c) =>
              \/ c = Head(headq) /\ q = "outq"
              \/ OccursIn(outq, c),
           \A k \in Nodes : DistinctIn(dq'[k]),
           \A k \in Nodes, c \in Batches : OccursIn(dq'[k], c) =>
              \/ c = Head(headq) /\ k = HeadNode /\ q = "dq"
              \/ OccursIn(dq[k], c)
    PROVE  PlacesInv' /\ NoneAppears
  <1> DEFINE b == Head(headq)
  <1>1. /\ b \in Batches /\ Somewhere(b)
        /\ Distinct(Tail(headq)) /\ ~Occurs(Tail(headq), b)
        /\ \A c : Occurs(Tail(headq), c) => Occurs(headq, c)
        /\ status[b] # "new" /\ ~OccursIn(outq, b)
        /\ \A m \in net : m.batch # b
        /\ \A k \in Nodes : /\ ~OccursIn(dq[k], b) /\ ~Occurs(inq[k], b)
                            /\ b \notin deser[k] /\ ~Occurs(lockq[k], b)
    BY HeadTask
  <1> HIDE DEF b
  <1>2. \A c \in Batches : \A r \in Places : \A k \in Nodes :
           At(r, k, c)' => \/ c = b /\ r = q /\ k = HeadNode
                           \/ c # b /\ At(r, k, c)
    <2> SUFFICES ASSUME NEW c \in Batches, NEW r \in Places, NEW k \in Nodes,
                        At(r, k, c)'
                 PROVE  \/ c = b /\ r = q /\ k = HeadNode
                        \/ c # b /\ At(r, k, c)
      OBVIOUS
    <2> QED
      BY <1>1 DEF At, service_vars, b
  <1>3. Single' /\ Unborn' /\ NoneAppears
    BY <1>1, <1>2, Moved
  <1>4. NoRepeat'
    BY <1>1 DEF PlacesInv, NoRepeat, NoRepeatHead, NoRepeatNet, NoRepeatNode,
                service_vars
  <1> QED
    BY <1>3, <1>4 DEF PlacesInv

LEMMA HeadDeliverPlaces ==
    ASSUME TypeInv, PlacesInv, HeadDeliver
    PROVE  PlacesInv' /\ NoneAppears
  <1> DEFINE b == Head(headq)
             item == ToNext(b, servers[b][2])
  <1> USE DEF HeadDeliver, ReleaseHeadLock
  <1>1. headq # <<>>
    BY DEF TypeInv, LockHeld
  <1>2. b \in Batches /\ \A k \in Nodes : ~OccursIn(dq[k], b)
    BY <1>1, HeadTask
  <1>3. servers[b] \in Seq(Nodes) /\ 2 \in DOMAIN servers[b]
    BY <1>2, LenProperties DEF TypeInv, TypeOK, HeadTypeOK
  <1>4. item \in Push /\ item.batch = b
    BY <1>2, <1>3 DEF ToNext, Push
  <1>5. Deliver(HeadNode, item)
    OBVIOUS
  <1> HIDE DEF item
  <1>6. /\ \A k \in Nodes : DistinctIn(dq'[k])
        /\ \A k \in Nodes, c \in Batches :
              OccursIn(dq'[k], c) => \/ c = b /\ k = HeadNode
                                     \/ OccursIn(dq[k], c)
    BY <1>2, <1>4, <1>5, DeliverPlaces, NodesAssumption
  <1>7. UNCHANGED <<status, net>> /\ UNCHANGED service_vars
        /\ headq' = Tail(headq) /\ outq' = outq /\ DistinctIn(outq)
    BY DEF PlacesInv, NoRepeat, NoRepeatHead
  <1> QED
    BY <1>1, <1>6, <1>7, HeadTaskEnds

LEMMA HeadOutputPlaces ==
    ASSUME TypeInv, PlacesInv, headq # <<>>, NEW r \in Result,
           r.batch = Head(headq), outq' = Append(outq, r)
    PROVE  /\ DistinctIn(outq')
           /\ \A c \in Batches : OccursIn(outq', c) =>
                 \/ c = Head(headq)
                 \/ OccursIn(outq, c)
  <1>1. outq \in Seq(Result) /\ ~OccursIn(outq, r.batch)
    BY HeadTask DEF TypeInv, TypeOK, HeadTypeOK
  <1> QED
    BY <1>1, PutMessage DEF PlacesInv, NoRepeat, NoRepeatHead

LEMMA HeadOutputsNonePlaces ==
    ASSUME TypeInv, PlacesInv, HeadOutputsNone
    PROVE  PlacesInv' /\ NoneAppears
  <1> DEFINE r == [batch |-> Head(headq), out |-> "none"]
  <1> USE DEF HeadOutputsNone, ReleaseHeadLock
  <1>1. headq # <<>> /\ Head(headq) \in Batches
    BY QueueGet DEF TypeInv, TypeOK, LockHeld, HeadTypeOK
  <1>2. r \in Result /\ r.batch = Head(headq) /\ outq' = Append(outq, r)
    BY <1>1 DEF Result
  <1> HIDE DEF r
  <1>3. /\ DistinctIn(outq')
        /\ \A c \in Batches : OccursIn(outq', c) =>
              c = Head(headq) \/ OccursIn(outq, c)
    BY <1>1, <1>2, HeadOutputPlaces
  <1>4. UNCHANGED dq /\ \A k \in Nodes : DistinctIn(dq[k])
    BY DEF PlacesInv, NoRepeat, NoRepeatNode
  <1>5. UNCHANGED <<status, net>> /\ UNCHANGED service_vars
        /\ headq' = Tail(headq)
    OBVIOUS
  <1> QED
    BY <1>1, <1>3, <1>4, <1>5, HeadTaskEnds

LEMMA HeadAlonePlaces ==
    ASSUME TypeInv, PlacesInv, HeadAlone
    PROVE  PlacesInv' /\ NoneAppears
  <1> DEFINE r == [batch |-> Head(headq), out |-> "json"]
  <1> USE DEF HeadAlone, ReleaseHeadLock
  <1>1. headq # <<>> /\ Head(headq) \in Batches
    BY QueueGet DEF TypeInv, TypeOK, LockHeld, HeadTypeOK
  <1>2. r \in Result /\ r.batch = Head(headq)
        /\ (outq' = Append(outq, r) \/ outq' = outq)
    BY <1>1 DEF Result
  <1> HIDE DEF r
  <1>3. /\ DistinctIn(outq')
        /\ \A c \in Batches : OccursIn(outq', c) =>
              c = Head(headq) \/ OccursIn(outq, c)
    BY <1>1, <1>2, HeadOutputPlaces DEF PlacesInv, NoRepeat, NoRepeatHead
  <1>4. UNCHANGED dq /\ \A k \in Nodes : DistinctIn(dq[k])
    BY DEF PlacesInv, NoRepeat, NoRepeatNode, Drop
  <1>5. UNCHANGED <<status, net>> /\ UNCHANGED service_vars
        /\ headq' = Tail(headq)
    OBVIOUS
  <1> QED
    BY <1>1, <1>3, <1>4, <1>5, HeadTaskEnds

LEMMA HeadFailsPlaces ==
    ASSUME TypeInv, PlacesInv, HeadFails
    PROVE  PlacesInv' /\ NoneAppears
  <1>1. /\ headq # <<>> /\ headq' = Tail(headq)
        /\ UNCHANGED <<status, net>> /\ UNCHANGED service_vars
        /\ outq' = outq /\ DistinctIn(outq)
        /\ UNCHANGED dq /\ \A k \in Nodes : DistinctIn(dq[k])
    BY DEF HeadFails, Drop, PlacesInv, NoRepeat, NoRepeatHead, NoRepeatNode
  <1> QED
    BY <1>1, HeadTaskEnds

LEMMA ConsumerTakePlaces ==
    ASSUME TypeInv, PlacesInv, NEW n \in Nodes, ConsumerTake(n)
    PROVE  PlacesInv' /\ NoneAppears
  <1> DEFINE b == Head(dq[n]).batch
  <1> USE DEF ConsumerTake
  <1>1. dq \in [Nodes -> Seq(Push)] /\ dq[n] \in Seq(Push) /\ dq[n] # <<>>
    BY DEF TypeInv, TypeOK, NetworkTypeOK
  <1>2. b \in Batches
    <2>1. Head(dq[n]) \in Push
      BY <1>1, QueueGet
    <2> QED
      BY <2>1 DEF Push
  <1>3. /\ DistinctIn(Tail(dq[n])) /\ ~OccursIn(Tail(dq[n]), b)
        /\ OccursIn(dq[n], b)
        /\ \A c : OccursIn(Tail(dq[n]), c) => OccursIn(dq[n], c)
    BY <1>1, GetMessage DEF PlacesInv, NoRepeat, NoRepeatNode
  <1>4. At("dq", n, b) /\ "dq" \in Places
        /\ Somewhere(b)
    BY <1>3, NodesAssumption DEF At, Places, Somewhere
  <1>5. /\ status[b] # "new"
        /\ ~Occurs(headq, b) /\ ~OccursIn(outq, b)
        /\ \A m \in net : m.batch # b
        /\ \A k \in Nodes : /\ k # n => ~OccursIn(dq[k], b)
                            /\ ~Occurs(inq[k], b)
                            /\ b \notin deser[k] /\ ~Occurs(lockq[k], b)
    BY <1>2, <1>4, NowhereElse
  <1>6. \A k \in Nodes : dq'[k] = IF k = n THEN Tail(dq[n]) ELSE dq[k]
    BY <1>1
  <1>7. \A m \in net' : m \in net \/ m = Head(dq[n])
    OBVIOUS
  <1>8. UNCHANGED <<status, headq, outq>> /\ UNCHANGED <<inq, deser, lockq>>
    BY DEF head_vars, service_vars
  <1>9. \A c \in Batches : \A r \in Places : \A k \in Nodes :
           At(r, k, c)' => \/ c = b /\ r = "net" /\ k = HeadNode
                           \/ c # b /\ At(r, k, c)
    <2> SUFFICES ASSUME NEW c \in Batches, NEW r \in Places, NEW k \in Nodes,
                        At(r, k, c)'
                 PROVE  \/ c = b /\ r = "net" /\ k = HeadNode
                        \/ c # b /\ At(r, k, c)
      OBVIOUS
    <2> QED
      BY <1>3, <1>5, <1>6, <1>7, <1>8 DEF At
  <1>10. Single' /\ Unborn' /\ NoneAppears
    BY <1>2, <1>4, <1>5, <1>8, <1>9, Moved
  <1>11. NoRepeat'
    BY <1>3, <1>5, <1>6, <1>7, <1>8
       DEF PlacesInv, NoRepeat, NoRepeatHead, NoRepeatNet, NoRepeatNode
  <1> QED
    BY <1>10, <1>11 DEF PlacesInv

(* A message that is handled leaves the network.                           *)
LEMMA InNetOnly ==
    ASSUME TypeInv, PlacesInv, NEW m \in net
    PROVE  /\ m.batch \in Batches /\ m.to \in Nodes /\ m \in Push
           /\ Somewhere(m.batch) /\ status[m.batch] # "new"
           /\ ~Occurs(headq, m.batch) /\ ~OccursIn(outq, m.batch)
           /\ \A l \in net \ {m} : l.batch # m.batch
           /\ \A k \in Nodes :
                 /\ ~OccursIn(dq[k], m.batch) /\ ~Occurs(inq[k], m.batch)
                 /\ m.batch \notin deser[k] /\ ~Occurs(lockq[k], m.batch)
  <1>1. m \in Push /\ m.batch \in Batches /\ m.to \in Nodes
    BY DEF TypeInv, TypeOK, NetworkTypeOK, Push
  <1>2. At("net", HeadNode, m.batch) /\ "net" \in Places
        /\ Somewhere(m.batch)
    BY NodesAssumption DEF At, Places, Somewhere
  <1>3. \A l \in net \ {m} : l.batch # m.batch
    BY DEF PlacesInv, NoRepeat, NoRepeatNet
  <1> QED
    BY <1>1, <1>2, <1>3, NowhereElse, NodesAssumption

LEMMA PushIntermediateTensorsPlaces ==
    ASSUME TypeInv, PlacesInv, NEW m \in net, PushIntermediateTensors(m)
    PROVE  PlacesInv' /\ NoneAppears
  <1> DEFINE b == m.batch
             n == m.to
  <1> USE DEF PushIntermediateTensors
  <1>1. /\ b \in Batches /\ n \in Nodes /\ status[b] # "new"
        /\ Somewhere(b)
        /\ ~Occurs(headq, b) /\ ~OccursIn(outq, b)
        /\ \A l \in net \ {m} : l.batch # b
        /\ \A k \in Nodes : /\ ~OccursIn(dq[k], b) /\ ~Occurs(inq[k], b)
                            /\ b \notin deser[k] /\ ~Occurs(lockq[k], b)
    BY InNetOnly
  <1>2. inq \in [Nodes -> Seq(Batches)] /\ inq[n] \in Seq(Batches)
    BY <1>1 DEF TypeInv, TypeOK, ServiceTypeOK
  <1>3. /\ Distinct(Append(inq[n], b))
        /\ \A c : Occurs(Append(inq[n], b), c) => c = b \/ Occurs(inq[n], c)
    BY <1>1, <1>2, PutBatch DEF PlacesInv, NoRepeat, NoRepeatNode
  <1>4. \A k \in Nodes : inq'[k] = IF k = n THEN Append(inq[n], b) ELSE inq[k]
    BY <1>1, <1>2
  <1>5. UNCHANGED <<status, headq, outq>> /\ UNCHANGED <<dq, deser, lockq>>
        /\ net' = net \ {m}
    BY DEF head_vars
  <1> HIDE DEF b, n
  <1>6. \A c \in Batches : \A r \in Places : \A k \in Nodes :
           At(r, k, c)' => \/ c = b /\ r = "inq" /\ k = n
                           \/ c # b /\ At(r, k, c)
    <2> SUFFICES ASSUME NEW c \in Batches, NEW r \in Places, NEW k \in Nodes,
                        At(r, k, c)'
                 PROVE  \/ c = b /\ r = "inq" /\ k = n
                        \/ c # b /\ At(r, k, c)
      OBVIOUS
    <2> QED
      BY <1>1, <1>3, <1>4, <1>5 DEF At
  <1>7. Single' /\ Unborn' /\ NoneAppears
    BY <1>1, <1>5, <1>6, Moved
  <1>8. NoRepeat'
    BY <1>3, <1>4, <1>5
       DEF PlacesInv, NoRepeat, NoRepeatHead, NoRepeatNet, NoRepeatNode
  <1> QED
    BY <1>7, <1>8 DEF PlacesInv

LEMMA PushSamplerOutputPlaces ==
    ASSUME TypeInv, PlacesInv, NEW m \in net, PushSamplerOutput(m)
    PROVE  PlacesInv' /\ NoneAppears
  <1> DEFINE b == m.batch
             o == [batch |-> m.batch, out |-> m.out]
  <1> USE DEF PushSamplerOutput
  <1>1. /\ b \in Batches /\ m \in Push /\ status[b] # "new"
        /\ Somewhere(b)
        /\ ~Occurs(headq, b) /\ ~OccursIn(outq, b)
        /\ \A l \in net \ {m} : l.batch # b
        /\ \A k \in Nodes : /\ ~OccursIn(dq[k], b) /\ ~Occurs(inq[k], b)
                            /\ b \notin deser[k] /\ ~Occurs(lockq[k], b)
    BY InNetOnly
  <1>2. outq \in Seq(Result) /\ o \in Result /\ o.batch = b
    BY <1>1 DEF TypeInv, TypeOK, HeadTypeOK, Push, Result
  <1>3. /\ DistinctIn(outq')
        /\ \A c : OccursIn(outq', c) => c = b \/ OccursIn(outq, c)
    BY <1>1, <1>2, PutMessage DEF PlacesInv, NoRepeat, NoRepeatHead
  <1>4. UNCHANGED <<status, headq>> /\ UNCHANGED <<dq, inq, deser, lockq>>
        /\ net' = net \ {m}
    BY DEF service_vars
  <1> HIDE DEF b, o
  <1>5. \A c \in Batches : \A r \in Places : \A k \in Nodes :
           At(r, k, c)' => \/ c = b /\ r = "outq" /\ k = HeadNode
                           \/ c # b /\ At(r, k, c)
    <2> SUFFICES ASSUME NEW c \in Batches, NEW r \in Places, NEW k \in Nodes,
                        At(r, k, c)'
                 PROVE  \/ c = b /\ r = "outq" /\ k = HeadNode
                        \/ c # b /\ At(r, k, c)
      OBVIOUS
    <2> QED
      BY <1>1, <1>3, <1>4 DEF At
  <1>6. Single' /\ Unborn' /\ NoneAppears
    BY <1>1, <1>4, <1>5, Moved
  <1>7. NoRepeat'
    BY <1>3, <1>4
       DEF PlacesInv, NoRepeat, NoRepeatHead, NoRepeatNet, NoRepeatNode
  <1> QED
    BY <1>6, <1>7 DEF PlacesInv

(* Steps that take no batch from its place: triggers and forward passes.   *)
LEMMA StillPlaces ==
    ASSUME PlacesInv,
           UNCHANGED <<status, headq, outq, dq, net, inq, deser, lockq>>
    PROVE  PlacesInv' /\ NoneAppears
  <1>1. \A c \in Batches : \A r \in Places : \A k \in Nodes :
           At(r, k, c)' => At(r, k, c)
    BY DEF At
  <1>2. NoRepeat'
    BY DEF PlacesInv, NoRepeat, NoRepeatHead, NoRepeatNet, NoRepeatNode
  <1> QED
    BY <1>1, <1>2, NotMoved DEF PlacesInv

LEMMA TriggerPlaces ==
    ASSUME PlacesInv, NEW n \in Nodes,
           \/ TriggerArrives(n) \/ LoseTrigger(n) \/ InputTimeout(n)
           \/ SetTensors(n) \/ WorkerExecute(n) \/ Join(n)
    PROVE  PlacesInv' /\ NoneAppears
  <1>1. UNCHANGED <<status, headq, outq, dq, net, inq, deser, lockq>>
    BY DEF TriggerArrives, LoseTrigger, InputTimeout, SetTensors, WorkerExecute,
           Join, head_vars, network_vars, service_vars
  <1> QED
    BY <1>1, StillPlaces

LEMMA LosePushPlaces ==
    ASSUME PlacesInv, NEW m \in net, LosePush(m)
    PROVE  PlacesInv' /\ NoneAppears
  <1>1. /\ UNCHANGED <<status, headq, outq, dq, inq, deser, lockq>>
        /\ net' \subseteq net
    BY DEF LosePush, Drop, head_vars, service_vars
  <1>2. \A c \in Batches : \A r \in Places : \A k \in Nodes :
           At(r, k, c)' => At(r, k, c)
    BY <1>1 DEF At
  <1>3. NoRepeat'
    BY <1>1 DEF PlacesInv, NoRepeat, NoRepeatHead, NoRepeatNet, NoRepeatNode
  <1> QED
    BY <1>1, <1>2, <1>3, NotMoved DEF PlacesInv

LEMMA DeserializeFailsPlaces ==
    ASSUME TypeInv, PlacesInv, NEW n \in Nodes, NEW b \in Batches,
           DeserializeFails(n, b)
    PROVE  PlacesInv' /\ NoneAppears
  <1>1. /\ UNCHANGED <<status, headq, outq, dq, net, inq, lockq>>
        /\ \A k \in Nodes : deser'[k] \subseteq deser[k]
    BY DEF DeserializeFails, Drop, head_vars, TypeInv, TypeOK, ServiceTypeOK
  <1>2. \A c \in Batches : \A r \in Places : \A k \in Nodes :
           At(r, k, c)' => At(r, k, c)
    BY <1>1 DEF At
  <1>3. NoRepeat'
    BY <1>1 DEF PlacesInv, NoRepeat, NoRepeatHead, NoRepeatNet, NoRepeatNode
  <1> QED
    BY <1>1, <1>2, <1>3, NotMoved DEF PlacesInv

LEMMA GetInputPlaces ==
    ASSUME TypeInv, PlacesInv, NEW n \in Nodes, GetInput(n)
    PROVE  PlacesInv' /\ NoneAppears
  <1> DEFINE b == Head(inq[n])
  <1> USE DEF GetInput
  <1>1. /\ inq \in [Nodes -> Seq(Batches)] /\ inq[n] \in Seq(Batches)
        /\ inq[n] # <<>> /\ deser \in [Nodes -> SUBSET Batches]
    BY DEF TypeInv, TypeOK, ServiceTypeOK
  <1>2. b \in Batches
    BY <1>1, QueueGet
  <1>3. /\ Distinct(Tail(inq[n])) /\ ~Occurs(Tail(inq[n]), b)
        /\ Occurs(inq[n], b)
        /\ \A c : Occurs(Tail(inq[n]), c) => Occurs(inq[n], c)
    BY <1>1, GetBatch DEF PlacesInv, NoRepeat, NoRepeatNode
  <1>4. At("inq", n, b) /\ "inq" \in Places
        /\ Somewhere(b)
    BY <1>3, NodesAssumption DEF At, Places, Somewhere
  <1>5. \A k \in Nodes : /\ inq'[k] = IF k = n THEN Tail(inq[n]) ELSE inq[k]
                         /\ deser'[k] = IF k = n THEN deser[n] \cup {b}
                                                 ELSE deser[k]
    BY <1>1
  <1>6. UNCHANGED <<status, headq, outq, net, dq, lockq>>
    BY DEF head_vars, network_vars
  <1> HIDE DEF b
  <1>7. /\ status[b] # "new"
        /\ ~Occurs(headq, b) /\ ~OccursIn(outq, b)
        /\ \A m \in net : m.batch # b
        /\ \A k \in Nodes : /\ k # n => ~Occurs(inq[k], b)
                            /\ ~OccursIn(dq[k], b)
                            /\ b \notin deser[k] /\ ~Occurs(lockq[k], b)
    BY <1>2, <1>4, NowhereElse
  <1>8. \A c \in Batches : \A r \in Places : \A k \in Nodes :
           At(r, k, c)' => \/ c = b /\ r = "deser" /\ k = n
                           \/ c # b /\ At(r, k, c)
    <2> SUFFICES ASSUME NEW c \in Batches, NEW r \in Places, NEW k \in Nodes,
                        At(r, k, c)'
                 PROVE  \/ c = b /\ r = "deser" /\ k = n
                        \/ c # b /\ At(r, k, c)
      OBVIOUS
    <2> QED
      BY <1>3, <1>5, <1>6, <1>7 DEF At
  <1>9. Single' /\ Unborn' /\ NoneAppears
    BY <1>2, <1>4, <1>6, <1>7, <1>8, Moved
  <1>10. NoRepeat'
    BY <1>3, <1>5, <1>6
       DEF PlacesInv, NoRepeat, NoRepeatHead, NoRepeatNet, NoRepeatNode
  <1> QED
    BY <1>9, <1>10 DEF PlacesInv

LEMMA DeserializedPlaces ==
    ASSUME TypeInv, PlacesInv, NEW n \in Nodes, NEW b \in Batches,
           Deserialized(n, b)
    PROVE  PlacesInv' /\ NoneAppears
  <1> USE DEF Deserialized
  <1>1. /\ lockq \in [Nodes -> Seq(Batches)] /\ lockq[n] \in Seq(Batches)
        /\ deser \in [Nodes -> SUBSET Batches]
    BY DEF TypeInv, TypeOK, ServiceTypeOK
  <1>2. At("deser", n, b) /\ "deser" \in Places
        /\ Somewhere(b)
    BY NodesAssumption DEF At, Places, Somewhere
  <1>3. /\ status[b] # "new"
        /\ ~Occurs(headq, b) /\ ~OccursIn(outq, b)
        /\ \A m \in net : m.batch # b
        /\ \A k \in Nodes : /\ k # n => b \notin deser[k]
                            /\ ~OccursIn(dq[k], b) /\ ~Occurs(inq[k], b)
                            /\ ~Occurs(lockq[k], b)
    BY <1>2, NowhereElse
  <1>4. /\ Distinct(Append(lockq[n], b))
        /\ \A c : Occurs(Append(lockq[n], b), c) => c = b \/ Occurs(lockq[n], c)
    BY <1>1, <1>3, PutBatch DEF PlacesInv, NoRepeat, NoRepeatNode
  <1>5. \A k \in Nodes :
           /\ deser'[k] = IF k = n THEN deser[n] \ {b} ELSE deser[k]
           /\ lockq'[k] = IF k = n THEN Append(lockq[n], b) ELSE lockq[k]
    BY <1>1
  <1>6. UNCHANGED <<status, headq, outq, net, dq, inq>>
    BY DEF head_vars, network_vars
  <1>7. \A c \in Batches : \A r \in Places : \A k \in Nodes :
           At(r, k, c)' => \/ c = b /\ r = "lockq" /\ k = n
                           \/ c # b /\ At(r, k, c)
    <2> SUFFICES ASSUME NEW c \in Batches, NEW r \in Places, NEW k \in Nodes,
                        At(r, k, c)'
                 PROVE  \/ c = b /\ r = "lockq" /\ k = n
                        \/ c # b /\ At(r, k, c)
      OBVIOUS
    <2> QED
      BY <1>3, <1>4, <1>5, <1>6 DEF At
  <1>8. Single' /\ Unborn' /\ NoneAppears
    BY <1>2, <1>3, <1>6, <1>7, Moved
  <1>9. NoRepeat'
    BY <1>4, <1>5, <1>6
       DEF PlacesInv, NoRepeat, NoRepeatHead, NoRepeatNet, NoRepeatNode
  <1> QED
    BY <1>8, <1>9 DEF PlacesInv

(* The front of a service's lock queue.                                    *)
LEMMA WorkerTask ==
    ASSUME TypeInv, PlacesInv, NEW n \in Nodes, lockq[n] # <<>>
    PROVE  LET b == Head(lockq[n])
           IN  /\ b \in Batches /\ At("lockq", n, b) /\ Somewhere(b)
               /\ Distinct(Tail(lockq[n])) /\ ~Occurs(Tail(lockq[n]), b)
               /\ \A c : Occurs(Tail(lockq[n]), c) => Occurs(lockq[n], c)
               /\ status[b] # "new"
               /\ ~Occurs(headq, b) /\ ~OccursIn(outq, b)
               /\ \A m \in net : m.batch # b
               /\ \A k \in Nodes : /\ k # n => ~Occurs(lockq[k], b)
                                   /\ ~OccursIn(dq[k], b) /\ ~Occurs(inq[k], b)
                                   /\ b \notin deser[k]
  <1> DEFINE b == Head(lockq[n])
  <1>1. lockq[n] \in Seq(Batches) /\ b \in Batches
    BY QueueGet DEF TypeInv, TypeOK, ServiceTypeOK
  <1>2. /\ Distinct(Tail(lockq[n])) /\ ~Occurs(Tail(lockq[n]), b)
        /\ Occurs(lockq[n], b)
        /\ \A c : Occurs(Tail(lockq[n]), c) => Occurs(lockq[n], c)
    BY <1>1, GetBatch DEF PlacesInv, NoRepeat, NoRepeatNode
  <1>3. At("lockq", n, b) /\ "lockq" \in Places
        /\ Somewhere(b)
    BY <1>2, NodesAssumption DEF At, Places, Somewhere
  <1> HIDE DEF b
  <1>4. /\ status[b] # "new"
        /\ ~Occurs(headq, b) /\ ~OccursIn(outq, b)
        /\ \A m \in net : m.batch # b
        /\ \A k \in Nodes : /\ k # n => ~Occurs(lockq[k], b)
                            /\ ~OccursIn(dq[k], b) /\ ~Occurs(inq[k], b)
                            /\ b \notin deser[k]
    BY <1>1, <1>3, NowhereElse
  <1> QED
    BY <1>1, <1>2, <1>3, <1>4 DEF b

(* Any way a worker's forward pass may end.                                *)
LEMMA WorkerTaskEnds ==
    ASSUME TypeInv, PlacesInv, NEW n \in Nodes, lockq[n] # <<>>,
           lockq' = [lockq EXCEPT ![n] = Tail(@)],
           UNCHANGED <<status, headq, outq, net, inq, deser>>,
           \A k \in Nodes : DistinctIn(dq'[k]),
           \A k \in Nodes, c \in Batches : OccursIn(dq'[k], c) =>
              \/ c = Head(lockq[n]) /\ k = n
              \/ OccursIn(dq[k], c)
    PROVE  PlacesInv' /\ NoneAppears
  <1> DEFINE b == Head(lockq[n])
  <1>1. /\ b \in Batches /\ Somewhere(b)
        /\ Distinct(Tail(lockq[n])) /\ ~Occurs(Tail(lockq[n]), b)
        /\ \A c : Occurs(Tail(lockq[n]), c) => Occurs(lockq[n], c)
        /\ status[b] # "new"
        /\ ~Occurs(headq, b) /\ ~OccursIn(outq, b)
        /\ \A m \in net : m.batch # b
        /\ \A k \in Nodes : /\ k # n => ~Occurs(lockq[k], b)
                            /\ ~OccursIn(dq[k], b) /\ ~Occurs(inq[k], b)
                            /\ b \notin deser[k]
    BY WorkerTask
  <1>2. \A k \in Nodes :
           lockq'[k] = IF k = n THEN Tail(lockq[n]) ELSE lockq[k]
    BY DEF TypeInv, TypeOK, ServiceTypeOK
  <1>3. \A k \in Nodes, c \in Batches :
           OccursIn(dq'[k], c) => (c = b /\ k = n) \/ OccursIn(dq[k], c)
    OBVIOUS
  <1> HIDE DEF b
  <1>4. \A c \in Batches : \A r \in Places : \A k \in Nodes :
           At(r, k, c)' => \/ c = b /\ r = "dq" /\ k = n
                           \/ c # b /\ At(r, k, c)
    <2> SUFFICES ASSUME NEW c \in Batches, NEW r \in Places, NEW k \in Nodes,
                        At(r, k, c)'
                 PROVE  \/ c = b /\ r = "dq" /\ k = n
                        \/ c # b /\ At(r, k, c)
      OBVIOUS
    <2> QED
      BY <1>1, <1>2, <1>3 DEF At
  <1>5. Single' /\ Unborn' /\ NoneAppears
    BY <1>1, <1>4, Moved
  <1>6. NoRepeat'
    BY <1>1, <1>2 DEF PlacesInv, NoRepeat, NoRepeatHead, NoRepeatNet, NoRepeatNode
  <1> QED
    BY <1>5, <1>6 DEF PlacesInv

LEMMA WorkerFailsPlaces ==
    ASSUME TypeInv, PlacesInv, NEW n \in Nodes, WorkerFails(n)
    PROVE  PlacesInv' /\ NoneAppears
  <1>1. /\ lockq[n] # <<>> /\ lockq' = [lockq EXCEPT ![n] = Tail(@)]
        /\ UNCHANGED <<status, headq, outq, net, inq, deser>>
        /\ UNCHANGED dq
    BY DEF WorkerFails, Drop, TypeInv, LockHeld, head_vars
  <1>2. \A k \in Nodes : DistinctIn(dq[k])
    BY DEF PlacesInv, NoRepeat, NoRepeatNode
  <1> QED
    BY <1>1, <1>2, WorkerTaskEnds

(* What the last stage, and any other, hands to its delivery process.      *)
LEMMA WorkerDeliverPlaces ==
    ASSUME TypeInv, PlacesInv, NEW n \in Nodes, WorkerDeliver(n)
    PROVE  PlacesInv' /\ NoneAppears
  <1> DEFINE b == Head(lockq[n])
             k == MyIndex(b, n)
             toHead == [push |-> "head", to |-> HeadNode, batch |-> b,
                        out |-> WorkerOutput(n)]
             toNext == ToNext(b, Route(b)[k + 1])
  <1>1. /\ lockq[n] # <<>> /\ lockq' = [lockq EXCEPT ![n] = Tail(@)]
        /\ UNCHANGED <<status, headq, outq, net, inq, deser>>
    BY DEF WorkerDeliver, TypeInv, LockHeld, head_vars
  <1>2. b \in Batches /\ ~OccursIn(dq[n], b)
    BY <1>1, WorkerTask
  <1>3. k \in DOMAIN Route(b) /\ Route(b) \in Seq(Nodes)
    <2>1. 1 \in DOMAIN lockq[n] /\ b = lockq[n][1]
      BY <1>1, QueueGet DEF TypeInv, TypeOK, ServiceTypeOK
    <2>2. InList(b, n)
      BY <2>1 DEF TypeInv, Routed, RoutedLockq
    <2> QED
      BY <1>2, <2>2
         DEF TypeInv, TypeOK, HeadTypeOK, InList, MyIndex, Route
  <1>4. toHead \in Push /\ toHead.batch = b
    BY <1>2, NodesAssumption DEF Push, WorkerOutput
  <1>5. k # Len(Route(b)) => toNext \in Push /\ toNext.batch = b
    BY <1>2, <1>3, LenProperties DEF ToNext, Push
  <1>6. \/ Deliver(n, toHead)
        \/ UNCHANGED dq
        \/ k # Len(Route(b)) /\ Deliver(n, toNext)
    BY DEF WorkerDeliver, Drop
  <1> HIDE DEF toHead, toNext, k
  <1>7. /\ \A j \in Nodes : DistinctIn(dq'[j])
        /\ \A j \in Nodes, c \in Batches :
              OccursIn(dq'[j], c) => (c = b /\ j = n) \/ OccursIn(dq[j], c)
    <2>1. CASE UNCHANGED dq
      BY <2>1 DEF PlacesInv, NoRepeat, NoRepeatNode
    <2>2. CASE Deliver(n, toHead)
      BY <1>2, <1>4, <2>2, DeliverPlaces
    <2>3. CASE k # Len(Route(b)) /\ Deliver(n, toNext)
      BY <1>2, <1>5, <2>3, DeliverPlaces
    <2> QED
      BY <1>6, <2>1, <2>2, <2>3
  <1> QED
    BY <1>1, <1>7, WorkerTaskEnds

(* A restarting node loses what it held and nothing else.                  *)
LEMMA RestartPlaces ==
    ASSUME TypeInv, PlacesInv, NEW n \in Nodes, Restart(n)
    PROVE  PlacesInv' /\ NoneAppears
  <1>1. \A k \in Nodes : /\ dq'[k] = dq[k] \/ dq'[k] = <<>>
                         /\ inq'[k] = inq[k] \/ inq'[k] = <<>>
                         /\ lockq'[k] = lockq[k] \/ lockq'[k] = <<>>
                         /\ deser'[k] \subseteq deser[k]
    BY DEF Restart, TypeInv, TypeOK, NetworkTypeOK, ServiceTypeOK
  <1>2. UNCHANGED <<status, headq, outq, net>>
    BY DEF Restart, head_vars
  <1>3. \A c \in Batches : \A r \in Places : \A k \in Nodes :
           At(r, k, c)' => At(r, k, c)
    <2> SUFFICES ASSUME NEW c \in Batches, NEW r \in Places, NEW k \in Nodes,
                        At(r, k, c)'
                 PROVE  At(r, k, c)
      OBVIOUS
    <2> QED
      BY <1>1, <1>2 DEF At, Occurs, OccursIn
  <1>4. NoRepeat'
    <2>1. NoRepeatNode'
      BY <1>1 DEF PlacesInv, NoRepeat, NoRepeatNode, Distinct, DistinctIn
    <2> QED
      BY <1>2, <2>1 DEF PlacesInv, NoRepeat, NoRepeatHead, NoRepeatNet
  <1> QED
    BY <1>2, <1>3, <1>4, NotMoved DEF PlacesInv

-----------------------------------------------------------------------------
LEMMA NextPlaces ==
    ASSUME TypeInv, PlacesInv, [Next]_vars
    PROVE  PlacesInv'
  <1>1. ASSUME NEW b \in Batches, Submit(b) \/ SubmitEmpty(b)
        PROVE  PlacesInv'
    BY <1>1, SubmitPlaces, SubmitEmptyPlaces
  <1>2. CASE HeadStep
    BY <1>2, CollectPlaces, HeadExecutePlaces, HeadDeliverPlaces,
       HeadOutputsNonePlaces, HeadAlonePlaces DEF HeadStep
  <1>3. CASE MessageStep
    BY <1>3, PushIntermediateTensorsPlaces, PushSamplerOutputPlaces
       DEF MessageStep
  <1>4. ASSUME NEW n \in Nodes, NodeStep(n) \/ Join(n)
        PROVE  PlacesInv'
    BY <1>4, ConsumerTakePlaces, TriggerPlaces, GetInputPlaces,
       DeserializedPlaces, WorkerDeliverPlaces DEF NodeStep
  <1>5. CASE FaultStep
    BY <1>5, HeadFailsPlaces, LosePushPlaces, TriggerPlaces,
       DeserializeFailsPlaces, WorkerFailsPlaces, RestartPlaces DEF FaultStep
  <1>6. CASE UNCHANGED vars
    BY <1>6, StillPlaces DEF vars, head_vars, network_vars, service_vars
  <1> QED
    BY <1>1, <1>2, <1>3, <1>4, <1>5, <1>6 DEF Next

(* No hand-off doubles a batch: its data is at one place of the cluster at *)
(* most, and once there, whatever is lost, restarted or interleaved.  What *)
(* a push that fails, a restart or a full queue takes away is not sent     *)
(* again by anyone.                                                        *)
THEOREM BatchAtOnePlace == Spec => []PlacesInv
  <1>1. TypeInv /\ PlacesInv /\ [Next]_vars => TypeInv' /\ PlacesInv'
    BY NextTypeInv, NextPlaces
  <1>2. Init => TypeInv /\ PlacesInv
    BY InitTypeInv, InitPlaces
  <1> QED
    BY <1>1, <1>2, PTL DEF Spec

-----------------------------------------------------------------------------
(***************************************************************************)
(* The stages of a batch.                                                  *)
(*                                                                         *)
(* A batch passes the stages of its server list in order and once each, for*)
(* any number of nodes and of batches outstanding and under any fault, if  *)
(* no node starts below the head.  Nothing in the code checks it: a trigger*)
(* names no batch and a node runs what its input queue offers.  What makes *)
(* it true is where the data of a batch is: only on its way to, or at, the *)
(* stage that is due next.                                                 *)
(*                                                                         *)
(* And triggers name no batch, so all there is to say is their number: a   *)
(* node has at most one for each batch due at it, and without faults one.  *)
(***************************************************************************)
(* The executor takes index 0 of the list for the head (executor.py:422);  *)
(* that is right for node ranges in which no one starts below the head.    *)
HeadStartsFirst ==
    \A l \in Layouts : \A n \in Nodes : l[HeadNode].start =< l[n].start

StartsKnown ==
    \A i \in DOMAIN node_info : node_info[i].start = layout[node_info[i].ip].start

Lists ==
    \A b \in Batches : servers[b] # <<>> =>
        /\ servers[b][1] = HeadNode
        /\ \A i, j \in DOMAIN servers[b] : servers[b][i] = servers[b][j] => i = j

(* n is the stage that is due next for b, or the one that ran it last.     *)
Ready(b, n) ==
    Len(path[b]) < Len(servers[b]) /\ servers[b][Len(path[b]) + 1] = n
Ran(b, n) ==
    path[b] # <<>> /\ servers[b][Len(path[b])] = n

ReadyPush(m) == m.push = "next" => Ready(m.batch, m.to)

AtHead ==
    \A b \in Batches : Occurs(headq, b) =>
        /\ servers[b] # <<>>
        /\ IF head_phase = "ran" /\ b = headq[1]
           THEN path[b] # <<>> /\ Len(path[b]) = 1 ELSE path[b] = <<>>
InNet == \A m \in net : ReadyPush(m)
InDq == \A n \in Nodes : \A i \in DOMAIN dq[n] : ReadyPush(dq[n][i])
InInq == \A n \in Nodes, b \in Batches : Occurs(inq[n], b) => Ready(b, n)
InDeser == \A n \in Nodes, b \in Batches : b \in deser[n] => Ready(b, n)
InLockq ==
    \A n \in Nodes, b \in Batches : Occurs(lockq[n], b) =>
        IF phase[n] = "ran" /\ b = lockq[n][1] THEN Ran(b, n) ELSE Ready(b, n)

StageInv ==
    /\ StagesInOrder /\ Lists /\ StartsKnown
    /\ AtHead /\ InNet /\ InDq /\ InInq /\ InDeser /\ InLockq

-----------------------------------------------------------------------------
(* Steps in which no batch is submitted or run.                            *)
LEMMA OrderKept ==
    ASSUME StageInv, UNCHANGED <<path, servers>>
    PROVE  /\ StagesInOrder' /\ Lists'
           /\ \A b, n : Ready(b, n)' = Ready(b, n)
           /\ \A b, n : Ran(b, n)' = Ran(b, n)
           /\ \A m : ReadyPush(m)' = ReadyPush(m)
  BY DEF StageInv, StagesInOrder, Lists, Ready, Ran, ReadyPush

LEMMA StartsKept ==
    ASSUME StageInv, UNCHANGED <<topology_vars, layout>>
    PROVE  StartsKnown'
  BY DEF StageInv, StartsKnown, topology_vars

LEMMA AtHeadKept ==
    ASSUME StageInv, UNCHANGED <<headq, head_phase, path, servers>>
    PROVE  AtHead'
  BY DEF StageInv, AtHead

LEMMA InNetworkKept ==
    ASSUME StageInv, UNCHANGED <<path, servers, dq, net>>
    PROVE  InNet' /\ InDq'
  BY OrderKept DEF StageInv, InNet, InDq

LEMMA InServiceKept ==
    ASSUME StageInv, UNCHANGED <<path, servers, inq, deser, lockq, phase>>
    PROVE  InInq' /\ InDeser' /\ InLockq'
  BY OrderKept DEF StageInv, InInq, InDeser, InLockq

(* A stage runs b: only b advances, and only if that stage was due.        *)
LEMMA Advance ==
    ASSUME TypeInv, StageInv, NEW b \in Batches, NEW n \in Nodes, Ready(b, n),
           path' = [path EXCEPT ![b] = Append(@, n)], UNCHANGED servers
    PROVE  /\ StagesInOrder' /\ Lists' /\ Ran(b, n)'
           /\ path[b] = <<>> => Len(path'[b]) = 1
           /\ path'[b] # <<>>
           /\ \A c \in Batches \ {b} :
                 /\ path'[c] = path[c]
                 /\ \A k : Ready(c, k)' = Ready(c, k) /\ Ran(c, k)' = Ran(c, k)
           /\ \A m : m.batch \in Batches \ {b} => ReadyPush(m)' = ReadyPush(m)
  <1>1. /\ path \in [Batches -> Seq(Nodes)] /\ path[b] \in Seq(Nodes)
        /\ servers[b] \in Seq(Nodes)
    BY DEF TypeInv, TypeOK, AuxTypeOK, HeadTypeOK
  <1>2. /\ path'[b] = Append(path[b], n)
        /\ \A c \in Batches \ {b} : path'[c] = path[c]
    BY <1>1
  <1>3. /\ Len(path[b]) \in Nat /\ Len(path'[b]) = Len(path[b]) + 1
        /\ DOMAIN path'[b] = 1..(Len(path[b]) + 1)
        /\ DOMAIN path[b] = 1..Len(path[b])
        /\ \A i \in DOMAIN path[b] : path'[b][i] = path[b][i]
        /\ path'[b][Len(path[b]) + 1] = n
        /\ path'[b] # <<>>
        /\ path[b] = <<>> => Len(path[b]) = 0
    BY <1>1, <1>2, AppendProperties, LenProperties, EmptySeq
  <1>4. Len(servers[b]) \in Nat
    BY <1>1, LenProperties
  <1>5. StagesInOrder'
    <2>1. ASSUME NEW c \in Batches, c # b
          PROVE  /\ Len(path'[c]) =< Len(servers'[c])
                 /\ \A k \in DOMAIN path'[c] : path'[c][k] = servers'[c][k]
      BY <1>2, <2>1 DEF StageInv, StagesInOrder
    <2>2. Len(path'[b]) =< Len(servers'[b])
      BY <1>3, <1>4 DEF Ready
    <2>3. \A k \in DOMAIN path'[b] : path'[b][k] = servers'[b][k]
      BY <1>3 DEF Ready, StageInv, StagesInOrder
    <2> QED
      BY <2>1, <2>2, <2>3 DEF StagesInOrder
  <1>6. Lists'
    BY DEF StageInv, Lists
  <1>7. Ran(b, n)'
    BY <1>3 DEF Ran, Ready
  <1>8. \A c \in Batches \ {b} : \A k :
           Ready(c, k)' = Ready(c, k) /\ Ran(c, k)' = Ran(c, k)
    BY <1>2 DEF Ready, Ran
  <1> QED
    BY <1>2, <1>3, <1>5, <1>6, <1>7, <1>8 DEF ReadyPush

-----------------------------------------------------------------------------
LEMMA InitStages == Init => StageInv
  <1> SUFFICES ASSUME Init PROVE StageInv
    OBVIOUS
  <1> USE DEF Init
  <1>1. StagesInOrder
    <2>1. Len(<<>>) = 0 /\ DOMAIN <<>> = {}
      OBVIOUS
    <2> QED
      BY <2>1 DEF StagesInOrder
  <1>2. StartsKnown
    BY DEF StartsKnown, TopologyInit
  <1>3. Lists
    BY DEF Lists
  <1>4. AtHead /\ InNet /\ InDq /\ InInq /\ InDeser /\ InLockq
    BY DEF AtHead, InNet, InDq, InInq, InDeser, InLockq, Occurs
  <1> QED
    BY <1>1, <1>2, <1>3, <1>4 DEF StageInv

(* The list of a new batch begins with the head and has nobody twice; no   *)
(* stage has run the batch and no other batch is concerned.                *)
LEMMA NewList ==
    ASSUME HeadStartsFirst, TypeInv, StageInv
    PROVE  LET list == ServerList(node_info)
           IN  /\ list \in Seq(Nodes) /\ list # <<>> /\ list[1] = HeadNode
               /\ \A i, j \in DOMAIN list : list[i] = list[j] => i = j
  <1>1. TopologyInv
    BY DEF TypeInv
  <1>2. /\ node_info \in Seq(InfoEntry) /\ node_info # <<>>
        /\ node_info[1].ip = HeadNode /\ 1 \in DOMAIN node_info
    BY <1>1, EmptySeq DEF TopologyInv, TopologyTypeOK
  <1>3. \A i \in DOMAIN node_info : node_info[1].start =< node_info[i].start
    BY <1>2, InfoShape
       DEF StageInv, StartsKnown, HeadStartsFirst, TypeInv, TypeOK
  <1>4. ServerList(node_info)[1] = HeadNode
    BY <1>1, <1>3, HeadOfTopology DEF HeadLeads
  <1>5. ServerList(node_info) \in Seq(Nodes) /\ ServerList(node_info) # <<>>
    BY <1>2, ServerListType
  <1> QED
    BY <1>1, <1>4, <1>5, ServerListDistinct

(* Pushes about other batches than one that is neither queued for delivery *)
(* nor on the network.                                                     *)
LEMMA OtherPushes ==
    ASSUME TypeInv, NEW b, \A m \in net : m.batch # b,
           \A k \in Nodes : ~OccursIn(dq[k], b)
    PROVE  /\ \A m \in net : m.batch \in Batches \ {b}
           /\ \A n \in Nodes : \A i \in DOMAIN dq[n] :
                 dq[n][i].batch \in Batches \ {b}
  <1>1. dq \in [Nodes -> Seq(Push)] /\ net \subseteq Push
    BY DEF TypeInv, TypeOK, NetworkTypeOK
  <1>2. \A n \in Nodes : \A i \in DOMAIN dq[n] : dq[n][i] \in Push
    BY <1>1, ElementOfSeq, LenProperties
  <1> QED
    BY <1>1, <1>2 DEF Push, OccursIn

LEMMA SubmitStages ==
    ASSUME HeadStartsFirst, TypeInv, PlacesInv, StageInv,
           NEW b \in Batches, Submit(b)
    PROVE  StageInv'
  <1> DEFINE list == ServerList(node_info)
  <1>1. /\ status[b] = "new" /\ headq' = Append(headq, b)
        /\ servers' = [servers EXCEPT ![b] = list]
        /\ UNCHANGED <<path, head_phase, dq, net, inq, deser, lockq, phase>>
        /\ UNCHANGED <<topology_vars, layout>>
    BY DEF Submit, service_vars, aux_vars
  <1>2. /\ list \in Seq(Nodes) /\ list # <<>> /\ list[1] = HeadNode
        /\ \A i, j \in DOMAIN list : list[i] = list[j] => i = j
    BY NewList
  <1> HIDE DEF list
  <1>3. /\ headq \in Seq(Batches) /\ servers \in [Batches -> Seq(Nodes)]
        /\ path \in [Batches -> Seq(Nodes)]
        /\ dq \in [Nodes -> Seq(Push)] /\ net \subseteq Push
    BY DEF TypeInv, TypeOK, HeadTypeOK, AuxTypeOK, NetworkTypeOK
  <1>4. servers'[b] = list /\ \A c \in Batches \ {b} : servers'[c] = servers[c]
    BY <1>1, <1>3
  <1>5. path[b] = <<>>
    <2>1. servers[b] = <<>> /\ Len(servers[b]) = 0
      BY <1>1 DEF TypeInv, Fresh
    <2>2. Len(path[b]) =< 0 /\ Len(path[b]) \in Nat
      BY <1>3, <2>1, LenProperties DEF StageInv, StagesInOrder
    <2> QED
      BY <1>3, <2>2, EmptySeq
  <1>6. /\ ~Occurs(headq, b) /\ \A m \in net : m.batch # b
        /\ \A k \in Nodes : /\ ~OccursIn(dq[k], b) /\ ~Occurs(inq[k], b)
                            /\ b \notin deser[k] /\ ~Occurs(lockq[k], b)
    BY <1>1, Nowhere
  <1>7. StagesInOrder'
    <2>1. ASSUME NEW c \in Batches, c # b
          PROVE  /\ Len(path'[c]) =< Len(servers'[c])
                 /\ \A k \in DOMAIN path'[c] : path'[c][k] = servers'[c][k]
      BY <1>1, <1>4, <2>1 DEF StageInv, StagesInOrder
    <2>2. Len(path'[b]) =< Len(servers'[b]) /\ DOMAIN path'[b] = {}
      BY <1>1, <1>2, <1>4, <1>5, LenProperties
    <2> QED
      BY <2>1, <2>2 DEF StagesInOrder
  <1>8. Lists'
    BY <1>2, <1>4 DEF StageInv, Lists
  <1>9. \A c \in Batches \ {b} : \A k :
           Ready(c, k)' = Ready(c, k) /\ Ran(c, k)' = Ran(c, k)
    BY <1>1, <1>4 DEF Ready, Ran
  <1>10. AtHead'
    <2>1. /\ DOMAIN headq = 1..Len(headq) /\ Len(headq) \in Nat
          /\ DOMAIN Append(headq, b) = 1..(Len(headq) + 1)
          /\ \A i \in DOMAIN headq : Append(headq, b)[i] = headq[i]
          /\ Append(headq, b)[Len(headq) + 1] = b
          /\ headq # <<>> => 1 \in DOMAIN headq
      BY <1>3, AppendProperties, LenProperties, EmptySeq
    <2>2. \A c : Occurs(headq', c) => c = b \/ Occurs(headq, c)
      BY <1>1, <2>1 DEF Occurs
    <2>3. head_phase = "ran" => headq'[1] = headq[1] /\ headq[1] # b
      BY <1>1, <1>6, <2>1 DEF TypeInv, LockHeld, Occurs
    <2> SUFFICES ASSUME NEW c \in Batches, Occurs(headq', c)
                 PROVE  /\ servers'[c] # <<>>
                        /\ IF head_phase' = "ran" /\ c = headq'[1]
                           THEN path'[c] # <<>> /\ Len(path'[c]) = 1
                           ELSE path'[c] = <<>>
      BY DEF AtHead
    <2>4. CASE c = b
      BY <1>1, <1>2, <1>4, <1>5, <2>3, <2>4
    <2>5. CASE c # b
      BY <1>1, <1>4, <2>2, <2>3, <2>5 DEF StageInv, AtHead
    <2> QED
      BY <2>4, <2>5
  <1>11. InNet' /\ InDq'
    <2>1. \A m : m.batch \in Batches \ {b} => ReadyPush(m)' = ReadyPush(m)
      BY <1>9 DEF ReadyPush
    <2> QED
      BY <1>1, <1>6, <2>1, OtherPushes DEF StageInv, InNet, InDq
  <1>12. InInq' /\ InDeser' /\ InLockq'
    BY <1>1, <1>6, <1>9 DEF StageInv, InInq, InDeser, InLockq
  <1> QED
    BY <1>1, <1>7, <1>8, <1>10, <1>11, <1>12, StartsKept DEF StageInv

(* Answering, triggering and joining move no batch.                        *)
LEMMA StillStages ==
    ASSUME StageInv, StartsKnown',
           UNCHANGED <<path, servers, headq, head_phase, dq, net, inq, deser,
                       lockq, phase>>
    PROVE  StageInv'
  BY OrderKept, AtHeadKept, InNetworkKept, InServiceKept DEF StageInv

LEMMA AnswerStages ==
    ASSUME StageInv, Collect \/ \E b \in Batches : SubmitEmpty(b)
    PROVE  StageInv'
  <1>1. /\ UNCHANGED <<path, servers, headq, head_phase, dq, net, inq, deser,
                       lockq, phase>>
        /\ UNCHANGED <<topology_vars, layout>>
    BY DEF Collect, SubmitEmpty, network_vars, service_vars, aux_vars
  <1> QED
    BY <1>1, StartsKept, StillStages

LEMMA TriggerStages ==
    ASSUME StageInv, NEW n \in Nodes,
           TriggerArrives(n) \/ LoseTrigger(n) \/ InputTimeout(n)
    PROVE  StageInv'
  <1>1. /\ UNCHANGED <<path, servers, headq, head_phase, dq, net, inq, deser,
                       lockq, phase>>
        /\ UNCHANGED <<topology_vars, layout>>
    BY DEF TriggerArrives, LoseTrigger, InputTimeout, head_vars, network_vars,
           service_vars, aux_vars
  <1> QED
    BY <1>1, StartsKept, StillStages

LEMMA JoinStages ==
    ASSUME TypeInv, StageInv, NEW n \in Nodes, Join(n)
    PROVE  StageInv'
  <1>1. /\ UNCHANGED <<path, servers, headq, head_phase, dq, net, inq, deser,
                       lockq, phase>>
        /\ UNCHANGED layout
    BY DEF Join, head_vars, network_vars, service_vars, aux_vars
  <1>2. node_info' = Append(node_info, [ip |-> n, start |-> layout[n].start])
    BY DEF Join, JoinPipeline, AddNode
  <1>3. node_info \in Seq(InfoEntry)
        /\ [ip |-> n, start |-> layout[n].start] \in InfoEntry
    BY LayoutRange
       DEF TypeInv, TypeOK, TopologyInv, TopologyTypeOK, InfoEntry
  <1>4. StartsKnown'
    BY <1>1, <1>2, <1>3, QueuePut DEF StageInv, StartsKnown
  <1> QED
    BY <1>1, <1>4, StillStages

(* The head runs the front batch: it is the first stage of its list.       *)
LEMMA HeadExecuteStages ==
    ASSUME TypeInv, PlacesInv, StageInv, HeadExecute
    PROVE  StageInv'
  <1> DEFINE b == Head(headq)
  <1>1. /\ headq # <<>> /\ head_phase = "idle" /\ head_phase' = "ran"
        /\ path' = [path EXCEPT ![b] = Append(@, HeadNode)]
        /\ UNCHANGED <<servers, headq, dq, net, inq, deser, lockq, phase>>
        /\ UNCHANGED <<topology_vars, layout>>
    BY DEF HeadExecute, network_vars
  <1>2. /\ b \in Batches /\ Occurs(headq, b) /\ b = headq[1]
        /\ \A m \in net : m.batch # b
        /\ \A k \in Nodes : /\ ~OccursIn(dq[k], b) /\ ~Occurs(inq[k], b)
                            /\ b \notin deser[k] /\ ~Occurs(lockq[k], b)
    BY <1>1, HeadTask, QueueGet, GetBatch
       DEF TypeInv, TypeOK, HeadTypeOK, PlacesInv, NoRepeat, NoRepeatHead
  <1> HIDE DEF b
  <1>3. Ready(b, HeadNode) /\ path[b] = <<>>
    <2>1. path[b] = <<>> /\ servers[b] # <<>>
      BY <1>1, <1>2 DEF StageInv, AtHead
    <2>2. servers[b] \in Seq(Nodes) /\ servers[b][1] = HeadNode
      BY <1>2, <2>1 DEF StageInv, Lists, TypeInv, TypeOK, HeadTypeOK
    <2>3. Len(path[b]) = 0 /\ Len(servers[b]) > 0
      BY <2>1, <2>2, EmptySeq, LenProperties
    <2> QED
      BY <2>1, <2>2, <2>3 DEF Ready
  <1>4. /\ StagesInOrder' /\ Lists'
        /\ Len(path'[b]) = 1 /\ path'[b] # <<>>
        /\ \A c \in Batches \ {b} :
              /\ path'[c] = path[c]
              /\ \A k : Ready(c, k)' = Ready(c, k) /\ Ran(c, k)' = Ran(c, k)
        /\ \A m : m.batch \in Batches \ {b} => ReadyPush(m)' = ReadyPush(m)
    BY <1>1, <1>2, <1>3, NodesAssumption, Advance
  <1>5. AtHead'
    BY <1>1, <1>2, <1>4 DEF StageInv, AtHead
  <1>6. InNet' /\ InDq'
    BY <1>1, <1>2, <1>4, OtherPushes DEF StageInv, InNet, InDq
  <1>7. InInq' /\ InDeser' /\ InLockq'
    BY <1>1, <1>2, <1>4 DEF StageInv, InInq, InDeser, InLockq
  <1> QED
    BY <1>1, <1>4, <1>5, <1>6, <1>7, StartsKept DEF StageInv

(* The head task ends, however it does.                                    *)
LEMMA HeadReleased ==
    ASSUME TypeInv, PlacesInv, StageInv, headq # <<>>, headq' = Tail(headq),
           head_phase' = "idle", UNCHANGED <<path, servers>>
    PROVE  AtHead'
  <1>1. /\ Head(headq) = headq[1]
        /\ ~Occurs(Tail(headq), Head(headq))
        /\ \A c : Occurs(Tail(headq), c) => Occurs(headq, c)
    BY HeadTask, QueueGet DEF TypeInv, TypeOK, HeadTypeOK
  <1> QED
    BY <1>1 DEF StageInv, AtHead

(* A push for the stage that is due may enter a delivery queue.            *)
LEMMA DeliverStages ==
    ASSUME TypeInv, StageInv, NEW n \in Nodes, NEW item \in Push,
           Deliver(n, item), ReadyPush(item), UNCHANGED <<path, servers>>
    PROVE  InDq'
  <1>1. dq \in [Nodes -> Seq(Push)] /\ dq[n] \in Seq(Push)
    BY DEF TypeInv, TypeOK, NetworkTypeOK
  <1>2. \A m : ReadyPush(m)' = ReadyPush(m)
    BY OrderKept
  <1>3. CASE UNCHANGED dq
    BY <1>2, <1>3 DEF StageInv, InDq
  <1>4. CASE dq' = [dq EXCEPT ![n] = Append(@, item)]
    <2>1. \A k \in Nodes : dq'[k] = IF k = n THEN Append(dq[n], item) ELSE dq[k]
      BY <1>1, <1>4
    <2>2. \A i \in DOMAIN Append(dq[n], item) : ReadyPush(Append(dq[n], item)[i])
      BY <1>1, QueuePut DEF StageInv, InDq
    <2> QED
      BY <1>2, <2>1, <2>2 DEF StageInv, InDq
  <1> QED
    BY <1>3, <1>4 DEF Deliver

LEMMA HeadDeliverStages ==
    ASSUME TypeInv, PlacesInv, StageInv, HeadDeliver
    PROVE  StageInv'
  <1> DEFINE b == Head(headq)
             item == ToNext(b, servers[b][2])
  <1>1. /\ head_phase = "ran" /\ head_phase' = "idle" /\ headq' = Tail(headq)
        /\ UNCHANGED <<path, servers, net, inq, deser, lockq, phase>>
        /\ UNCHANGED <<topology_vars, layout>>
        /\ Len(servers[b]) > 1 /\ Deliver(HeadNode, item)
    BY DEF HeadDeliver, ReleaseHeadLock, service_vars
  <1>2. headq # <<>> /\ headq \in Seq(Batches)
    BY <1>1 DEF TypeInv, LockHeld, TypeOK, HeadTypeOK
  <1>3. b \in Batches /\ b = headq[1] /\ Occurs(headq, b)
    BY <1>2, QueueGet DEF Occurs
  <1>4. Len(path[b]) = 1
    BY <1>1, <1>3 DEF StageInv, AtHead
  <1>5. servers[b] \in Seq(Nodes) /\ 2 \in DOMAIN servers[b]
    BY <1>1, <1>3, LenProperties DEF TypeInv, TypeOK, HeadTypeOK
  <1>6. item \in Push /\ ReadyPush(item)
    <2>1. servers[b][2] \in Nodes /\ Ready(b, servers[b][2])
      BY <1>1, <1>4, <1>5, ElementOfSeq, LenProperties DEF Ready
    <2> QED
      BY <1>3, <2>1 DEF ToNext, Push, ReadyPush
  <1> HIDE DEF item
  <1>7. InDq'
    BY <1>1, <1>6, NodesAssumption, DeliverStages
  <1>8. AtHead'
    BY <1>1, <1>2, HeadReleased
  <1>9. InNet'
    BY <1>1, OrderKept DEF StageInv, InNet
  <1> QED
    BY <1>1, <1>7, <1>8, <1>9, OrderKept, StartsKept, InServiceKept DEF StageInv

(* The head task ends without handing on its batch.                        *)
LEMMA HeadEndsStages ==
    ASSUME TypeInv, PlacesInv, StageInv,
           HeadOutputsNone \/ HeadAlone \/ HeadFails
    PROVE  StageInv'
  <1>1. /\ headq # <<>> /\ headq' = Tail(headq) /\ head_phase' = "idle"
        /\ UNCHANGED <<path, servers, dq, net, inq, deser, lockq, phase>>
        /\ UNCHANGED <<topology_vars, layout>>
    BY DEF HeadOutputsNone, HeadAlone, HeadFails, ReleaseHeadLock, Drop,
           service_vars, TypeInv, LockHeld
  <1>2. AtHead'
    BY <1>1, HeadReleased
  <1> QED
    BY <1>1, <1>2, OrderKept, StartsKept, InNetworkKept, InServiceKept
       DEF StageInv

-----------------------------------------------------------------------------
LEMMA ConsumerTakeStages ==
    ASSUME TypeInv, StageInv, NEW n \in Nodes, ConsumerTake(n)
    PROVE  StageInv'
  <1>1. /\ dq[n] # <<>> /\ net' = net \cup {Head(dq[n])}
        /\ dq' = [dq EXCEPT ![n] = Tail(@)]
        /\ UNCHANGED <<path, servers, headq, head_phase, inq, deser, lockq, phase>>
        /\ UNCHANGED <<topology_vars, layout>>
    BY DEF ConsumerTake, head_vars, service_vars, aux_vars
  <1>2. dq \in [Nodes -> Seq(Push)] /\ dq[n] \in Seq(Push)
    BY DEF TypeInv, TypeOK, NetworkTypeOK
  <1>3. /\ Head(dq[n]) = dq[n][1] /\ 1 \in DOMAIN dq[n]
        /\ \A i \in DOMAIN Tail(dq[n]) :
              i + 1 \in DOMAIN dq[n] /\ Tail(dq[n])[i] = dq[n][i + 1]
    BY <1>1, <1>2, QueueGet
  <1>4. \A m : ReadyPush(m)' = ReadyPush(m)
    BY <1>1, OrderKept
  <1>5. InNet'
    BY <1>1, <1>3, <1>4 DEF StageInv, InNet, InDq
  <1>6. InDq'
    <2>1. \A k \in Nodes : dq'[k] = IF k = n THEN Tail(dq[n]) ELSE dq[k]
      BY <1>1, <1>2
    <2> QED
      BY <1>3, <1>4, <2>1 DEF StageInv, InDq
  <1> QED
    BY <1>1, <1>5, <1>6, OrderKept, StartsKept, AtHeadKept, InServiceKept
       DEF StageInv

(* A message leaves the network: handled by the head, or lost.             *)
LEMMA LeaveNetStages ==
    ASSUME StageInv, NEW m \in net, PushSamplerOutput(m) \/ LosePush(m)
    PROVE  StageInv'
  <1>1. /\ net' \subseteq net
        /\ UNCHANGED <<path, servers, headq, head_phase, dq, inq, deser, lockq,
                       phase>>
        /\ UNCHANGED <<topology_vars, layout>>
    BY DEF PushSamplerOutput, LosePush, Drop, head_vars, service_vars, aux_vars
  <1>2. InNet' /\ InDq'
    BY <1>1, OrderKept DEF StageInv, InNet, InDq
  <1> QED
    BY <1>1, <1>2, OrderKept, StartsKept, AtHeadKept, InServiceKept DEF StageInv

LEMMA PushIntermediateTensorsStages ==
    ASSUME TypeInv, StageInv, NEW m \in net, PushIntermediateTensors(m)
    PROVE  StageInv'
  <1> DEFINE b == m.batch
             n == m.to
  <1>1. /\ m.push = "next" /\ net' \subseteq net
        /\ inq' = [inq EXCEPT ![n] = Append(@, b)]
        /\ UNCHANGED <<path, servers, headq, head_phase, dq, deser, lockq, phase>>
        /\ UNCHANGED <<topology_vars, layout>>
    BY DEF PushIntermediateTensors, head_vars, aux_vars
  <1>2. b \in Batches /\ n \in Nodes
    BY DEF TypeInv, TypeOK, NetworkTypeOK, Push
  <1>3. Ready(b, n)
    BY <1>1 DEF StageInv, InNet, ReadyPush
  <1>4. inq \in [Nodes -> Seq(Batches)] /\ inq[n] \in Seq(Batches)
    BY <1>2 DEF TypeInv, TypeOK, ServiceTypeOK
  <1>5. \A k \in Nodes : inq'[k] = IF k = n THEN Append(inq[n], b) ELSE inq[k]
    BY <1>1, <1>2, <1>4
  <1>6. \A c : Occurs(Append(inq[n], b), c) => c = b \/ Occurs(inq[n], c)
    BY <1>2, <1>4, QueuePut DEF Occurs
  <1> HIDE DEF b, n
  <1>7. InInq'
    BY <1>1, <1>3, <1>5, <1>6, OrderKept DEF StageInv, InInq
  <1>8. InDeser' /\ InLockq'
    BY <1>1, OrderKept DEF StageInv, InDeser, InLockq
  <1>9. InNet' /\ InDq'
    BY <1>1, OrderKept DEF StageInv, InNet, InDq
  <1> QED
    BY <1>1, <1>7, <1>8, <1>9, OrderKept, StartsKept, AtHeadKept DEF StageInv

-----------------------------------------------------------------------------
LEMMA GetInputStages ==
    ASSUME TypeInv, PlacesInv, StageInv, NEW n \in Nodes, GetInput(n)
    PROVE  StageInv'
  <1> DEFINE b == Head(inq[n])
  <1>1. /\ inq[n] # <<>> /\ inq' = [inq EXCEPT ![n] = Tail(@)]
        /\ deser' = [deser EXCEPT ![n] = @ \cup {b}]
        /\ UNCHANGED <<path, servers, headq, head_phase, dq, net, lockq, phase>>
        /\ UNCHANGED <<topology_vars, layout>>
    BY DEF GetInput, head_vars, network_vars, aux_vars
  <1>2. /\ inq \in [Nodes -> Seq(Batches)] /\ inq[n] \in Seq(Batches)
        /\ deser \in [Nodes -> SUBSET Batches]
    BY DEF TypeInv, TypeOK, ServiceTypeOK
  <1>3. /\ b \in Batches /\ Occurs(inq[n], b)
        /\ \A c : Occurs(Tail(inq[n]), c) => Occurs(inq[n], c)
    BY <1>1, <1>2, QueueGet, GetBatch DEF PlacesInv, NoRepeat, NoRepeatNode
  <1>4. \A k \in Nodes : /\ inq'[k] = IF k = n THEN Tail(inq[n]) ELSE inq[k]
                         /\ deser'[k] = IF k = n THEN deser[n] \cup {b}
                                                 ELSE deser[k]
    BY <1>1, <1>2
  <1> HIDE DEF b
  <1>5. InInq'
    BY <1>1, <1>3, <1>4, OrderKept DEF StageInv, InInq
  <1>6. InDeser'
    BY <1>1, <1>3, <1>4, OrderKept DEF StageInv, InInq, InDeser
  <1>7. InLockq'
    BY <1>1, OrderKept DEF StageInv, InLockq
  <1> QED
    BY <1>1, <1>5, <1>6, <1>7, OrderKept, StartsKept, AtHeadKept, InNetworkKept
       DEF StageInv

LEMMA DeserializeFailsStages ==
    ASSUME TypeInv, StageInv, NEW n \in Nodes, NEW b \in Batches,
           DeserializeFails(n, b)
    PROVE  StageInv'
  <1>1. /\ \A k \in Nodes : deser'[k] \subseteq deser[k]
        /\ UNCHANGED <<path, servers, headq, head_phase, dq, net, inq, lockq,
                       phase>>
        /\ UNCHANGED <<topology_vars, layout>>
    BY DEF DeserializeFails, Drop, head_vars, TypeInv, TypeOK, ServiceTypeOK
  <1>2. InInq' /\ InDeser' /\ InLockq'
    BY <1>1, OrderKept DEF StageInv, InInq, InDeser, InLockq
  <1> QED
    BY <1>1, <1>2, OrderKept, StartsKept, AtHeadKept, InNetworkKept DEF StageInv

(* A handler queues for the lock: it is not the one that holds it.         *)
LEMMA DeserializedStages ==
    ASSUME TypeInv, PlacesInv, StageInv, NEW n \in Nodes, NEW b \in Batches,
           Deserialized(n, b)
    PROVE  StageInv'
  <1>1. /\ b \in deser[n] /\ deser' = [deser EXCEPT ![n] = @ \ {b}]
        /\ lockq' = [lockq EXCEPT ![n] = Append(@, b)]
        /\ UNCHANGED <<path, servers, headq, head_phase, dq, net, inq, phase>>
        /\ UNCHANGED <<topology_vars, layout>>
    BY DEF Deserialized, head_vars, network_vars, aux_vars
  <1>2. /\ lockq \in [Nodes -> Seq(Batches)] /\ lockq[n] \in Seq(Batches)
        /\ deser \in [Nodes -> SUBSET Batches]
    BY DEF TypeInv, TypeOK, ServiceTypeOK
  <1>3. \A k \in Nodes :
           /\ deser'[k] \subseteq deser[k]
           /\ lockq'[k] = IF k = n THEN Append(lockq[n], b) ELSE lockq[k]
    BY <1>1, <1>2
  <1>4. /\ DOMAIN lockq[n] = 1..Len(lockq[n]) /\ Len(lockq[n]) \in Nat
        /\ DOMAIN Append(lockq[n], b) = 1..(Len(lockq[n]) + 1)
        /\ \A i \in DOMAIN lockq[n] : Append(lockq[n], b)[i] = lockq[n][i]
        /\ Append(lockq[n], b)[Len(lockq[n]) + 1] = b
        /\ lockq[n] # <<>> => 1 \in DOMAIN lockq[n]
    BY <1>2, AppendProperties, LenProperties, EmptySeq
  <1>5. \A c : Occurs(Append(lockq[n], b), c) => c = b \/ Occurs(lockq[n], c)
    BY <1>4 DEF Occurs
  <1>6. phase[n] = "ran" =>
           Append(lockq[n], b)[1] = lockq[n][1] /\ Occurs(lockq[n], lockq[n][1])
    BY <1>4 DEF TypeInv, LockHeld, Occurs
  <1>7. Ready(b, n) /\ ~Occurs(lockq[n], b)
    <2>1. At("deser", n, b) /\ "deser" \in Places
      BY <1>1 DEF At, Places
    <2> QED
      BY <1>1, <2>1, NowhereElse DEF StageInv, InDeser
  <1>8. InLockq'
    <2> SUFFICES ASSUME NEW k \in Nodes, NEW c \in Batches, Occurs(lockq'[k], c)
                 PROVE  (IF phase[k] = "ran" /\ c = lockq'[k][1]
                         THEN Ran(c, k) ELSE Ready(c, k))
      BY <1>1, OrderKept DEF InLockq
    <2>1. CASE k # n
      BY <1>3, <2>1 DEF StageInv, InLockq
    <2>2. CASE k = n /\ c = b
      BY <1>3, <1>6, <1>7, <2>2
    <2>3. CASE k = n /\ c # b
      <3>1. Occurs(lockq[n], c)
        BY <1>3, <1>5, <2>3
      <3>2. phase[n] = "ran" => lockq'[n][1] = lockq[n][1]
        BY <1>3, <1>6
      <3> QED
        BY <2>3, <3>1, <3>2 DEF StageInv, InLockq
    <2> QED
      BY <2>1, <2>2, <2>3
  <1>9. InDeser' /\ InInq'
    BY <1>1, <1>3, OrderKept DEF StageInv, InDeser, InInq
  <1> QED
    BY <1>1, <1>8, <1>9, OrderKept, StartsKept, AtHeadKept, InNetworkKept
       DEF StageInv

LEMMA SetTensorsStages ==
    ASSUME TypeInv, StageInv, NEW n \in Nodes, SetTensors(n)
    PROVE  StageInv'
  <1>1. /\ phase[n] = "idle" /\ phase' = [phase EXCEPT ![n] = "set"]
        /\ UNCHANGED <<path, servers, headq, head_phase, dq, net, inq, deser, lockq>>
        /\ UNCHANGED <<topology_vars, layout>>
    BY DEF SetTensors, head_vars, network_vars, aux_vars
  <1>2. \A k \in Nodes : phase'[k] = "ran" <=> phase[k] = "ran"
    BY <1>1 DEF TypeInv, TypeOK, ServiceTypeOK
  <1>3. InInq' /\ InDeser' /\ InLockq'
    BY <1>1, <1>2, OrderKept DEF StageInv, InInq, InDeser, InLockq
  <1> QED
    BY <1>1, <1>3, OrderKept, StartsKept, AtHeadKept, InNetworkKept DEF StageInv

(* The front handler runs its batch: the batch is at no other node, so no  *)
(* other stage believes to be next.                                        *)
LEMMA WorkerExecuteStages ==
    ASSUME TypeInv, PlacesInv, StageInv, NEW n \in Nodes, WorkerExecute(n)
    PROVE  StageInv'
  <1>0. /\ phase[n] = "set" /\ lockq[n] # <<>> /\ lockq[n] \in Seq(Batches)
        /\ Head(lockq[n]) \in Batches
    BY QueueGet
       DEF WorkerExecute, TypeInv, LockHeld, TypeOK, ServiceTypeOK
  <1> PICK b \in Batches : b = Head(lockq[n])
    BY <1>0
  <1>1. /\ phase[n] = "set" /\ phase' = [phase EXCEPT ![n] = "ran"]
        /\ path' = [path EXCEPT ![b] = Append(@, n)]
        /\ UNCHANGED <<servers, headq, head_phase, dq, net, inq, deser, lockq>>
        /\ UNCHANGED <<topology_vars, layout>>
    BY DEF WorkerExecute, head_vars, network_vars
  <1>3. /\ ~Occurs(headq, b)
        /\ \A m \in net : m.batch # b
        /\ \A k \in Nodes : /\ k # n => ~Occurs(lockq[k], b)
                            /\ ~OccursIn(dq[k], b) /\ ~Occurs(inq[k], b)
                            /\ b \notin deser[k]
    BY <1>0, WorkerTask
  <1>4. b = lockq[n][1] /\ Occurs(lockq[n], b)
    BY <1>0, QueueGet DEF Occurs
  <1>5. Ready(b, n)
    BY <1>1, <1>3, <1>4 DEF StageInv, InLockq
  <1>6. /\ StagesInOrder' /\ Lists' /\ Ran(b, n)'
        /\ \A c \in Batches \ {b} :
              /\ path'[c] = path[c]
              /\ \A k : Ready(c, k)' = Ready(c, k) /\ Ran(c, k)' = Ran(c, k)
        /\ \A m : m.batch \in Batches \ {b} => ReadyPush(m)' = ReadyPush(m)
    BY <1>1, <1>3, <1>5, Advance
  <1>7. \A k \in Nodes : phase'[k] = IF k = n THEN "ran" ELSE phase[k]
    BY <1>1 DEF TypeInv, TypeOK, ServiceTypeOK
  <1>8. AtHead'
    BY <1>1, <1>3, <1>6 DEF StageInv, AtHead
  <1>9. InNet' /\ InDq'
    BY <1>1, <1>3, <1>6, OtherPushes DEF StageInv, InNet, InDq
  <1>10. InInq' /\ InDeser'
    BY <1>1, <1>3, <1>6 DEF StageInv, InInq, InDeser
  <1>11. InLockq'
    <2> SUFFICES ASSUME NEW k \in Nodes, NEW c \in Batches, Occurs(lockq[k], c)
                 PROVE  (IF phase'[k] = "ran" /\ c = lockq[k][1]
                         THEN Ran(c, k)' ELSE Ready(c, k)')
      BY <1>1 DEF InLockq
    <2>1. CASE c = b
      BY <1>3, <1>4, <1>6, <1>7, <2>1
    <2>2. CASE c # b /\ k = n
      BY <1>1, <1>4, <1>6, <1>7, <2>2 DEF StageInv, InLockq
    <2>3. CASE c # b /\ k # n
      BY <1>6, <1>7, <2>3 DEF StageInv, InLockq
    <2> QED
      BY <2>1, <2>2, <2>3
  <1> QED
    BY <1>1, <1>6, <1>8, <1>9, <1>10, <1>11, StartsKept DEF StageInv

(* The handler that holds the lock leaves, however it does.                *)
LEMMA WorkerReleased ==
    ASSUME TypeInv, PlacesInv, StageInv, NEW n \in Nodes, lockq[n] # <<>>,
           lockq' = [lockq EXCEPT ![n] = Tail(@)],
           phase' = [phase EXCEPT ![n] = "idle"],
           UNCHANGED <<path, servers, inq, deser>>
    PROVE  InInq' /\ InDeser' /\ InLockq'
  <1>1. /\ Head(lockq[n]) = lockq[n][1]
        /\ ~Occurs(Tail(lockq[n]), Head(lockq[n]))
        /\ \A c : Occurs(Tail(lockq[n]), c) => Occurs(lockq[n], c)
    BY WorkerTask, QueueGet DEF TypeInv, TypeOK, ServiceTypeOK
  <1>2. \A k \in Nodes :
           /\ lockq'[k] = IF k = n THEN Tail(lockq[n]) ELSE lockq[k]
           /\ phase'[k] = IF k = n THEN "idle" ELSE phase[k]
    BY DEF TypeInv, TypeOK, ServiceTypeOK
  <1>3. \A c, k : Ran(c, k)' = Ran(c, k) /\ Ready(c, k)' = Ready(c, k)
    BY OrderKept
  <1>4. InLockq'
    <2> SUFFICES ASSUME NEW k \in Nodes, NEW c \in Batches, Occurs(lockq'[k], c)
                 PROVE  (IF phase'[k] = "ran" /\ c = lockq'[k][1]
                         THEN Ran(c, k) ELSE Ready(c, k))
      BY <1>3 DEF InLockq
    <2>1. CASE k = n
      BY <1>1, <1>2, <2>1 DEF StageInv, InLockq
    <2>2. CASE k # n
      BY <1>2, <2>2 DEF StageInv, InLockq
    <2> QED
      BY <2>1, <2>2
  <1> QED
    BY <1>4, OrderKept DEF StageInv, InInq, InDeser

LEMMA WorkerFailsStages ==
    ASSUME TypeInv, PlacesInv, StageInv, NEW n \in Nodes, WorkerFails(n)
    PROVE  StageInv'
  <1>1. /\ lockq[n] # <<>> /\ lockq' = [lockq EXCEPT ![n] = Tail(@)]
        /\ phase' = [phase EXCEPT ![n] = "idle"]
        /\ UNCHANGED <<path, servers, headq, head_phase, dq, net, inq, deser>>
        /\ UNCHANGED <<topology_vars, layout>>
    BY DEF WorkerFails, Drop, head_vars, TypeInv, LockHeld
  <1> QED
    BY <1>1, OrderKept, StartsKept, AtHeadKept, InNetworkKept, WorkerReleased
       DEF StageInv

(* A list names nobody twice, so the node that ran a batch last finds its  *)
(* own position at the end of the path so far, and the next hop after it.  *)
LEMMA WorkerDeliverStages ==
    ASSUME TypeInv, PlacesInv, StageInv, NEW n \in Nodes, WorkerDeliver(n)
    PROVE  StageInv'
  <1> DEFINE b == Head(lockq[n])
             k == MyIndex(b, n)
             toHead == [push |-> "head", to |-> HeadNode, batch |-> b,
                        out |-> WorkerOutput(n)]
             toNext == ToNext(b, servers[b][k + 1])
  <1>1. /\ phase[n] = "ran" /\ phase' = [phase EXCEPT ![n] = "idle"]
        /\ lockq' = [lockq EXCEPT ![n] = Tail(@)]
        /\ UNCHANGED <<path, servers, headq, head_phase, net, inq, deser>>
        /\ UNCHANGED <<topology_vars, layout>>
        /\ \/ Deliver(n, toHead)
           \/ UNCHANGED dq
           \/ k # Len(servers[b]) /\ Deliver(n, toNext)
    BY DEF WorkerDeliver, Route, Drop, head_vars
  <1>2. lockq[n] # <<>> /\ lockq[n] \in Seq(Batches)
    BY <1>1 DEF TypeInv, LockHeld, TypeOK, ServiceTypeOK
  <1>3. b \in Batches /\ b = lockq[n][1] /\ Occurs(lockq[n], b)
    BY <1>2, QueueGet DEF Occurs
  <1>4. Ran(b, n)
    BY <1>1, <1>3 DEF StageInv, InLockq
  <1>5. servers[b] \in Seq(Nodes) /\ path[b] \in Seq(Nodes)
    BY <1>3 DEF TypeInv, TypeOK, HeadTypeOK, AuxTypeOK
  <1>6. Len(path[b]) \in DOMAIN servers[b] /\ servers[b][Len(path[b])] = n
    <2>1. Len(path[b]) \in Nat /\ Len(path[b]) > 0 /\ Len(servers[b]) \in Nat
      BY <1>4, <1>5, LenProperties, EmptySeq DEF Ran
    <2>2. Len(path[b]) =< Len(servers[b])
      BY <1>3 DEF StageInv, StagesInOrder
    <2> QED
      BY <1>4, <1>5, <2>1, <2>2, LenProperties DEF Ran
  <1>7. k = Len(path[b])
    <2>1. servers[b] # <<>>
      BY <1>6
    <2>2. \A i, j \in DOMAIN servers[b] : servers[b][i] = servers[b][j] => i = j
      BY <1>3, <2>1 DEF StageInv, Lists
    <2> QED
      BY <1>6, <2>2 DEF MyIndex, Route
  <1>8. toHead \in Push /\ ReadyPush(toHead)
    BY <1>3, NodesAssumption DEF Push, WorkerOutput, ReadyPush
  <1>9. ASSUME k # Len(servers[b])
        PROVE  toNext \in Push /\ ReadyPush(toNext)
    <2>1. k + 1 \in DOMAIN servers[b] /\ k < Len(servers[b])
      BY <1>5, <1>6, <1>7, <1>9, LenProperties
    <2>2. servers[b][k + 1] \in Nodes /\ Ready(b, servers[b][k + 1])
      BY <1>5, <1>7, <2>1, ElementOfSeq, LenProperties DEF Ready
    <2> QED
      BY <1>3, <2>2 DEF ToNext, Push, ReadyPush
  <1> HIDE DEF toHead, toNext, k
  <1>10. InDq'
    <2>1. CASE UNCHANGED dq
      BY <1>1, <2>1, OrderKept DEF StageInv, InDq
    <2>2. CASE Deliver(n, toHead)
      BY <1>1, <1>8, <2>2, DeliverStages
    <2>3. CASE k # Len(servers[b]) /\ Deliver(n, toNext)
      BY <1>1, <1>9, <2>3, DeliverStages
    <2> QED
      BY <1>1, <2>1, <2>2, <2>3
  <1>11. InNet'
    BY <1>1, OrderKept DEF StageInv, InNet
  <1> QED
    BY <1>1, <1>2, <1>10, <1>11, OrderKept, StartsKept, AtHeadKept,
       WorkerReleased DEF StageInv

LEMMA RestartStages ==
    ASSUME TypeInv, StageInv, NEW n \in Nodes, Restart(n)
    PROVE  StageInv'
  <1>1. \A k \in Nodes : /\ dq'[k] = dq[k] \/ dq'[k] = <<>>
                         /\ inq'[k] = inq[k] \/ inq'[k] = <<>>
                         /\ \/ lockq'[k] = lockq[k] /\ phase'[k] = phase[k]
                            \/ lockq'[k] = <<>>
                         /\ deser'[k] \subseteq deser[k]
    BY DEF Restart, TypeInv, TypeOK, NetworkTypeOK, ServiceTypeOK
  <1>2. /\ UNCHANGED <<path, servers, headq, head_phase, net>>
        /\ UNCHANGED <<topology_vars, layout>>
    BY DEF Restart, head_vars
  <1>3. InNet' /\ InDq'
    BY <1>1, <1>2, OrderKept DEF StageInv, InNet, InDq
  <1>4. InInq' /\ InDeser'
    BY <1>1, <1>2, OrderKept DEF StageInv, InInq, InDeser, Occurs
  <1>5. InLockq'
    BY <1>1, <1>2, OrderKept DEF StageInv, InLockq, Occurs
  <1> QED
    BY <1>2, <1>3, <1>4, <1>5, OrderKept, StartsKept, AtHeadKept DEF StageInv

-----------------------------------------------------------------------------
LEMMA NextStages ==
    ASSUME HeadStartsFirst, TypeInv, PlacesInv, StageInv, [Next]_vars
    PROVE  StageInv'
  <1>1. ASSUME NEW b \in Batches, Submit(b) \/ SubmitEmpty(b)
        PROVE  StageInv'
    BY <1>1, SubmitStages, AnswerStages
  <1>2. CASE HeadStep
    BY <1>2, AnswerStages, HeadExecuteStages, HeadDeliverStages, HeadEndsStages
       DEF HeadStep
  <1>3. CASE MessageStep
    BY <1>3, PushIntermediateTensorsStages, LeaveNetStages DEF MessageStep
  <1>4. ASSUME NEW n \in Nodes, NodeStep(n) \/ Join(n)
        PROVE  StageInv'
    BY <1>4, ConsumerTakeStages, TriggerStages, GetInputStages,
       DeserializedStages, SetTensorsStages, WorkerExecuteStages,
       WorkerDeliverStages, JoinStages DEF NodeStep
  <1>5. CASE FaultStep
    BY <1>5, HeadEndsStages, LeaveNetStages, TriggerStages,
       DeserializeFailsStages, WorkerFailsStages, RestartStages DEF FaultStep
  <1>6. CASE UNCHANGED vars
    <2>1. /\ UNCHANGED <<path, servers, headq, head_phase, dq, net, inq, deser,
                         lockq, phase>>
          /\ UNCHANGED <<topology_vars, layout>>
      BY <1>6 DEF vars, head_vars, network_vars, service_vars, aux_vars
    <2> QED
      BY <2>1, StartsKept, StillStages
  <1> QED
    BY <1>1, <1>2, <1>3, <1>4, <1>5, <1>6 DEF Next

(* Stages in order, for every number of nodes and of batches outstanding,  *)
(* any joins, interleavings and faults: the only thing the code relies on  *)
(* without checking it is that nobody starts below the head.               *)
THEOREM StagesKept ==
    ASSUME HeadStartsFirst
    PROVE  Spec => []StagesInOrder
  <1>1. TypeInv /\ PlacesInv /\ StageInv /\ [Next]_vars
           => TypeInv' /\ PlacesInv' /\ StageInv'
    BY NextTypeInv, NextPlaces, NextStages
  <1>2. Init => TypeInv /\ PlacesInv /\ StageInv
    BY InitTypeInv, InitPlaces, InitStages
  <1>3. StageInv => StagesInOrder
    BY DEF StageInv
  <1> QED
    BY <1>1, <1>2, <1>3, PTL DEF Spec

-----------------------------------------------------------------------------
(* Triggers.  They name no batch, so all that keeps a node from waiting    *)
(* for input that never comes is their number.                             *)

(* A batch leaves the executor's lock only once the head has run it.       *)
Started ==
    \A b \in Batches : Somewhere(b) => Occurs(headq, b) \/ path[b] # <<>>

(* n has taken b from its input queue.                                     *)
Taken(n, b) ==
    b \in deser[n] \/ Occurs(lockq[n], b) \/ Occurs(path[b], n)

Matches(n) ==
    /\ trig[n] + getters[n] =< Cardinality(Due(n))
    /\ faults = 0 => trig[n] + getters[n] = Cardinality(Due(n))

TriggerInv ==
    /\ Started
    /\ IsFiniteSet(Submitted)
    /\ \A n \in Nodes : Matches(n)

LEMMA InitTriggers == Init => TriggerInv
  <1> SUFFICES ASSUME Init PROVE TriggerInv
    OBVIOUS
  <1> USE DEF Init
  <1>1. Started
    BY DEF Started, Somewhere, At, Occurs, OccursIn
  <1>2. Submitted = {} /\ \A n \in Nodes : Due(n) = {}
    BY DEF Submitted, Due
  <1>3. ASSUME NEW n \in Nodes PROVE Matches(n)
    <2>1. trig[n] = 0 /\ getters[n] = 0 /\ Cardinality(Due(n)) = 0
      BY <1>2, FS_EmptySet
    <2> QED
      BY <2>1 DEF Matches
  <1> QED
    BY <1>1, <1>2, <1>3, FS_EmptySet DEF TriggerInv

(* Nobody leaves a queue but its front.                                    *)
LEMMA RestStays ==
    ASSUME NEW S, NEW q \in Seq(S), q # <<>>, NEW c, Occurs(q, c), c # Head(q)
    PROVE  Occurs(Tail(q), c)
  <1>1. PICK i \in DOMAIN q : q[i] = c
    BY DEF Occurs
  <1>2. /\ Head(q) = q[1] /\ DOMAIN q = 1..Len(q) /\ Len(q) \in Nat
        /\ DOMAIN Tail(q) = 1..(Len(q) - 1)
        /\ \A j \in 1..(Len(q) - 1) : Tail(q)[j] = q[j + 1]
    BY HeadTailProperties, LenProperties, EmptySeq
  <1>3. i - 1 \in DOMAIN Tail(q) /\ Tail(q)[i - 1] = c
    BY <1>1, <1>2
  <1> QED
    BY <1>3 DEF Occurs

LEMMA AppendOccurs ==
    ASSUME NEW S, NEW q \in Seq(S), NEW e \in S, NEW c
    PROVE  Occurs(Append(q, e), c) <=> c = e \/ Occurs(q, c)
  <1>1. /\ DOMAIN q = 1..Len(q) /\ Len(q) \in Nat
        /\ DOMAIN Append(q, e) = 1..(Len(q) + 1)
        /\ \A i \in DOMAIN q : Append(q, e)[i] = q[i]
        /\ Append(q, e)[Len(q) + 1] = e
    BY AppendProperties, LenProperties
  <1>2. \A i \in DOMAIN Append(q, e) : i \in DOMAIN q \/ i = Len(q) + 1
    BY <1>1
  <1>3. DOMAIN q \subseteq DOMAIN Append(q, e)
        /\ Len(q) + 1 \in DOMAIN Append(q, e)
    BY <1>1
  <1> QED
    BY <1>1, <1>2, <1>3 DEF Occurs

(* The stages that ran a batch are never forgotten.                        *)
LEMMA PathGrows ==
    ASSUME TypeInv, [Next]_vars
    PROVE  \A b \in Batches : path[b] # <<>> => path'[b] # <<>>
  <1>1. path \in [Batches -> Seq(Nodes)]
    BY DEF TypeInv, TypeOK, AuxTypeOK
  <1>2. ASSUME NEW c \in Batches, NEW n \in Nodes,
               path' = [path EXCEPT ![c] = Append(@, n)]
        PROVE  \A b \in Batches : path[b] # <<>> => path'[b] # <<>>
    <2>1. Append(path[c], n) # <<>>
      BY <1>1, QueuePut
    <2> QED
      BY <1>1, <1>2, <2>1
  <1>3. CASE HeadExecute
    <2>1. Head(headq) \in Batches
      BY <1>3, QueueGet DEF HeadExecute, TypeInv, TypeOK, HeadTypeOK
    <2> QED
      BY <1>2, <1>3, <2>1, NodesAssumption DEF HeadExecute
  <1>4. ASSUME NEW n \in Nodes, WorkerExecute(n)
        PROVE  \A b \in Batches : path[b] # <<>> => path'[b] # <<>>
    <2>1. Head(lockq[n]) \in Batches
      BY <1>4, QueueGet
         DEF WorkerExecute, TypeInv, LockHeld, TypeOK, ServiceTypeOK
    <2> QED
      BY <1>2, <1>4, <2>1 DEF WorkerExecute
  <1>5. CASE UNCHANGED path
    BY <1>5
  <1>6. \/ UNCHANGED path \/ HeadExecute
        \/ \E n \in Nodes : WorkerExecute(n)
    <2>1. ASSUME NEW b \in Batches, Submit(b) \/ SubmitEmpty(b)
          PROVE  UNCHANGED path
      BY <2>1 DEF Submit, SubmitEmpty, aux_vars
    <2>2. CASE HeadStep
      BY <2>2 DEF HeadStep, Collect, HeadDeliver, HeadOutputsNone, HeadAlone,
                  ReleaseHeadLock, aux_vars
    <2>3. CASE MessageStep
      BY <2>3 DEF MessageStep, PushIntermediateTensors, PushSamplerOutput,
                  aux_vars
    <2>4. ASSUME NEW n \in Nodes, NodeStep(n) \/ Join(n)
          PROVE  UNCHANGED path \/ WorkerExecute(n)
      BY <2>4 DEF NodeStep, Join, ConsumerTake, TriggerArrives, GetInput,
                  Deserialized, SetTensors, WorkerDeliver, aux_vars
    <2>5. CASE FaultStep
      BY <2>5 DEF FaultStep, HeadFails, LosePush, LoseTrigger, InputTimeout,
                  DeserializeFails, WorkerFails, Restart
    <2>6. CASE UNCHANGED vars
      BY <2>6 DEF vars, aux_vars
    <2> QED
      BY <2>1, <2>2, <2>3, <2>4, <2>5, <2>6 DEF Next
  <1> QED
    BY <1>3, <1>4, <1>5, <1>6

LEMMA NextStarted ==
    ASSUME TypeInv, PlacesInv, StageInv, Started, [Next]_vars
    PROVE  Started'
  <1> USE DEF Started
  <1>1. \A b \in Batches : path[b] # <<>> => path'[b] # <<>>
    BY PathGrows
  <1>2. headq \in Seq(Batches)
    BY DEF TypeInv, TypeOK, HeadTypeOK
  <1>3. ASSUME NoneAppears, UNCHANGED headq
        PROVE  Started'
    BY <1>1, <1>3 DEF NoneAppears
  <1>4. ASSUME NEW b \in Batches, Submit(b)
        PROVE  Started'
    <2>1. headq' = Append(headq, b)
      BY <1>4 DEF Submit
    <2>2. \A c \in Batches \ {b} : Somewhere(c)' => Somewhere(c)
      BY <1>4, SubmitPlaces
    <2>3. \A c : Occurs(headq', c) <=> c = b \/ Occurs(headq, c)
      BY <1>2, <2>1, AppendOccurs
    <2> QED
      BY <1>1, <2>2, <2>3
  <1>5. ASSUME NEW b \in Batches, SubmitEmpty(b)
        PROVE  Started'
    BY <1>3, <1>5, SubmitEmptyPlaces DEF SubmitEmpty
  <1>6. CASE Collect
    BY <1>3, <1>6, CollectPlaces DEF Collect
  <1>7. CASE HeadExecute
    BY <1>3, <1>7, HeadExecutePlaces DEF HeadExecute
  <1>8. CASE HeadDeliver \/ HeadOutputsNone \/ HeadAlone
    <2>1. NoneAppears
      BY <1>8, HeadDeliverPlaces, HeadOutputsNonePlaces, HeadAlonePlaces
    <2>2. head_phase = "ran" /\ headq' = Tail(headq)
      BY <1>8 DEF HeadDeliver, HeadOutputsNone, HeadAlone, ReleaseHeadLock
    <2>3. headq # <<>>
      BY <2>2 DEF TypeInv, LockHeld
    <2>4. path[Head(headq)] # <<>>
      <3>1. Head(headq) = headq[1] /\ Occurs(headq, Head(headq))
            /\ Head(headq) \in Batches
        BY <1>2, <2>3, QueueGet DEF Occurs
      <3> QED
        BY <2>2, <3>1 DEF StageInv, AtHead
    <2>5. \A c : Occurs(headq, c) /\ c # Head(headq) => Occurs(headq', c)
      BY <1>2, <2>2, <2>3, RestStays
    <2> QED
      BY <1>1, <2>1, <2>4, <2>5 DEF NoneAppears
  <1>9. CASE MessageStep
    <2>1. UNCHANGED headq
      BY <1>9 DEF MessageStep, PushIntermediateTensors, PushSamplerOutput,
                  head_vars
    <2> QED
      BY <1>3, <1>9, <2>1, PushIntermediateTensorsPlaces,
         PushSamplerOutputPlaces DEF MessageStep
  <1>10. ASSUME NEW n \in Nodes, NodeStep(n) \/ Join(n)
         PROVE  Started'
    <2>1. UNCHANGED headq
      BY <1>10 DEF NodeStep, Join, ConsumerTake, TriggerArrives, GetInput,
                   Deserialized, SetTensors, WorkerExecute, WorkerDeliver,
                   head_vars
    <2> QED
      BY <1>3, <1>10, <2>1, ConsumerTakePlaces, TriggerPlaces, GetInputPlaces,
         DeserializedPlaces, WorkerDeliverPlaces DEF NodeStep
  <1>11. CASE HeadFails
    <2>1. NoneAppears /\ headq # <<>> /\ headq' = Tail(headq)
          /\ UNCHANGED <<outq, dq, net, inq, deser, lockq>>
      BY <1>11, HeadFailsPlaces DEF HeadFails, Drop, service_vars
    <2> PICK b \in Batches : b = Head(headq)
      BY <2>1, HeadTask
    <2>2. ~Somewhere(b)'
      <3>1. /\ ~Occurs(headq', b) /\ ~OccursIn(outq, b)
            /\ \A m \in net : m.batch # b
            /\ \A k \in Nodes : /\ ~OccursIn(dq[k], b) /\ ~Occurs(inq[k], b)
                                /\ b \notin deser[k] /\ ~Occurs(lockq[k], b)
        BY <2>1, HeadTask
      <3> QED
        BY <2>1, <3>1 DEF Somewhere, At
    <2>3. \A c : Occurs(headq, c) /\ c # b => Occurs(headq', c)
      BY <1>2, <2>1, RestStays
    <2> QED
      BY <1>1, <2>1, <2>2, <2>3 DEF NoneAppears
  <1>12. CASE FaultStep /\ ~HeadFails
    <2>1. UNCHANGED headq
      BY <1>12 DEF FaultStep, LosePush, LoseTrigger, InputTimeout,
                   DeserializeFails, WorkerFails, Restart, head_vars
    <2> QED
      BY <1>3, <1>12, <2>1, LosePushPlaces, TriggerPlaces,
         DeserializeFailsPlaces, WorkerFailsPlaces, RestartPlaces DEF FaultStep
  <1>13. CASE UNCHANGED vars
    <2>1. UNCHANGED <<status, headq, outq, dq, net, inq, deser, lockq>>
      BY <1>13 DEF vars, head_vars, network_vars, service_vars
    <2> QED
      BY <1>3, <2>1, StillPlaces
  <1> QED
    BY <1>4, <1>5, <1>6, <1>7, <1>8, <1>9, <1>10, <1>11, <1>12, <1>13
       DEF Next, HeadStep

(* A batch that has reached a node has passed the head.                    *)
LEMMA PassedHead ==
    ASSUME PlacesInv, Started, NEW b \in Batches, NEW p \in Places,
           NEW n \in Nodes, At(p, n, b), p # "headq"
    PROVE  path[b] # <<>>
  BY NowhereElse DEF Started, Somewhere

LEMMA DueIs ==
    ASSUME NEW n \in Nodes, NEW b
    PROVE  b \in Due(n) <=> /\ b \in Submitted
                            /\ n \in WorkerServers(servers[b])
                            /\ ~Taken(n, b)
  BY DEF Due, Taken, Occurs, Positions

LEMMA DueFinite ==
    ASSUME IsFiniteSet(Submitted), NEW n \in Nodes
    PROVE  IsFiniteSet(Due(n)) /\ Cardinality(Due(n)) \in Nat
  <1>1. Due(n) \in SUBSET Submitted
    BY DEF Due
  <1> QED
    BY <1>1, FS_Subset, FS_CardinalityType

(* The count of a node in a step that concerns neither it nor its batches. *)
LEMMA MatchKept ==
    ASSUME TypeInv, TriggerInv, NEW n \in Nodes, UNCHANGED servers,
           \A b \in Batches : Taken(n, b)' <=> Taken(n, b),
           trig'[n] + getters'[n] = trig[n] + getters[n],
           faults' = 0 => faults = 0
    PROVE  Matches(n)'
  <1>1. Due(n)' = Due(n)
    <2>1. Submitted' = Submitted /\ Submitted \subseteq Batches
      BY DEF Submitted
    <2>2. \A b : b \in Due(n)' <=> /\ b \in Submitted'
                                   /\ n \in WorkerServers(servers'[b])
                                   /\ ~Taken(n, b)'
      BY DEF Due, Taken, Occurs, Positions, WorkerServers
    <2> QED
      BY <2>1, <2>2, DueIs
  <1> QED
    BY <1>1 DEF TriggerInv, Matches

(* A fault may only make triggers fewer and batches to come more: the      *)
(* batch of a failed forward pass is due for ever.                         *)
LEMMA MatchAfterFault ==
    ASSUME TypeInv, TriggerInv, Fault, NEW n \in Nodes, UNCHANGED servers,
           \A b \in Batches : Taken(n, b)' => Taken(n, b),
           trig'[n] + getters'[n] =< trig[n] + getters[n],
           trig'[n] \in Nat, getters'[n] \in Nat
    PROVE  Matches(n)'
  <1>1. Due(n) \subseteq Due(n)'
    <2>1. Submitted' = Submitted /\ Submitted \subseteq Batches
      BY DEF Submitted
    <2>2. \A b : b \in Due(n)' <=> /\ b \in Submitted'
                                   /\ n \in WorkerServers(servers'[b])
                                   /\ ~Taken(n, b)'
      BY DEF Due, Taken, Occurs, Positions, WorkerServers
    <2> QED
      BY <2>1, <2>2, DueIs
  <1>2. IsFiniteSet(Due(n)')
    <2>1. Due(n)' \in SUBSET Submitted
      BY DEF Due, Submitted
    <2> QED
      BY <2>1, FS_Subset DEF TriggerInv
  <1>3. Cardinality(Due(n)) =< Cardinality(Due(n)')
        /\ Cardinality(Due(n)) \in Nat /\ Cardinality(Due(n)') \in Nat
    BY <1>1, <1>2, DueFinite, FS_Subset, FS_CardinalityType DEF TriggerInv
  <1>4. faults' # 0
    BY DEF Fault, TypeInv, TypeOK, AuxTypeOK
  <1>5. trig[n] \in Nat /\ getters[n] \in Nat
    BY DEF TypeInv, TypeOK, NetworkTypeOK, ServiceTypeOK
  <1>6. trig[n] + getters[n] =< Cardinality(Due(n))
    BY DEF TriggerInv, Matches
  <1> QED
    BY <1>3, <1>4, <1>5, <1>6 DEF Matches

(* Every node of the list but the first gets one trigger with the batch.   *)
LEMMA SubmitMatches ==
    ASSUME HeadStartsFirst, TypeInv, PlacesInv, StageInv, TriggerInv,
           NEW b \in Batches, Submit(b)
    PROVE  IsFiniteSet(Submitted)' /\ \A n \in Nodes : Matches(n)'
  <1> DEFINE list == ServerList(node_info)
  <1>1. /\ status[b] = "new"
        /\ servers' = [servers EXCEPT ![b] = list]
        /\ trig' = [n \in Nodes |-> IF n \in WorkerServers(list)
                                    THEN trig[n] + 1 ELSE trig[n]]
        /\ UNCHANGED <<path, faults, getters, deser, lockq>>
    BY DEF Submit, service_vars, aux_vars
  <1>2. list # <<>>
    BY NewList
  <1> HIDE DEF list
  <1>3. servers \in [Batches -> Seq(Nodes)] /\ path \in [Batches -> Seq(Nodes)]
    BY DEF TypeInv, TypeOK, HeadTypeOK, AuxTypeOK
  <1>4. servers'[b] = list /\ \A c \in Batches \ {b} : servers'[c] = servers[c]
    BY <1>1, <1>3
  <1>5. servers[b] = <<>> /\ path[b] = <<>>
    <2>1. servers[b] = <<>> /\ Len(servers[b]) = 0
      BY <1>1 DEF TypeInv, Fresh
    <2>2. Len(path[b]) =< 0 /\ Len(path[b]) \in Nat
      BY <1>3, <2>1, LenProperties DEF StageInv, StagesInOrder
    <2> QED
      BY <1>3, <2>1, <2>2, EmptySeq
  <1>6. b \notin Submitted /\ Submitted' = Submitted \cup {b}
    BY <1>2, <1>4, <1>5 DEF Submitted
  <1>7. IsFiniteSet(Submitted')
    BY <1>6, FS_AddElement DEF TriggerInv
  <1>8. ASSUME NEW n \in Nodes
        PROVE  Matches(n)'
    <2>1. ~Taken(n, b)
      BY <1>1, <1>5, Nowhere DEF Taken, Occurs
    <2>2. \A c : Taken(n, c)' <=> Taken(n, c)
      BY <1>1 DEF Taken
    <2>3. \A c : c \in Due(n)' <=> /\ c \in Submitted'
                                   /\ n \in WorkerServers(servers'[c])
                                   /\ ~Taken(n, c)'
      BY DEF Due, Taken, Occurs, Positions, WorkerServers
    <2>4. Submitted \subseteq Batches
      BY DEF Submitted
    <2>5. /\ trig[n] \in Nat /\ getters[n] \in Nat
          /\ trig[n] + getters[n] =< Cardinality(Due(n))
          /\ faults = 0 => trig[n] + getters[n] = Cardinality(Due(n))
      BY DEF TypeInv, TypeOK, NetworkTypeOK, ServiceTypeOK, TriggerInv, Matches
    <2>6. IsFiniteSet(Due(n)) /\ Cardinality(Due(n)) \in Nat
      BY DueFinite DEF TriggerInv
    <2>7. CASE n \in WorkerServers(list)
      <3>1. Due(n)' = Due(n) \cup {b} /\ b \notin Due(n)
        BY <1>4, <1>6, <2>1, <2>2, <2>3, <2>4, <2>7, DueIs
      <3>2. Cardinality(Due(n)') = Cardinality(Due(n)) + 1
        BY <3>1, <2>6, FS_AddElement
      <3>3. trig'[n] = trig[n] + 1 /\ getters'[n] = getters[n]
            /\ faults' = faults
        BY <1>1, <2>7
      <3> QED
        BY <3>2, <3>3, <2>5, <2>6 DEF Matches
    <2>8. CASE n \notin WorkerServers(list)
      <3>1. Due(n)' = Due(n)
        BY <1>4, <1>6, <2>2, <2>3, <2>4, <2>8, DueIs
      <3>2. trig'[n] = trig[n] /\ getters'[n] = getters[n] /\ faults' = faults
        BY <1>1, <2>8
      <3> QED
        BY <3>1, <3>2, <2>5 DEF Matches
    <2> QED
      BY <2>7, <2>8
  <1> QED
    BY <1>7, <1>8

(* A batch that a node takes from its input queue was due there: the node  *)
(* is not the first of its list, and has not run it.                       *)
LEMMA DueAtInput ==
    ASSUME TypeInv, PlacesInv, StageInv, Started,
           NEW b \in Batches, NEW n \in Nodes, Occurs(inq[n], b)
    PROVE  b \in Due(n)
  <1>1. At("inq", n, b) /\ "inq" \in Places
    BY DEF At, Places
  <1>2. b \notin deser[n] /\ ~Occurs(lockq[n], b)
    BY <1>1, NowhereElse
  <1>3. path[b] # <<>> /\ Ready(b, n)
    BY <1>1, PassedHead DEF StageInv, InInq
  <1>4. servers[b] \in Seq(Nodes) /\ path[b] \in Seq(Nodes)
    BY DEF TypeInv, TypeOK, HeadTypeOK, AuxTypeOK
  <1>5. /\ Len(path[b]) \in Nat /\ Len(path[b]) > 0 /\ Len(servers[b]) \in Nat
        /\ DOMAIN path[b] = 1..Len(path[b])
        /\ DOMAIN servers[b] = 1..Len(servers[b])
        /\ Len(path[b]) + 1 \in 2..Len(servers[b])
        /\ servers[b] # <<>>
    BY <1>3, <1>4, LenProperties, EmptySeq DEF Ready
  <1>6. n \in WorkerServers(servers[b])
    BY <1>3, <1>5 DEF Ready, WorkerServers
  <1>7. ~Occurs(path[b], n)
    <2> SUFFICES ASSUME NEW i \in DOMAIN path[b], path[b][i] = n
                 PROVE  FALSE
      BY DEF Occurs
    <2>1. servers[b][i] = n /\ i \in DOMAIN servers[b]
      BY <1>5 DEF StageInv, StagesInOrder
    <2>2. i = Len(path[b]) + 1
      BY <1>3, <1>5, <2>1 DEF StageInv, Lists, Ready
    <2> QED
      BY <1>5, <2>2
  <1>8. b \in Submitted
    BY <1>5 DEF Submitted
  <1> QED
    BY <1>2, <1>6, <1>7, <1>8, DueIs DEF Taken

LEMMA GetInputMatches ==
    ASSUME TypeInv, PlacesInv, StageInv, TriggerInv,
           NEW n \in Nodes, GetInput(n), NEW m \in Nodes
    PROVE  Matches(m)'
  <1> DEFINE b == Head(inq[n])
  <1>1. /\ getters[n] > 0 /\ inq[n] # <<>>
        /\ getters' = [getters EXCEPT ![n] = @ - 1]
        /\ deser' = [deser EXCEPT ![n] = @ \cup {b}]
        /\ UNCHANGED <<servers, path, faults, trig, lockq>>
    BY DEF GetInput, head_vars, network_vars, aux_vars
  <1>2. /\ getters \in [Nodes -> Nat] /\ trig \in [Nodes -> Nat]
        /\ deser \in [Nodes -> SUBSET Batches] /\ inq[n] \in Seq(Batches)
    BY DEF TypeInv, TypeOK, NetworkTypeOK, ServiceTypeOK
  <1>3. b \in Batches /\ Occurs(inq[n], b)
    BY <1>1, <1>2, QueueGet DEF Occurs
  <1>4. b \in Due(n)
    BY <1>3, DueAtInput DEF TriggerInv
  <1> HIDE DEF b
  <1>5. CASE m # n
    BY <1>1, <1>2, <1>5, MatchKept DEF Taken
  <1>6. CASE m = n
    <2>1. \A c : Taken(n, c)' <=> c = b \/ Taken(n, c)
      BY <1>1, <1>2 DEF Taken
    <2>2. \A c : c \in Due(n)' <=> /\ c \in Submitted'
                                   /\ n \in WorkerServers(servers'[c])
                                   /\ ~Taken(n, c)'
      BY DEF Due, Taken, Occurs, Positions, WorkerServers
    <2>3. Submitted' = Submitted
      BY <1>1 DEF Submitted
    <2>4. Due(n)' = Due(n) \ {b}
      BY <1>1, <2>1, <2>2, <2>3, DueIs
    <2>5. IsFiniteSet(Due(n)) /\ Cardinality(Due(n)) \in Nat
      BY DueFinite DEF TriggerInv
    <2>6. Cardinality(Due(n)') = Cardinality(Due(n)) - 1
      BY <1>4, <2>4, <2>5, FS_RemoveElement
    <2>7. /\ trig[n] \in Nat /\ getters[n] \in Nat
          /\ trig[n] + getters[n] =< Cardinality(Due(n))
          /\ faults = 0 => trig[n] + getters[n] = Cardinality(Due(n))
      BY <1>2 DEF TriggerInv, Matches
    <2>8. trig'[n] = trig[n] /\ getters'[n] = getters[n] - 1 /\ faults' = faults
      BY <1>1, <1>2
    <2> QED
      BY <1>6, <2>5, <2>6, <2>7, <2>8 DEF Matches
  <1> QED
    BY <1>5, <1>6

LEMMA DeserializedMatches ==
    ASSUME TypeInv, TriggerInv, NEW n \in Nodes, NEW b \in Batches,
           Deserialized(n, b), NEW m \in Nodes
    PROVE  Matches(m)'
  <1>1. /\ b \in deser[n] /\ deser' = [deser EXCEPT ![n] = @ \ {b}]
        /\ lockq' = [lockq EXCEPT ![n] = Append(@, b)]
        /\ UNCHANGED <<servers, path, faults, trig, getters>>
    BY DEF Deserialized, head_vars, network_vars, aux_vars
  <1>2. /\ deser \in [Nodes -> SUBSET Batches]
        /\ lockq \in [Nodes -> Seq(Batches)] /\ lockq[n] \in Seq(Batches)
    BY DEF TypeInv, TypeOK, ServiceTypeOK
  <1>3. \A c : Occurs(Append(lockq[n], b), c) <=> c = b \/ Occurs(lockq[n], c)
    BY <1>2, AppendOccurs
  <1>4. \A c : Taken(m, c)' <=> Taken(m, c)
    BY <1>1, <1>2, <1>3 DEF Taken
  <1> QED
    BY <1>1, <1>4, MatchKept

(* The head is never triggered, so what it runs changes no count.          *)
LEMMA HeadExecuteMatches ==
    ASSUME HeadStartsFirst, TypeInv, PlacesInv, StageInv, TriggerInv,
           HeadExecute, NEW m \in Nodes
    PROVE  Matches(m)'
  <1> DEFINE b == Head(headq)
  <1>1. /\ headq # <<>> /\ path' = [path EXCEPT ![b] = Append(@, HeadNode)]
        /\ UNCHANGED <<servers, faults, trig, getters, deser, lockq>>
    BY DEF HeadExecute, network_vars
  <1>2. b \in Batches /\ path \in [Batches -> Seq(Nodes)]
    BY <1>1, QueueGet DEF TypeInv, TypeOK, HeadTypeOK, AuxTypeOK
  <1> HIDE DEF b
  <1>3. CASE m # HeadNode
    <2>1. Occurs(Append(path[b], HeadNode), m) <=> Occurs(path[b], m)
      BY <1>2, <1>3, NodesAssumption, AppendOccurs
    <2>2. \A c \in Batches : Taken(m, c)' <=> Taken(m, c)
      BY <1>1, <1>2, <2>1 DEF Taken
    <2> QED
      BY <1>1, <2>2, MatchKept
  <1>4. CASE m = HeadNode
    <2>1. \A c \in Submitted : HeadNode \notin WorkerServers(servers[c])
      <3> SUFFICES ASSUME NEW c \in Submitted, NEW k \in 2..Len(servers[c]),
                          servers[c][k] = HeadNode
                   PROVE  FALSE
        BY DEF WorkerServers
      <3>1. servers[c] \in Seq(Nodes) /\ servers[c] # <<>> /\ c \in Batches
        BY DEF Submitted, TypeInv, TypeOK, HeadTypeOK
      <3>2. 1 \in DOMAIN servers[c] /\ k \in DOMAIN servers[c] /\ k # 1
        BY <3>1, LenProperties
      <3> QED
        BY <3>1, <3>2 DEF StageInv, Lists
    <2>2. Due(m) = {} /\ Due(m)' = {}
      BY <1>1, <1>4, <2>1 DEF Due, Submitted
    <2> QED
      BY <1>1, <2>2 DEF TriggerInv, Matches
  <1> QED
    BY <1>3, <1>4

(* A forward pass, and the end of one, leave a batch taken.                *)
LEMMA WorkerMatches ==
    ASSUME TypeInv, StageInv, TriggerInv, NEW n \in Nodes, NEW m \in Nodes,
           WorkerExecute(n) \/ WorkerDeliver(n)
    PROVE  Matches(m)'
  <1> DEFINE b == Head(lockq[n])
  <1>1. /\ path \in [Batches -> Seq(Nodes)] /\ lockq \in [Nodes -> Seq(Batches)]
        /\ lockq[n] \in Seq(Batches) /\ lockq[n] # <<>>
    BY DEF TypeInv, TypeOK, AuxTypeOK, ServiceTypeOK, LockHeld, WorkerExecute,
           WorkerDeliver
  <1>2. b \in Batches /\ Occurs(lockq[n], b) /\ b = lockq[n][1]
    BY <1>1, QueueGet DEF Occurs
  <1>3. UNCHANGED <<servers, faults, trig, getters, deser>>
    BY DEF WorkerExecute, WorkerDeliver, head_vars, network_vars
  <1>4. \A c \in Batches : Taken(m, c)' <=> Taken(m, c)
    <2>1. CASE WorkerExecute(n)
      <3>1. path' = [path EXCEPT ![b] = Append(@, n)] /\ UNCHANGED lockq
        BY <2>1 DEF WorkerExecute
      <3> HIDE DEF b
      <3>2. Occurs(Append(path[b], n), m) <=> m = n \/ Occurs(path[b], m)
        BY <1>1, <1>2, AppendOccurs
      <3> QED
        BY <1>1, <1>2, <1>3, <3>1, <3>2 DEF Taken
    <2>2. CASE WorkerDeliver(n)
      <3>1. /\ lockq' = [lockq EXCEPT ![n] = Tail(@)] /\ UNCHANGED path
            /\ phase[n] = "ran"
        BY <2>2 DEF WorkerDeliver
      <3>2. Occurs(path[b], n)
        <4>1. Ran(b, n) /\ path[b] \in Seq(Nodes)
          BY <1>1, <1>2, <3>1 DEF StageInv, InLockq
        <4>2. Len(path[b]) \in DOMAIN path[b]
          BY <4>1, LenProperties, EmptySeq DEF Ran
        <4>3. path[b][Len(path[b])] = n
          BY <1>2, <4>1, <4>2 DEF StageInv, StagesInOrder, Ran
        <4> QED
          BY <4>2, <4>3 DEF Occurs
      <3>3. \A c : Occurs(lockq[n], c) /\ c # b => Occurs(Tail(lockq[n]), c)
        BY <1>1, RestStays
      <3>4. \A c : Occurs(Tail(lockq[n]), c) => Occurs(lockq[n], c)
        BY <1>1, QueueGet DEF Occurs
      <3> HIDE DEF b
      <3> QED
        BY <1>1, <1>2, <1>3, <3>1, <3>2, <3>3, <3>4 DEF Taken
    <2> QED
      BY <2>1, <2>2
  <1> QED
    BY <1>3, <1>4, MatchKept

(* Steps that take, run and trigger nothing.                               *)
LEMMA QuietMatches ==
    ASSUME TypeInv, TriggerInv, NEW m \in Nodes,
           UNCHANGED <<servers, path, deser, lockq>>,
           trig'[m] + getters'[m] = trig[m] + getters[m],
           faults' = 0 => faults = 0
    PROVE  Matches(m)'
  BY MatchKept DEF Taken

LEMMA LostTriggerMatches ==
    ASSUME TypeInv, TriggerInv, NEW n \in Nodes, NEW m \in Nodes,
           LoseTrigger(n) \/ InputTimeout(n)
    PROVE  Matches(m)'
  <1>1. Fault /\ UNCHANGED <<servers, path, deser, lockq>>
    BY DEF LoseTrigger, InputTimeout, head_vars, service_vars
  <1>2. \A c : Taken(m, c)' <=> Taken(m, c)
    BY <1>1 DEF Taken
  <1>3. trig \in [Nodes -> Nat] /\ getters \in [Nodes -> Nat]
    BY DEF TypeInv, TypeOK, NetworkTypeOK, ServiceTypeOK
  <1>4. /\ trig'[m] + getters'[m] =< trig[m] + getters[m]
        /\ trig'[m] \in Nat /\ getters'[m] \in Nat
    <2>1. CASE LoseTrigger(n)
      <3>1. /\ trig[n] > 0 /\ getters' = getters
            /\ trig' = [trig EXCEPT ![n] = @ - 1]
        BY <2>1 DEF LoseTrigger, service_vars
      <3> QED
        BY <1>3, <3>1
    <2>2. CASE InputTimeout(n)
      <3>1. /\ getters[n] > 0 /\ trig' = trig
            /\ getters' = [getters EXCEPT ![n] = @ - 1]
        BY <2>2 DEF InputTimeout, network_vars
      <3> QED
        BY <1>3, <3>1
    <2> QED
      BY <2>1, <2>2
  <1> QED
    BY <1>1, <1>2, <1>4, MatchAfterFault

LEMMA CrashMatches ==
    ASSUME TypeInv, TriggerInv, NEW n \in Nodes, NEW m \in Nodes,
           WorkerFails(n) \/ Restart(n)
    PROVE  Matches(m)'
  <1>1. /\ Fault /\ UNCHANGED <<servers, path, trig>>
        /\ \A k \in Nodes : deser'[k] \subseteq deser[k]
        /\ getters' = getters \/ getters' = [getters EXCEPT ![n] = 0]
    BY DEF WorkerFails, Restart, head_vars, TypeInv, TypeOK, ServiceTypeOK
  <1>2. \A k \in Nodes : \A c : Occurs(lockq'[k], c) => Occurs(lockq[k], c)
    <2>0. lockq \in [Nodes -> Seq(Batches)] /\ lockq[n] \in Seq(Batches)
      BY DEF TypeInv, TypeOK, ServiceTypeOK
    <2>1. CASE WorkerFails(n)
      <3>1. lockq' = [lockq EXCEPT ![n] = Tail(@)] /\ lockq[n] # <<>>
        BY <2>1 DEF WorkerFails, TypeInv, LockHeld
      <3>2. \A c : Occurs(Tail(lockq[n]), c) => Occurs(lockq[n], c)
        BY <2>0, <3>1, QueueGet DEF Occurs
      <3> QED
        BY <2>0, <3>1, <3>2
    <2>2. CASE Restart(n)
      BY <2>0, <2>2 DEF Restart, Occurs
    <2> QED
      BY <2>1, <2>2
  <1>3. \A c : Taken(m, c)' => Taken(m, c)
    BY <1>1, <1>2 DEF Taken
  <1>4. /\ trig'[m] + getters'[m] =< trig[m] + getters[m]
        /\ trig'[m] \in Nat /\ getters'[m] \in Nat
    <2>1. trig \in [Nodes -> Nat] /\ getters \in [Nodes -> Nat]
      BY DEF TypeInv, TypeOK, NetworkTypeOK, ServiceTypeOK
    <2>2. getters'[m] = getters[m] \/ getters'[m] = 0
      BY <1>1, <2>1
    <2> QED
      BY <1>1, <2>1, <2>2
  <1> QED
    BY <1>1, <1>3, <1>4, MatchAfterFault

LEMMA DeserializeFailsMatches ==
    ASSUME TypeInv, TriggerInv, NEW n \in Nodes, NEW b \in Batches,
           DeserializeFails(n, b), NEW m \in Nodes
    PROVE  Matches(m)'
  <1>1. /\ Fault /\ UNCHANGED <<servers, path, trig, getters, lockq>>
        /\ \A k \in Nodes : deser'[k] \subseteq deser[k]
    BY DEF DeserializeFails, head_vars, TypeInv, TypeOK, ServiceTypeOK
  <1>2. \A c : Taken(m, c)' => Taken(m, c)
    BY <1>1 DEF Taken
  <1>3. /\ trig'[m] + getters'[m] =< trig[m] + getters[m]
        /\ trig'[m] \in Nat /\ getters'[m] \in Nat
    BY <1>1 DEF TypeInv, TypeOK, NetworkTypeOK, ServiceTypeOK
  <1> QED
    BY <1>1, <1>2, <1>3, MatchAfterFault

-----------------------------------------------------------------------------
LEMMA NextTriggers ==
    ASSUME HeadStartsFirst, TypeInv, PlacesInv, StageInv, TriggerInv,
           [Next]_vars
    PROVE  TriggerInv'
  <1>1. Started'
    BY NextStarted DEF TriggerInv
  <1>2. ASSUME NEW b \in Batches, Submit(b)
        PROVE  TriggerInv'
    BY <1>1, <1>2, SubmitMatches DEF TriggerInv
  <1>3. ASSUME UNCHANGED servers, \A n \in Nodes : Matches(n)'
        PROVE  TriggerInv'
    BY <1>1, <1>3 DEF TriggerInv, Submitted
  <1>4. /\ getters \in [Nodes -> Nat] /\ trig \in [Nodes -> Nat] /\ faults \in Nat
    BY DEF TypeInv, TypeOK, NetworkTypeOK, ServiceTypeOK, AuxTypeOK
  <1>5. ASSUME NEW b \in Batches, SubmitEmpty(b)
        PROVE  TriggerInv'
    BY <1>3, <1>5, QuietMatches
       DEF SubmitEmpty, network_vars, service_vars, aux_vars
  <1>6. CASE HeadStep /\ ~HeadExecute
    <2>1. UNCHANGED <<servers, path, deser, lockq, trig, getters, faults>>
      BY <1>6 DEF HeadStep, Collect, HeadDeliver, HeadOutputsNone, HeadAlone,
                  ReleaseHeadLock, network_vars, service_vars, aux_vars
    <2> QED
      BY <1>3, <2>1, QuietMatches
  <1>7. CASE HeadExecute
    BY <1>3, <1>7, HeadExecuteMatches DEF HeadExecute
  <1>8. CASE MessageStep
    <2>1. UNCHANGED <<servers, path, deser, lockq, trig, getters, faults>>
      BY <1>8 DEF MessageStep, PushIntermediateTensors, PushSamplerOutput,
                  head_vars, service_vars, aux_vars
    <2> QED
      BY <1>3, <2>1, QuietMatches
  <1>9. ASSUME NEW n \in Nodes, ConsumerTake(n) \/ SetTensors(n) \/ Join(n)
        PROVE  TriggerInv'
    <2>1. UNCHANGED <<servers, path, deser, lockq, trig, getters, faults>>
      BY <1>9 DEF ConsumerTake, SetTensors, Join, head_vars, network_vars,
                  service_vars, aux_vars
    <2> QED
      BY <1>3, <2>1, QuietMatches
  <1>10. ASSUME NEW n \in Nodes, TriggerArrives(n)
         PROVE  TriggerInv'
    <2>1. UNCHANGED <<servers, path, deser, lockq, faults>>
      BY <1>10 DEF TriggerArrives, head_vars, aux_vars
    <2>2. \A m \in Nodes : trig'[m] + getters'[m] = trig[m] + getters[m]
      BY <1>4, <1>10 DEF TriggerArrives
    <2> QED
      BY <1>3, <2>1, <2>2, QuietMatches
  <1>11. ASSUME NEW n \in Nodes, GetInput(n) \/ \E b \in Batches : Deserialized(n, b)
         PROVE  TriggerInv'
    <2>1. UNCHANGED servers
      BY <1>11 DEF GetInput, Deserialized, head_vars
    <2> QED
      BY <1>3, <1>11, <2>1, GetInputMatches, DeserializedMatches
  <1>12. ASSUME NEW n \in Nodes, WorkerExecute(n) \/ WorkerDeliver(n)
         PROVE  TriggerInv'
    <2>1. UNCHANGED servers
      BY <1>12 DEF WorkerExecute, WorkerDeliver, head_vars
    <2> QED
      BY <1>3, <1>12, <2>1, WorkerMatches
  <1>13. CASE HeadFails \/ \E m \in net : LosePush(m)
    <2>1. UNCHANGED <<servers, path, deser, lockq, trig, getters>>
          /\ faults' = faults + 1
      BY <1>13 DEF HeadFails, LosePush, Fault, head_vars, service_vars
    <2> QED
      BY <1>3, <1>4, <2>1, QuietMatches
  <1>14. ASSUME NEW n \in Nodes,
                \/ LoseTrigger(n) \/ InputTimeout(n)
                \/ WorkerFails(n) \/ Restart(n)
                \/ \E b \in Batches : DeserializeFails(n, b)
         PROVE  TriggerInv'
    <2>1. UNCHANGED servers
      BY <1>14 DEF LoseTrigger, InputTimeout, DeserializeFails, WorkerFails,
                   Restart, head_vars
    <2> QED
      BY <1>3, <1>14, <2>1, LostTriggerMatches, DeserializeFailsMatches,
         CrashMatches
  <1>15. CASE UNCHANGED vars
    BY <1>3, <1>15, QuietMatches
       DEF vars, head_vars, network_vars, service_vars, aux_vars
  <1>16. ASSUME NEW n \in Nodes, NodeStep(n) \/ Join(n)
         PROVE  TriggerInv'
    BY <1>9, <1>10, <1>11, <1>12, <1>16 DEF NodeStep
  <1>17. CASE FaultStep
    BY <1>13, <1>14, <1>17 DEF FaultStep
  <1> QED
    BY <1>2, <1>5, <1>6, <1>7, <1>8, <1>15, <1>16, <1>17 DEF Next

(* A node never waits for more batches than are coming, and as long as     *)
(* nothing was lost for no fewer, for every number of nodes and of batches *)
(* outstanding, any joins and interleavings (executor.py:422, service.py:  *)
(* 239).  A stage that waited for one too many would block for the ten     *)
(* seconds of wait_for, one too few would leave a batch in its queue.      *)
THEOREM TriggersCounted ==
    ASSUME HeadStartsFirst
    PROVE  Spec => []TriggersMatchBatches
  <1>1. TypeInv /\ PlacesInv /\ StageInv /\ TriggerInv /\ [Next]_vars
           => TypeInv' /\ PlacesInv' /\ StageInv' /\ TriggerInv'
    BY NextTypeInv, NextPlaces, NextStages, NextTriggers
  <1>2. Init => TypeInv /\ PlacesInv /\ StageInv /\ TriggerInv
    BY InitTypeInv, InitPlaces, InitStages, InitTriggers
  <1>3. TriggerInv => TriggersMatchBatches
    BY DEF TriggerInv, Matches, TriggersMatchBatches
  <1> QED
    BY <1>1, <1>2, <1>3, PTL DEF Spec

-----------------------------------------------------------------------------
(* What becomes of a batch, and what execute_model returns.                *)
(*                                                                         *)
(* First, for any number of batches outstanding and any fault: a submitted *)
(* batch is at one place of the cluster, or was answered to one call, or   *)
(* was dropped where the code logs an error, and never two of these.       *)
(*                                                                         *)
(* Then, with one batch outstanding: execute_model returns the output of   *)
(* the batch it was called for, nothing is left behind, and the pipeline   *)
(* implements BatchService.  The output queue hands the oldest output to   *)
(* the longest-waiting call without looking at either (executor.py:490);   *)
(* with one call outstanding there is nothing to confuse, because the      *)
(* answer was the only place the batch was at.  The violated run           *)
(* ForeignResult shows that the assumption is needed.                      *)

(* Some call of execute_model returned the output of b.                    *)
Returned(b) == \E c \in Batches : result[c].batch = b

ReturnedOnce ==
    \A c, d \in Batches :
        result[c].batch = result[d].batch /\ result[c].batch # NoBatch => c = d

Unanswered ==
    \A b \in Batches : status[b] \in {"new", "pending"} => result[b] = NoResult

WaitersPending ==
    /\ \A i \in DOMAIN waiters : status[waiters[i]] = "pending"
    /\ Distinct(waiters)

OneFate ==
    \A b \in Batches :
        /\ Somewhere(b) => b \notin lost /\ ~Returned(b)
        /\ b \in lost => ~Returned(b)

SomeFate == \A b \in Submitted : Somewhere(b) \/ b \in lost \/ Returned(b)

NoFate ==
    \A b \in Batches : status[b] = "new" => b \notin lost /\ ~Returned(b)

AccountInv ==
    /\ ReturnedOnce /\ Unanswered /\ WaitersPending
    /\ OneFate /\ SomeFate /\ NoFate

LEMMA InitAccounts == Init => AccountInv
  <1> SUFFICES ASSUME Init PROVE AccountInv
    OBVIOUS
  <1> USE NoBatchAssumption DEF Init
  <1>1. \A b \in Batches : ~Returned(b) /\ result[b] = NoResult /\ servers[b] = <<>>
    BY DEF Returned, NoResult
  <1>2. \A b \in Batches : ~Somewhere(b)
    BY DEF Somewhere, At, Occurs, OccursIn
  <1>3. ReturnedOnce
    BY <1>1 DEF ReturnedOnce, NoResult
  <1>4. WaitersPending
    BY DEF WaitersPending, Distinct
  <1> QED
    BY <1>1, <1>2, <1>3, <1>4
       DEF AccountInv, Unanswered, OneFate, SomeFate, NoFate, Submitted

-----------------------------------------------------------------------------
(* Steps in which no call starts or returns: a batch stays somewhere, or   *)
(* it leaves every place and is recorded as lost.                          *)
Stays(b) == (Somewhere(b)' <=> Somewhere(b)) /\ (b \in lost' <=> b \in lost)
IsDropped(b) == Somewhere(b) /\ ~Somewhere(b)' /\ b \in lost'

Handover ==
    /\ UNCHANGED <<status, result, servers, waiters>>
    /\ \A b \in Batches : Stays(b) \/ IsDropped(b)

LEMMA HandoverAccounts ==
    ASSUME PlacesInv, AccountInv, Handover
    PROVE  AccountInv'
  <1> USE DEF Handover
  <1>1. \A b : Returned(b)' <=> Returned(b)
    BY DEF Returned
  <1>2. ReturnedOnce' /\ Unanswered' /\ WaitersPending'
    BY DEF AccountInv, ReturnedOnce, Unanswered, WaitersPending
  <1>3. OneFate'
    BY <1>1 DEF AccountInv, OneFate, Stays, IsDropped
  <1>4. SomeFate'
    BY <1>1 DEF AccountInv, SomeFate, Submitted, Stays, IsDropped
  <1>5. NoFate'
    <2> SUFFICES ASSUME NEW b \in Batches, status[b] = "new"
                 PROVE  b \notin lost' /\ ~Returned(b)'
      BY DEF NoFate
    <2>1. b \notin lost /\ ~Returned(b)
      BY DEF AccountInv, NoFate
    <2>2. ~Somewhere(b)
      BY DEF PlacesInv, Unborn, Somewhere
    <2> QED
      BY <1>1, <2>1, <2>2 DEF Stays, IsDropped
  <1> QED
    BY <1>2, <1>3, <1>4, <1>5 DEF AccountInv

(* The places of the cluster one by one.                                   *)
Held(b) ==
    \/ Occurs(headq, b) \/ OccursIn(outq, b) \/ \E m \in net : m.batch = b
    \/ \E k \in Nodes : \/ OccursIn(dq[k], b) \/ Occurs(inq[k], b)
                        \/ b \in deser[k] \/ Occurs(lockq[k], b)

LEMMA HeldSomewhere ==
    \A b : (Somewhere(b) <=> Held(b)) /\ (Somewhere(b)' <=> Held(b)')
  <1> USE NodesAssumption DEF Somewhere, Places, At
  <1>1. ASSUME NEW b PROVE Somewhere(b) <=> Held(b)
    BY DEF Held
  <1>2. ASSUME NEW b PROVE Somewhere(b)' <=> Held(b)'
    BY DEF Held
  <1> QED
    BY <1>1, <1>2

LEMMA NoneDropped ==
    ASSUME NoneAppears, UNCHANGED <<status, result, servers, waiters, lost>>,
           \A b \in Batches : Held(b) => Held(b)'
    PROVE  Handover
  BY HeldSomewhere DEF NoneAppears, Handover, Stays

LEMMA OneDropped ==
    ASSUME NoneAppears, UNCHANGED <<status, result, servers, waiters>>,
           NEW b \in Batches, Held(b), ~Held(b)', lost' = lost \cup {b},
           \A c \in Batches \ {b} : Held(c) => Held(c)'
    PROVE  Handover
  <1>1. IsDropped(b)
    BY HeldSomewhere DEF IsDropped
  <1>2. \A c \in Batches \ {b} : Stays(c)
    BY HeldSomewhere DEF NoneAppears, Stays
  <1> QED
    BY <1>1, <1>2 DEF Handover

(* The same for queues of messages as RestStays and AppendOccurs.          *)
LEMMA RestStaysIn ==
    ASSUME NEW S, NEW q \in Seq(S), q # <<>>, NEW c, OccursIn(q, c),
           c # Head(q).batch
    PROVE  OccursIn(Tail(q), c)
  <1>1. PICK i \in DOMAIN q : q[i].batch = c
    BY DEF OccursIn
  <1>2. /\ Head(q) = q[1] /\ DOMAIN q = 1..Len(q) /\ Len(q) \in Nat
        /\ DOMAIN Tail(q) = 1..(Len(q) - 1)
        /\ \A j \in 1..(Len(q) - 1) : Tail(q)[j] = q[j + 1]
    BY HeadTailProperties, LenProperties, EmptySeq
  <1>3. i - 1 \in DOMAIN Tail(q) /\ Tail(q)[i - 1].batch = c
    BY <1>1, <1>2
  <1> QED
    BY <1>3 DEF OccursIn

LEMMA AppendOccursIn ==
    ASSUME NEW S, NEW q \in Seq(S), NEW e \in S, NEW c
    PROVE  OccursIn(Append(q, e), c) <=> c = e.batch \/ OccursIn(q, c)
  <1>1. /\ DOMAIN q = 1..Len(q) /\ Len(q) \in Nat
        /\ DOMAIN Append(q, e) = 1..(Len(q) + 1)
        /\ \A i \in DOMAIN q : Append(q, e)[i] = q[i]
        /\ Append(q, e)[Len(q) + 1] = e
    BY AppendProperties, LenProperties
  <1>2. \A i \in DOMAIN Append(q, e) : i \in DOMAIN q \/ i = Len(q) + 1
    BY <1>1
  <1>3. DOMAIN q \subseteq DOMAIN Append(q, e)
        /\ Len(q) + 1 \in DOMAIN Append(q, e)
    BY <1>1
  <1> QED
    BY <1>1, <1>2, <1>3 DEF OccursIn

-----------------------------------------------------------------------------
(* Steps that take no batch from its place.                                *)
LEMMA StillHandover ==
    ASSUME PlacesInv,
           UNCHANGED <<status, result, servers, waiters, lost>>,
           UNCHANGED <<headq, outq, dq, net, inq, deser, lockq>>
    PROVE  Handover
  <1>1. NoneAppears
    BY StillPlaces
  <1>2. \A b : Held(b) => Held(b)'
    BY DEF Held
  <1> QED
    BY <1>1, <1>2, NoneDropped

(* What Deliver does: the batch enters the queue, or it is lost.           *)
LEMMA DeliverHeld ==
    ASSUME TypeInv, NEW n \in Nodes, NEW item \in Push, Deliver(n, item)
    PROVE  /\ \A k \in Nodes : \A c : OccursIn(dq[k], c) => OccursIn(dq'[k], c)
           /\ \/ OccursIn(dq'[n], item.batch) /\ UNCHANGED lost
              \/ UNCHANGED dq /\ lost' = lost \cup {item.batch}
  <1>1. dq \in [Nodes -> Seq(Push)] /\ dq[n] \in Seq(Push)
    BY DEF TypeInv, TypeOK, NetworkTypeOK
  <1>2. CASE dq' = [dq EXCEPT ![n] = Append(@, item)] /\ UNCHANGED lost
    <2>1. \A c : OccursIn(Append(dq[n], item), c)
                   <=> c = item.batch \/ OccursIn(dq[n], c)
      BY <1>1, AppendOccursIn
    <2> QED
      BY <1>1, <1>2, <2>1
  <1>3. CASE lost' = lost \cup {item.batch} /\ UNCHANGED dq
    BY <1>3
  <1> QED
    BY <1>2, <1>3 DEF Deliver

LEMMA HeadDeliverHandover ==
    ASSUME TypeInv, PlacesInv, HeadDeliver
    PROVE  Handover
  <1> DEFINE item == ToNext(Head(headq), servers[Head(headq)][2])
  <1>1. /\ headq # <<>> /\ headq' = Tail(headq) /\ headq \in Seq(Batches)
        /\ UNCHANGED <<status, result, servers, waiters, outq, net, inq, deser,
                       lockq>>
        /\ Deliver(HeadNode, item) /\ Len(servers[Head(headq)]) > 1
    BY DEF HeadDeliver, ReleaseHeadLock, TypeInv, LockHeld, TypeOK, HeadTypeOK,
           service_vars
  <1>2. PICK b \in Batches : b = Head(headq)
    BY <1>1, HeadTask
  <1>3. item \in Push /\ item.batch = b
    <2>1. servers[b] \in Seq(Nodes) /\ 2 \in DOMAIN servers[b]
      BY <1>1, <1>2, LenProperties DEF TypeInv, TypeOK, HeadTypeOK
    <2> QED
      BY <1>2, <2>1 DEF ToNext, Push
  <1> HIDE DEF item
  <1>4. /\ \A k \in Nodes : \A c : OccursIn(dq[k], c) => OccursIn(dq'[k], c)
        /\ \/ OccursIn(dq'[HeadNode], b) /\ UNCHANGED lost
           \/ UNCHANGED dq /\ lost' = lost \cup {b}
    BY <1>1, <1>3, NodesAssumption, DeliverHeld
  <1>5. \A c \in Batches \ {b} : Held(c) => Held(c)'
    <2>1. \A c : Occurs(headq, c) /\ c # b => Occurs(headq', c)
      BY <1>1, <1>2, RestStays
    <2> QED
      BY <1>1, <1>4, <2>1 DEF Held
  <1>6. NoneAppears
    BY HeadDeliverPlaces
  <1>7. CASE OccursIn(dq'[HeadNode], b) /\ UNCHANGED lost
    <2>1. Held(b)'
      BY <1>7, NodesAssumption DEF Held
    <2> QED
      BY <1>1, <1>5, <1>6, <1>7, <2>1, NoneDropped
  <1>8. CASE UNCHANGED dq /\ lost' = lost \cup {b}
    <2>1. Held(b) /\ ~Held(b)'
      BY <1>1, <1>2, <1>8, HeadTask, HeldSomewhere DEF Held
    <2> QED
      BY <1>1, <1>5, <1>6, <1>8, <2>1, OneDropped
  <1> QED
    BY <1>4, <1>7, <1>8

LEMMA HeadOutputsNoneHandover ==
    ASSUME TypeInv, PlacesInv, HeadOutputsNone \/ HeadAlone
    PROVE  Handover
  <1>1. /\ headq # <<>> /\ headq' = Tail(headq) /\ headq \in Seq(Batches)
        /\ outq \in Seq(Result)
        /\ UNCHANGED <<status, result, servers, waiters, net, inq, deser, lockq>>
        /\ UNCHANGED dq
    BY DEF HeadOutputsNone, HeadAlone, ReleaseHeadLock, TypeInv, LockHeld,
           TypeOK, HeadTypeOK, service_vars, Drop
  <1>2. PICK b \in Batches : b = Head(headq)
    BY <1>1, HeadTask
  <1>3. NoneAppears
    BY HeadOutputsNonePlaces, HeadAlonePlaces
  <1>4. \A c : Occurs(headq, c) /\ c # b => Occurs(headq', c)
    BY <1>1, <1>2, RestStays
  <1>5. ASSUME NEW r \in Result, r.batch = b, outq' = Append(outq, r),
               UNCHANGED lost
        PROVE  Handover
    <2>1. \A c : OccursIn(outq', c) <=> c = b \/ OccursIn(outq, c)
      BY <1>1, <1>5, AppendOccursIn
    <2>2. \A c \in Batches : Held(c) => Held(c)'
      BY <1>1, <1>4, <2>1 DEF Held
    <2> QED
      BY <1>1, <1>3, <1>5, <2>2, NoneDropped
  <1>6. ASSUME UNCHANGED outq, lost' = lost \cup {b}
        PROVE  Handover
    <2>1. Held(b) /\ ~Held(b)'
      BY <1>1, <1>2, <1>6, HeadTask, HeldSomewhere DEF Held
    <2>2. \A c \in Batches \ {b} : Held(c) => Held(c)'
      BY <1>1, <1>4, <1>6 DEF Held
    <2> QED
      BY <1>1, <1>3, <1>6, <2>1, <2>2, OneDropped
  <1>7. \/ outq' = Append(outq, [batch |-> b, out |-> "none"]) /\ UNCHANGED lost
        \/ outq' = Append(outq, [batch |-> b, out |-> "json"]) /\ UNCHANGED lost
        \/ UNCHANGED outq /\ lost' = lost \cup {b}
    BY <1>2 DEF HeadOutputsNone, HeadAlone, Drop
  <1>8. /\ [batch |-> b, out |-> "none"] \in Result
        /\ [batch |-> b, out |-> "json"] \in Result
    BY DEF Result
  <1> QED
    BY <1>5, <1>6, <1>7, <1>8

LEMMA HeadFailsHandover ==
    ASSUME TypeInv, PlacesInv, HeadFails
    PROVE  Handover
  <1>1. /\ headq # <<>> /\ headq' = Tail(headq) /\ headq \in Seq(Batches)
        /\ UNCHANGED <<status, result, servers, waiters, outq, net, inq, deser,
                       lockq, dq>>
        /\ lost' = lost \cup {Head(headq)}
    BY DEF HeadFails, Drop, TypeInv, TypeOK, HeadTypeOK, service_vars
  <1>2. PICK b \in Batches : b = Head(headq)
    BY <1>1, HeadTask
  <1>3. Held(b) /\ ~Held(b)'
    BY <1>1, <1>2, HeadTask, HeldSomewhere DEF Held
  <1>4. \A c \in Batches \ {b} : Held(c) => Held(c)'
    <2>1. \A c : Occurs(headq, c) /\ c # b => Occurs(headq', c)
      BY <1>1, <1>2, RestStays
    <2> QED
      BY <1>1, <2>1 DEF Held
  <1> QED
    BY <1>1, <1>2, <1>3, <1>4, HeadFailsPlaces, OneDropped

LEMMA ConsumerTakeHandover ==
    ASSUME TypeInv, PlacesInv, NEW n \in Nodes, ConsumerTake(n)
    PROVE  Handover
  <1>1. /\ dq[n] # <<>> /\ dq' = [dq EXCEPT ![n] = Tail(@)]
        /\ net' = net \cup {Head(dq[n])}
        /\ UNCHANGED <<status, result, servers, waiters, lost, headq, outq, inq,
                       deser, lockq>>
        /\ dq \in [Nodes -> Seq(Push)] /\ dq[n] \in Seq(Push)
    BY DEF ConsumerTake, head_vars, service_vars, aux_vars, TypeInv, TypeOK,
           NetworkTypeOK
  <1>2. \A c : OccursIn(dq[n], c) /\ c # Head(dq[n]).batch
                  => OccursIn(Tail(dq[n]), c)
    BY <1>1, RestStaysIn
  <1>3. \A c \in Batches : Held(c) => Held(c)'
    <2> SUFFICES ASSUME NEW c \in Batches, NEW k \in Nodes, OccursIn(dq[k], c)
                 PROVE  OccursIn(dq'[k], c) \/ \E m \in net' : m.batch = c
      BY <1>1 DEF Held
    <2> QED
      BY <1>1, <1>2
  <1> QED
    BY <1>1, <1>3, ConsumerTakePlaces, NoneDropped

LEMMA PushIntermediateTensorsHandover ==
    ASSUME TypeInv, PlacesInv, NEW m \in net, PushIntermediateTensors(m)
    PROVE  Handover
  <1>1. /\ net' = net \ {m} /\ inq' = [inq EXCEPT ![m.to] = Append(@, m.batch)]
        /\ UNCHANGED <<status, result, servers, waiters, lost, headq, outq, dq,
                       deser, lockq>>
        /\ inq \in [Nodes -> Seq(Batches)] /\ m \in Push
    BY DEF PushIntermediateTensors, head_vars, aux_vars, TypeInv, TypeOK,
           NetworkTypeOK, ServiceTypeOK
  <1>2. m.to \in Nodes /\ m.batch \in Batches
    BY <1>1 DEF Push
  <1>3. \A c : Occurs(Append(inq[m.to], m.batch), c)
                  <=> c = m.batch \/ Occurs(inq[m.to], c)
    BY <1>1, <1>2, AppendOccurs
  <1>4. \A c \in Batches : Held(c) => Held(c)'
    <2>1. inq'[m.to] = Append(inq[m.to], m.batch)
          /\ \A k \in Nodes \ {m.to} : inq'[k] = inq[k]
      BY <1>1, <1>2
    <2> QED
      BY <1>1, <1>2, <1>3, <2>1 DEF Held
  <1> QED
    BY <1>1, <1>4, PushIntermediateTensorsPlaces, NoneDropped

LEMMA PushSamplerOutputHandover ==
    ASSUME TypeInv, PlacesInv, NEW m \in net, PushSamplerOutput(m)
    PROVE  Handover
  <1> DEFINE r == [batch |-> m.batch, out |-> m.out]
  <1>1. /\ net' = net \ {m} /\ outq' = Append(outq, r)
        /\ UNCHANGED <<status, result, servers, waiters, lost, headq, dq, inq,
                       deser, lockq>>
        /\ outq \in Seq(Result) /\ m \in Push
    BY DEF PushSamplerOutput, service_vars, aux_vars, TypeInv, TypeOK,
           NetworkTypeOK, HeadTypeOK
  <1>2. r \in Result /\ r.batch = m.batch
    BY <1>1 DEF Push, Result
  <1> HIDE DEF r
  <1>3. \A c : OccursIn(outq', c) <=> c = m.batch \/ OccursIn(outq, c)
    BY <1>1, <1>2, AppendOccursIn
  <1>4. \A c \in Batches : Held(c) => Held(c)'
    BY <1>1, <1>3 DEF Held
  <1> QED
    BY <1>1, <1>4, PushSamplerOutputPlaces, NoneDropped

LEMMA LosePushHandover ==
    ASSUME TypeInv, PlacesInv, NEW m \in net, LosePush(m)
    PROVE  Handover
  <1>1. /\ net' = net \ {m} /\ lost' = lost \cup {m.batch}
        /\ UNCHANGED <<status, result, servers, waiters, headq, outq, dq, inq,
                       deser, lockq>>
    BY DEF LosePush, Drop, head_vars, service_vars
  <1>2. m.batch \in Batches
    BY DEF TypeInv, TypeOK, NetworkTypeOK, Push
  <1> PICK b \in Batches : b = m.batch
    BY <1>2
  <1>3. Held(b) /\ ~Held(b)'
    <2>1. At("net", HeadNode, b) /\ "net" \in Places
      BY DEF At, Places
    <2>2. /\ ~Occurs(headq, b) /\ ~OccursIn(outq, b)
          /\ \A k \in Nodes : /\ ~OccursIn(dq[k], b) /\ ~Occurs(inq[k], b)
                              /\ b \notin deser[k] /\ ~Occurs(lockq[k], b)
      BY <2>1, NowhereElse, NodesAssumption
    <2>3. \A p \in net' : p.batch # b
      BY <1>1 DEF PlacesInv, NoRepeat, NoRepeatNet
    <2> QED
      BY <1>1, <2>2, <2>3 DEF Held
  <1>4. \A c \in Batches \ {b} : Held(c) => Held(c)'
    BY <1>1 DEF Held
  <1> QED
    BY <1>1, <1>3, <1>4, LosePushPlaces, OneDropped

LEMMA DeserializeFailsHandover ==
    ASSUME TypeInv, PlacesInv, NEW n \in Nodes, NEW b \in Batches,
           DeserializeFails(n, b)
    PROVE  Handover
  <1>1. /\ b \in deser[n] /\ deser' = [deser EXCEPT ![n] = @ \ {b}]
        /\ lost' = lost \cup {b}
        /\ UNCHANGED <<status, result, servers, waiters, headq, outq, dq, net,
                       inq, lockq>>
        /\ deser \in [Nodes -> SUBSET Batches]
    BY DEF DeserializeFails, Drop, head_vars, TypeInv, TypeOK, ServiceTypeOK
  <1>2. \A k \in Nodes : deser'[k] = IF k = n THEN deser[n] \ {b} ELSE deser[k]
    BY <1>1
  <1>3. Held(b) /\ ~Held(b)'
    <2>1. At("deser", n, b) /\ "deser" \in Places
      BY <1>1 DEF At, Places
    <2>2. /\ ~Occurs(headq, b) /\ ~OccursIn(outq, b)
          /\ \A m \in net : m.batch # b
          /\ \A k \in Nodes : /\ k # n => b \notin deser[k]
                              /\ ~OccursIn(dq[k], b) /\ ~Occurs(inq[k], b)
                              /\ ~Occurs(lockq[k], b)
      BY <2>1, NowhereElse
    <2> QED
      BY <1>1, <1>2, <2>2 DEF Held
  <1>4. \A c \in Batches \ {b} : Held(c) => Held(c)'
    BY <1>1, <1>2 DEF Held
  <1> QED
    BY <1>1, <1>3, <1>4, DeserializeFailsPlaces, OneDropped

LEMMA GetInputHandover ==
    ASSUME TypeInv, PlacesInv, NEW n \in Nodes, GetInput(n)
    PROVE  Handover
  <1> DEFINE b == Head(inq[n])
  <1>1. /\ inq[n] # <<>> /\ inq' = [inq EXCEPT ![n] = Tail(@)]
        /\ deser' = [deser EXCEPT ![n] = @ \cup {b}]
        /\ UNCHANGED <<status, result, servers, waiters, lost, headq, outq, dq,
                       net, lockq>>
        /\ inq \in [Nodes -> Seq(Batches)] /\ inq[n] \in Seq(Batches)
        /\ deser \in [Nodes -> SUBSET Batches]
    BY DEF GetInput, head_vars, network_vars, aux_vars, TypeInv, TypeOK,
           ServiceTypeOK
  <1>2. \A c : Occurs(inq[n], c) /\ c # b => Occurs(Tail(inq[n]), c)
    BY <1>1, RestStays
  <1> HIDE DEF b
  <1>3. \A c \in Batches : Held(c) => Held(c)'
    <2>1. \A k \in Nodes : deser[k] \subseteq deser'[k]
      BY <1>1
    <2> SUFFICES ASSUME NEW c \in Batches, NEW k \in Nodes, Occurs(inq[k], c)
                 PROVE  Occurs(inq'[k], c) \/ c \in deser'[k]
      BY <1>1, <2>1 DEF Held
    <2> QED
      BY <1>1, <1>2
  <1> QED
    BY <1>1, <1>3, GetInputPlaces, NoneDropped

LEMMA DeserializedHandover ==
    ASSUME TypeInv, PlacesInv, NEW n \in Nodes, NEW b \in Batches,
           Deserialized(n, b)
    PROVE  Handover
  <1>1. /\ deser' = [deser EXCEPT ![n] = @ \ {b}]
        /\ lockq' = [lockq EXCEPT ![n] = Append(@, b)]
        /\ UNCHANGED <<status, result, servers, waiters, lost, headq, outq, dq,
                       net, inq>>
        /\ lockq \in [Nodes -> Seq(Batches)] /\ lockq[n] \in Seq(Batches)
        /\ deser \in [Nodes -> SUBSET Batches]
    BY DEF Deserialized, head_vars, network_vars, aux_vars, TypeInv, TypeOK,
           ServiceTypeOK
  <1>2. \A c : Occurs(Append(lockq[n], b), c) <=> c = b \/ Occurs(lockq[n], c)
    BY <1>1, AppendOccurs
  <1>3. \A c \in Batches : Held(c) => Held(c)'
    <2>1. \A k \in Nodes : \A c : Occurs(lockq[k], c) => Occurs(lockq'[k], c)
      BY <1>1, <1>2
    <2> SUFFICES ASSUME NEW c \in Batches, NEW k \in Nodes, c \in deser[k]
                 PROVE  c \in deser'[k] \/ Occurs(lockq'[k], c)
      BY <1>1, <2>1 DEF Held
    <2> QED
      BY <1>1, <1>2
  <1> QED
    BY <1>1, <1>3, DeserializedPlaces, NoneDropped

(* The ways a worker's forward pass ends.                                  *)
LEMMA WorkerEndsHandover ==
    ASSUME TypeInv, PlacesInv, NoneAppears, NEW n \in Nodes, lockq[n] # <<>>,
           lockq' = [lockq EXCEPT ![n] = Tail(@)],
           UNCHANGED <<status, result, servers, waiters, headq, outq, net, inq,
                       deser>>,
           \A k \in Nodes : \A c : OccursIn(dq[k], c) => OccursIn(dq'[k], c),
           \/ OccursIn(dq'[n], Head(lockq[n])) /\ UNCHANGED lost
           \/ UNCHANGED dq /\ lost' = lost \cup {Head(lockq[n])}
    PROVE  Handover
  <1>1. lockq \in [Nodes -> Seq(Batches)] /\ lockq[n] \in Seq(Batches)
    BY DEF TypeInv, TypeOK, ServiceTypeOK
  <1>2. PICK b \in Batches : b = Head(lockq[n])
    BY WorkerTask
  <1>3. \A c \in Batches \ {b} : Held(c) => Held(c)'
    <2>1. \A c : Occurs(lockq[n], c) /\ c # b => Occurs(Tail(lockq[n]), c)
      BY <1>1, <1>2, RestStays
    <2>2. \A k \in Nodes : \A c : Occurs(lockq[k], c) /\ c # b
                                      => Occurs(lockq'[k], c)
      BY <1>1, <2>1
    <2> QED
      BY <2>2 DEF Held
  <1>4. CASE OccursIn(dq'[n], b) /\ UNCHANGED lost
    <2>1. Held(b)'
      BY <1>4 DEF Held
    <2> QED
      BY <1>3, <1>4, <2>1, NoneDropped
  <1>5. CASE UNCHANGED dq /\ lost' = lost \cup {b}
    <2>1. /\ ~Occurs(headq, b) /\ ~OccursIn(outq, b)
          /\ \A m \in net : m.batch # b
          /\ \A k \in Nodes : /\ ~OccursIn(dq[k], b) /\ ~Occurs(inq[k], b)
                              /\ b \notin deser[k]
                              /\ k # n => ~Occurs(lockq[k], b)
          /\ ~Occurs(Tail(lockq[n]), b) /\ Somewhere(b)
      BY <1>2, WorkerTask
    <2>2. \A k \in Nodes : ~Occurs(lockq'[k], b)
      BY <1>1, <2>1
    <2>3. Held(b) /\ ~Held(b)'
      BY <1>5, <2>1, <2>2, HeldSomewhere DEF Held
    <2> QED
      BY <1>3, <1>5, <2>3, OneDropped
  <1> QED
    BY <1>2, <1>4, <1>5

LEMMA WorkerFailsHandover ==
    ASSUME TypeInv, PlacesInv, NEW n \in Nodes, WorkerFails(n)
    PROVE  Handover
  <1>1. /\ lockq[n] # <<>> /\ lockq' = [lockq EXCEPT ![n] = Tail(@)]
        /\ UNCHANGED <<status, result, servers, waiters, headq, outq, net, inq,
                       deser, dq>>
        /\ lost' = lost \cup {Head(lockq[n])}
    BY DEF WorkerFails, Drop, TypeInv, LockHeld, head_vars
  <1> QED
    BY <1>1, WorkerFailsPlaces, WorkerEndsHandover

LEMMA WorkerDeliverHandover ==
    ASSUME TypeInv, PlacesInv, NEW n \in Nodes, WorkerDeliver(n)
    PROVE  Handover
  <1> DEFINE b == Head(lockq[n])
             k == MyIndex(b, n)
             toHead == [push |-> "head", to |-> HeadNode, batch |-> b,
                        out |-> WorkerOutput(n)]
             toNext == ToNext(b, Route(b)[k + 1])
  <1>1. /\ lockq[n] # <<>> /\ lockq' = [lockq EXCEPT ![n] = Tail(@)]
        /\ UNCHANGED <<status, result, servers, waiters, headq, outq, net, inq,
                       deser>>
    BY DEF WorkerDeliver, TypeInv, LockHeld, head_vars
  <1>2. b \in Batches
    BY <1>1, WorkerTask
  <1>3. k \in DOMAIN Route(b) /\ Route(b) \in Seq(Nodes)
    <2>1. 1 \in DOMAIN lockq[n] /\ b = lockq[n][1]
      BY <1>1, QueueGet DEF TypeInv, TypeOK, ServiceTypeOK
    <2>2. InList(b, n)
      BY <2>1 DEF TypeInv, Routed, RoutedLockq
    <2> QED
      BY <1>2, <2>2
         DEF TypeInv, TypeOK, HeadTypeOK, InList, MyIndex, Route
  <1>4. toHead \in Push /\ toHead.batch = b
    BY <1>2, NodesAssumption DEF Push, WorkerOutput
  <1>5. k # Len(Route(b)) => toNext \in Push /\ toNext.batch = b
    BY <1>2, <1>3, LenProperties DEF ToNext, Push
  <1>6. \/ Deliver(n, toHead)
        \/ UNCHANGED dq /\ lost' = lost \cup {b}
        \/ k # Len(Route(b)) /\ Deliver(n, toNext)
    BY DEF WorkerDeliver, Drop
  <1> HIDE DEF toHead, toNext, k
  <1>7. /\ \A j \in Nodes : \A c : OccursIn(dq[j], c) => OccursIn(dq'[j], c)
        /\ \/ OccursIn(dq'[n], b) /\ UNCHANGED lost
           \/ UNCHANGED dq /\ lost' = lost \cup {b}
    <2>1. CASE UNCHANGED dq /\ lost' = lost \cup {b}
      BY <2>1
    <2>2. CASE Deliver(n, toHead)
      BY <1>4, <2>2, DeliverHeld
    <2>3. CASE k # Len(Route(b)) /\ Deliver(n, toNext)
      BY <1>5, <2>3, DeliverHeld
    <2> QED
      BY <1>6, <2>1, <2>2, <2>3
  <1> QED
    BY <1>1, <1>7, WorkerDeliverPlaces, WorkerEndsHandover

(* A restarting node drops exactly what it held.                           *)
LEMMA RestartHandover ==
    ASSUME TypeInv, PlacesInv, NEW n \in Nodes, Restart(n)
    PROVE  Handover
  <1>1. /\ lost' = lost \cup HeldBy(n)
        /\ inq' = [inq EXCEPT ![n] = <<>>] /\ deser' = [deser EXCEPT ![n] = {}]
        /\ lockq' = [lockq EXCEPT ![n] = <<>>] /\ dq' = [dq EXCEPT ![n] = <<>>]
        /\ UNCHANGED <<status, result, servers, waiters, headq, outq, net>>
    BY DEF Restart, head_vars
  <1>2. /\ inq \in [Nodes -> Seq(Batches)] /\ deser \in [Nodes -> SUBSET Batches]
        /\ lockq \in [Nodes -> Seq(Batches)] /\ dq \in [Nodes -> Seq(Push)]
    BY DEF TypeInv, TypeOK, NetworkTypeOK, ServiceTypeOK
  <1>3. \A k \in Nodes :
           IF k = n THEN /\ inq'[k] = <<>> /\ deser'[k] = {}
                         /\ lockq'[k] = <<>> /\ dq'[k] = <<>>
           ELSE /\ inq'[k] = inq[k] /\ deser'[k] = deser[k]
                /\ lockq'[k] = lockq[k] /\ dq'[k] = dq[k]
    BY <1>1, <1>2
  <1>4. NoneAppears
    BY RestartPlaces
  <1>5. \A c \in Batches :
           c \in HeldBy(n) <=> \/ OccursIn(dq[n], c) \/ Occurs(inq[n], c)
                              \/ c \in deser[n] \/ Occurs(lockq[n], c)
    BY DEF HeldBy, Occurs, OccursIn
  <1>6. ASSUME NEW c \in Batches, c \in HeldBy(n)
        PROVE  IsDropped(c)
    <2>1. \E p \in {"dq", "inq", "deser", "lockq"} : At(p, n, c)
      BY <1>5, <1>6 DEF At
    <2>2. /\ ~Occurs(headq, c) /\ ~OccursIn(outq, c)
          /\ \A m \in net : m.batch # c
          /\ \A k \in Nodes \ {n} : /\ ~OccursIn(dq[k], c) /\ ~Occurs(inq[k], c)
                                    /\ c \notin deser[k] /\ ~Occurs(lockq[k], c)
      BY <2>1, NowhereElse DEF Places
    <2>3. ~Held(c)'
      BY <1>1, <1>3, <2>2 DEF Held, Occurs, OccursIn
    <2>4. Held(c)
      BY <1>5, <1>6 DEF Held
    <2> QED
      BY <1>1, <1>6, <2>3, <2>4, HeldSomewhere DEF IsDropped
  <1>7. ASSUME NEW c \in Batches, c \notin HeldBy(n)
        PROVE  Stays(c)
    <2>1. Held(c) => Held(c)'
      BY <1>1, <1>3, <1>5, <1>7 DEF Held
    <2> QED
      BY <1>1, <1>4, <1>7, <2>1, HeldSomewhere DEF Stays, NoneAppears
  <1> QED
    BY <1>1, <1>6, <1>7 DEF Handover

-----------------------------------------------------------------------------
(* A call w that has no result yet returns r.                              *)
LEMMA AnswerReturns ==
    ASSUME TypeInv, AccountInv, NEW w \in Batches, result[w] = NoResult,
           NEW r \in Result, Answer(w, r), ~Returned(r.batch)
    PROVE  /\ ReturnedOnce'
           /\ \A b \in Batches : Returned(b)' <=> b = r.batch \/ Returned(b)
           /\ status'[w] \in {"done", "failed"} /\ result'[w] = r
           /\ \A c \in Batches \ {w} : /\ result'[c] = result[c]
                                      /\ status'[c] = status[c]
  <1>1. /\ result'[w] = r /\ status'[w] \in {"done", "failed"}
        /\ \A c \in Batches \ {w} : /\ result'[c] = result[c]
                                   /\ status'[c] = status[c]
    BY DEF Answer, TypeInv, TypeOK, HeadTypeOK
  <1>2. r.batch \in Batches /\ result[w].batch = NoBatch
    BY DEF Result, NoResult
  <1>3. \A b \in Batches : Returned(b)' <=> b = r.batch \/ Returned(b)
    <2> SUFFICES ASSUME NEW b \in Batches
                 PROVE  Returned(b)' <=> b = r.batch \/ Returned(b)
      OBVIOUS
    <2>1. result[w].batch # b
      BY <1>2, NoBatchAssumption
    <2> QED
      BY <1>1, <2>1 DEF Returned
  <1>4. ReturnedOnce'
    <2> SUFFICES ASSUME NEW c \in Batches, NEW d \in Batches,
                        result'[c].batch = result'[d].batch,
                        result'[c].batch # NoBatch
                 PROVE  c = d
      BY DEF ReturnedOnce
    <2>1. CASE c # w /\ d # w
      BY <1>1, <2>1 DEF AccountInv, ReturnedOnce
    <2>2. CASE c = w \/ d = w
      BY <1>1, <2>2 DEF Returned
    <2> QED
      BY <2>1, <2>2
  <1> QED
    BY <1>1, <1>3, <1>4

(* The oldest output: the only trace of its batch.                         *)
LEMMA OldestOutput ==
    ASSUME TypeInv, PlacesInv, AccountInv, outq # <<>>
    PROVE  LET r == Head(outq)
           IN  /\ r \in Result /\ r.batch \in Batches
               /\ Somewhere(r.batch) /\ status[r.batch] # "new"
               /\ ~Returned(r.batch) /\ r.batch \notin lost
               /\ ~OccursIn(Tail(outq), r.batch)
               /\ \A c : OccursIn(outq, c) /\ c # r.batch => OccursIn(Tail(outq), c)
               /\ ~Occurs(headq, r.batch) /\ \A m \in net : m.batch # r.batch
               /\ \A k \in Nodes : /\ ~OccursIn(dq[k], r.batch)
                                   /\ ~Occurs(inq[k], r.batch)
                                   /\ r.batch \notin deser[k]
                                   /\ ~Occurs(lockq[k], r.batch)
  <1> DEFINE r == Head(outq)
  <1>1. outq \in Seq(Result)
    BY DEF TypeInv, TypeOK, HeadTypeOK
  <1>2. r \in Result /\ OccursIn(outq, r.batch) /\ ~OccursIn(Tail(outq), r.batch)
    BY <1>1, QueueGet, GetMessage DEF PlacesInv, NoRepeat, NoRepeatHead
  <1>3. \A c : OccursIn(outq, c) /\ c # r.batch => OccursIn(Tail(outq), c)
    BY <1>1, RestStaysIn
  <1> HIDE DEF r
  <1> PICK b \in Batches : b = r.batch
    BY <1>2 DEF Result
  <1>4. At("outq", HeadNode, b) /\ "outq" \in Places /\ Somewhere(b)
    BY <1>2, NodesAssumption DEF Somewhere, At, Places
  <1>5. /\ status[b] # "new" /\ ~Occurs(headq, b) /\ \A m \in net : m.batch # b
        /\ \A k \in Nodes : /\ ~OccursIn(dq[k], b) /\ ~Occurs(inq[k], b)
                            /\ b \notin deser[k] /\ ~Occurs(lockq[k], b)
    BY <1>4, NowhereElse, NodesAssumption
  <1>6. ~Returned(b) /\ b \notin lost
    BY <1>4 DEF AccountInv, OneFate
  <1> QED
    BY <1>2, <1>3, <1>4, <1>5, <1>6 DEF r

(* Calls that wait have no result, and no call waits twice.                *)
LEMMA FrontWaiter ==
    ASSUME TypeInv, AccountInv, waiters # <<>>
    PROVE  LET w == Head(waiters)
           IN  /\ w \in Batches /\ status[w] = "pending" /\ result[w] = NoResult
               /\ Distinct(Tail(waiters)) /\ ~Occurs(Tail(waiters), w)
               /\ \A i \in DOMAIN Tail(waiters) :
                     /\ Tail(waiters)[i] \in Batches
                     /\ status[Tail(waiters)[i]] = "pending"
  <1> DEFINE w == Head(waiters)
  <1>1. waiters \in Seq(Batches)
    BY DEF TypeInv, TypeOK, HeadTypeOK
  <1>2. /\ w = waiters[1] /\ 1 \in DOMAIN waiters /\ w \in Batches
        /\ Tail(waiters) \in Seq(Batches)
        /\ \A i \in DOMAIN Tail(waiters) :
              i + 1 \in DOMAIN waiters /\ Tail(waiters)[i] = waiters[i + 1]
    BY <1>1, QueueGet
  <1>3. Distinct(Tail(waiters)) /\ ~Occurs(Tail(waiters), w)
    BY <1>1, GetBatch DEF AccountInv, WaitersPending
  <1>4. status[w] = "pending" /\ result[w] = NoResult
    BY <1>2 DEF AccountInv, WaitersPending, Unanswered
  <1>5. \A i \in DOMAIN Tail(waiters) : /\ Tail(waiters)[i] \in Batches
                                       /\ status[Tail(waiters)[i]] = "pending"
    BY <1>2, ElementOfSeq, LenProperties DEF AccountInv, WaitersPending
  <1> QED
    BY <1>2, <1>3, <1>4, <1>5

LEMMA CollectAccounts ==
    ASSUME TypeInv, PlacesInv, AccountInv, Collect
    PROVE  AccountInv'
  <1>1. /\ outq # <<>> /\ waiters # <<>>
        /\ Answer(Head(waiters), Head(outq))
        /\ outq' = Tail(outq) /\ waiters' = Tail(waiters)
        /\ UNCHANGED <<servers, lost, headq, net, dq, inq, deser, lockq>>
    BY DEF Collect, network_vars, service_vars, aux_vars
  <1>2. PICK w \in Batches : w = Head(waiters)
    BY <1>1, FrontWaiter
  <1>3. PICK r \in Result : r = Head(outq)
    BY <1>1, OldestOutput
  <1>4. /\ status[w] = "pending" /\ result[w] = NoResult
        /\ ~Returned(r.batch) /\ r.batch \in Batches
    BY <1>1, <1>2, <1>3, FrontWaiter, OldestOutput
  <1>5. /\ ReturnedOnce'
        /\ \A b \in Batches : Returned(b)' <=> b = r.batch \/ Returned(b)
        /\ status'[w] \in {"done", "failed"} /\ result'[w] = r
        /\ \A c \in Batches \ {w} : /\ result'[c] = result[c]
                                   /\ status'[c] = status[c]
    BY <1>1, <1>2, <1>3, <1>4, AnswerReturns
  <1>6. \A b \in Batches : Somewhere(b)' <=> Somewhere(b) /\ b # r.batch
    <2>1. ~Held(r.batch)'
      BY <1>1, <1>3, OldestOutput DEF Held
    <2>2. \A c : Held(c) /\ c # r.batch => Held(c)'
      BY <1>1, <1>3, OldestOutput DEF Held
    <2> QED
      BY <2>1, <2>2, HeldSomewhere, CollectPlaces DEF NoneAppears
  <1>7. Unanswered'
    BY <1>5 DEF AccountInv, Unanswered
  <1>8. WaitersPending'
    <2>1. /\ Distinct(Tail(waiters))
          /\ \A i \in DOMAIN Tail(waiters) :
                /\ Tail(waiters)[i] \in Batches \ {w}
                /\ status[Tail(waiters)[i]] = "pending"
      BY <1>1, <1>2, FrontWaiter DEF Occurs
    <2> QED
      BY <1>1, <1>5, <2>1 DEF WaitersPending
  <1>9. OneFate'
    BY <1>1, <1>3, <1>5, <1>6, OldestOutput DEF AccountInv, OneFate
  <1>10. SomeFate'
    BY <1>1, <1>5, <1>6 DEF AccountInv, SomeFate, Submitted
  <1>11. NoFate'
    BY <1>1, <1>3, <1>5, OldestOutput DEF AccountInv, NoFate
  <1> QED
    BY <1>5, <1>7, <1>8, <1>9, <1>10, <1>11 DEF AccountInv

(* A call without tokens is its own answer; such a batch has no list.      *)
LEMMA SubmitEmptyAccounts ==
    ASSUME TypeInv, PlacesInv, AccountInv, NEW b \in Batches, SubmitEmpty(b)
    PROVE  AccountInv'
  <1> DEFINE r == [batch |-> b, out |-> "empty"]
  <1>1. /\ status[b] = "new" /\ Answer(b, r) /\ r \in Result /\ r.batch = b
        /\ UNCHANGED <<servers, lost, waiters, headq, outq, net, dq, inq, deser,
                       lockq>>
    BY DEF SubmitEmpty, network_vars, service_vars, aux_vars, Result
  <1> HIDE DEF r
  <1>2. /\ result[b] = NoResult /\ ~Returned(b) /\ b \notin lost
        /\ ~Somewhere(b)
    BY <1>1 DEF AccountInv, Unanswered, NoFate, PlacesInv, Unborn, Somewhere
  <1>3. /\ ReturnedOnce'
        /\ \A c \in Batches : Returned(c)' <=> c = b \/ Returned(c)
        /\ status'[b] \in {"done", "failed"} /\ result'[b] = r
        /\ \A c \in Batches \ {b} : /\ result'[c] = result[c]
                                   /\ status'[c] = status[c]
    BY <1>1, <1>2, AnswerReturns
  <1>4. \A c \in Batches : Somewhere(c)' <=> Somewhere(c)
    <2>1. \A c : Held(c)' <=> Held(c)
      BY <1>1 DEF Held
    <2> QED
      BY <2>1, HeldSomewhere
  <1>5. Unanswered'
    BY <1>3 DEF AccountInv, Unanswered
  <1>6. WaitersPending'
    <2>1. \A i \in DOMAIN waiters : waiters[i] \in Batches
      BY ElementOfSeq, LenProperties DEF TypeInv, TypeOK, HeadTypeOK
    <2> QED
      BY <1>1, <1>3, <2>1 DEF AccountInv, WaitersPending
  <1>7. OneFate' /\ SomeFate' /\ NoFate'
    BY <1>1, <1>2, <1>3, <1>4
       DEF AccountInv, OneFate, SomeFate, NoFate, Submitted
  <1> QED
    BY <1>3, <1>5, <1>6, <1>7 DEF AccountInv

(* A new call either waits or takes the output of an earlier batch.        *)
LEMMA SubmitAccounts ==
    ASSUME TypeInv, PlacesInv, AccountInv, NEW b \in Batches, Submit(b)
    PROVE  AccountInv'
  <1>1. /\ status[b] = "new" /\ headq' = Append(headq, b)
        /\ servers' = [servers EXCEPT ![b] = ServerList(node_info)]
        /\ UNCHANGED <<lost, net, dq, inq, deser, lockq>>
    BY DEF Submit, service_vars, aux_vars
  <1>2. /\ headq \in Seq(Batches) /\ waiters \in Seq(Batches)
        /\ servers \in [Batches -> Seq(Nodes)]
        /\ status \in [Batches -> {"new", "pending", "done", "failed"}]
        /\ result \in [Batches -> Result \cup {NoResult}]
    BY DEF TypeInv, TypeOK, HeadTypeOK
  <1>3. /\ result[b] = NoResult /\ ~Returned(b) /\ b \notin lost
        /\ ~Somewhere(b)
    BY <1>1 DEF AccountInv, Unanswered, NoFate, PlacesInv, Unborn, Somewhere
  <1>4. \A c : Occurs(headq', c) <=> c = b \/ Occurs(headq, c)
    BY <1>1, <1>2, AppendOccurs
  <1>5. Somewhere(b)'
    BY <1>4, HeldSomewhere DEF Held
  <1>6. Submitted' \subseteq Submitted \cup {b}
    BY <1>1, <1>2 DEF Submitted
  <1>7. \A i \in DOMAIN waiters : waiters[i] \in Batches \ {b}
    <2>1. \A i \in DOMAIN waiters : waiters[i] \in Batches
      BY <1>2, ElementOfSeq, LenProperties
    <2> QED
      BY <1>1, <2>1 DEF AccountInv, WaitersPending
  <1>8. CASE outq = <<>>
    <2>1. /\ waiters' = Append(waiters, b)
          /\ status' = [status EXCEPT ![b] = "pending"]
          /\ UNCHANGED <<outq, result>>
      BY <1>8 DEF Submit
    <2>2. /\ status'[b] = "pending"
          /\ \A c \in Batches \ {b} : status'[c] = status[c]
      BY <1>2, <2>1
    <2>3. \A c : Returned(c)' <=> Returned(c)
      BY <2>1 DEF Returned
    <2>4. \A c \in Batches : Somewhere(c)' <=> c = b \/ Somewhere(c)
      <3>1. \A c : Held(c)' <=> c = b \/ Held(c)
        BY <1>1, <1>4, <2>1 DEF Held
      <3> QED
        BY <3>1, HeldSomewhere
    <2>5. ReturnedOnce' /\ Unanswered'
      BY <1>3, <2>1, <2>2 DEF AccountInv, ReturnedOnce, Unanswered
    <2>6. WaitersPending'
      <3>1. ~Occurs(waiters, b) /\ Distinct(waiters)
        BY <1>7 DEF Occurs, AccountInv, WaitersPending
      <3>2. Distinct(waiters')
        BY <1>2, <2>1, <3>1, PutBatch
      <3>3. \A i \in DOMAIN waiters' : status'[waiters'[i]] = "pending"
        BY <1>2, <1>7, <2>1, <2>2, QueuePut DEF AccountInv, WaitersPending
      <3> QED
        BY <3>2, <3>3 DEF WaitersPending
    <2>7. OneFate'
      BY <1>1, <1>3, <2>3, <2>4 DEF AccountInv, OneFate
    <2>8. SomeFate'
      <3> SUFFICES ASSUME NEW c \in Submitted'
                   PROVE  Somewhere(c)' \/ c \in lost' \/ Returned(c)'
        BY DEF SomeFate
      <3>1. c \in Batches /\ (c = b \/ c \in Submitted)
        BY <1>6 DEF Submitted
      <3> QED
        BY <1>1, <2>3, <2>4, <3>1 DEF AccountInv, SomeFate
    <2>9. NoFate'
      <3> SUFFICES ASSUME NEW c \in Batches, status'[c] = "new"
                   PROVE  c \notin lost' /\ ~Returned(c)'
        BY DEF NoFate
      <3>1. status[c] = "new"
        BY <2>2
      <3> QED
        BY <1>1, <2>3, <3>1 DEF AccountInv, NoFate
    <2> QED
      BY <2>5, <2>6, <2>7, <2>8, <2>9 DEF AccountInv
  <1>9. CASE outq # <<>>
    <2>1. Answer(b, Head(outq)) /\ outq' = Tail(outq)
      BY <1>9 DEF Submit
    <2>2. PICK r \in Result : r = Head(outq)
      BY <1>9, OldestOutput
    <2>3. /\ ~Returned(r.batch) /\ r.batch \in Batches /\ r.batch # b
          /\ status[r.batch] # "new" /\ r.batch \notin lost
      BY <1>1, <1>9, <2>2, OldestOutput
    <2>4. /\ ReturnedOnce'
          /\ \A c \in Batches : Returned(c)' <=> c = r.batch \/ Returned(c)
          /\ status'[b] \in {"done", "failed"} /\ result'[b] = r
          /\ \A c \in Batches \ {b} : /\ result'[c] = result[c]
                                     /\ status'[c] = status[c]
      BY <1>3, <2>1, <2>2, <2>3, AnswerReturns
    <2>5. \A c \in Batches :
             Somewhere(c)' <=> c = b \/ (Somewhere(c) /\ c # r.batch)
      <3>1. ~Held(r.batch)'
        BY <1>1, <1>4, <1>9, <2>1, <2>2, <2>3, OldestOutput DEF Held
      <3>2. \A c : Held(c) /\ c # r.batch => Held(c)'
        BY <1>1, <1>4, <1>9, <2>1, <2>2, OldestOutput DEF Held
      <3>3. \A c \in Batches \ {b} : Somewhere(c)' => Somewhere(c)
        BY SubmitPlaces
      <3> QED
        BY <1>5, <2>3, <3>1, <3>2, <3>3, HeldSomewhere
    <2>6. Unanswered'
      BY <2>4 DEF AccountInv, Unanswered
    <2>7. WaitersPending'
      <3>1. /\ DOMAIN waiters' = DOMAIN waiters
            /\ \A i \in DOMAIN waiters : \E j \in DOMAIN waiters :
                  waiters'[i] = waiters[j]
            /\ Distinct(waiters) => Distinct(waiters')
        BY <1>9, StolenFrom DEF Rearranges, Distinct
      <3>2. \A j \in DOMAIN waiters : status'[waiters[j]] = "pending"
        BY <1>7, <2>4 DEF AccountInv, WaitersPending
      <3> QED
        BY <3>1, <3>2 DEF AccountInv, WaitersPending
    <2>8. OneFate'
      BY <1>1, <1>3, <2>3, <2>4, <2>5 DEF AccountInv, OneFate
    <2>9. SomeFate'
      BY <1>1, <1>6, <2>4, <2>5 DEF AccountInv, SomeFate, Submitted
    <2>10. NoFate'
      BY <1>1, <2>3, <2>4 DEF AccountInv, NoFate
    <2> QED
      BY <2>4, <2>6, <2>7, <2>8, <2>9, <2>10 DEF AccountInv
  <1> QED
    BY <1>8, <1>9

-----------------------------------------------------------------------------
LEMMA NextAccounts ==
    ASSUME TypeInv, PlacesInv, AccountInv, [Next]_vars
    PROVE  AccountInv'
  <1>1. ASSUME NEW b \in Batches, Submit(b) \/ SubmitEmpty(b)
        PROVE  AccountInv'
    BY <1>1, SubmitAccounts, SubmitEmptyAccounts
  <1>2. CASE Collect
    BY <1>2, CollectAccounts
  <1>3. ASSUME UNCHANGED <<status, result, servers, waiters, lost>>,
               UNCHANGED <<headq, outq, dq, net, inq, deser, lockq>>
        PROVE  AccountInv'
    BY <1>3, StillHandover, HandoverAccounts
  <1>4. CASE HeadStep /\ ~Collect
    <2>1. CASE HeadExecute
      BY <1>3, <2>1 DEF HeadExecute, network_vars
    <2>2. CASE ~HeadExecute
      BY <1>4, <2>2, HeadDeliverHandover, HeadOutputsNoneHandover,
         HandoverAccounts DEF HeadStep
    <2> QED
      BY <2>1, <2>2
  <1>5. CASE MessageStep
    BY <1>5, PushIntermediateTensorsHandover, PushSamplerOutputHandover,
       HandoverAccounts DEF MessageStep
  <1>6. ASSUME NEW n \in Nodes,
               TriggerArrives(n) \/ SetTensors(n) \/ WorkerExecute(n) \/ Join(n)
        PROVE  AccountInv'
    BY <1>3, <1>6 DEF TriggerArrives, SetTensors, WorkerExecute, Join, head_vars,
                      network_vars, service_vars, aux_vars
  <1>7. ASSUME NEW n \in Nodes, NodeStep(n)
        PROVE  AccountInv'
    BY <1>6, <1>7, ConsumerTakeHandover, GetInputHandover, DeserializedHandover,
       WorkerDeliverHandover, HandoverAccounts DEF NodeStep
  <1>8. ASSUME NEW n \in Nodes, LoseTrigger(n) \/ InputTimeout(n)
        PROVE  AccountInv'
    BY <1>3, <1>8 DEF LoseTrigger, InputTimeout, head_vars, network_vars,
                      service_vars
  <1>9. CASE FaultStep
    BY <1>8, <1>9, HeadFailsHandover, LosePushHandover,
       DeserializeFailsHandover, WorkerFailsHandover, RestartHandover,
       HandoverAccounts DEF FaultStep
  <1>10. CASE UNCHANGED vars
    BY <1>3, <1>10 DEF vars, head_vars, network_vars, service_vars, aux_vars
  <1> QED
    BY <1>1, <1>2, <1>4, <1>5, <1>6, <1>7, <1>9, <1>10 DEF Next

-----------------------------------------------------------------------------
(* The set Copies(b) of the model in terms of the places.                  *)
CopyAt(x, p, n, b) ==
    \/ p = "headq" /\ \E i \in DOMAIN headq : headq[i] = b /\ x = <<"headq", i>>
    \/ p = "outq" /\ \E i \in DOMAIN outq :
                        outq[i].batch = b /\ x = <<"outq", i>>
    \/ p = "net" /\ \E m \in net : m.batch = b /\ x = <<"net", m>>
    \/ p = "dq" /\ \E i \in DOMAIN dq[n] :
                      dq[n][i].batch = b /\ x = <<"dq", n, i>>
    \/ p = "inq" /\ \E i \in DOMAIN inq[n] : inq[n][i] = b /\ x = <<"inq", n, i>>
    \/ p = "deser" /\ b \in deser[n] /\ x = <<"deser", n>>
    \/ p = "lockq" /\ \E i \in DOMAIN lockq[n] :
                         lockq[n][i] = b /\ x = <<"lockq", n, i>>

CopyOfNode(x, n, b) ==
    \/ \E i \in DOMAIN dq[n] : dq[n][i].batch = b /\ x = <<"dq", n, i>>
    \/ \E i \in DOMAIN inq[n] : inq[n][i] = b /\ x = <<"inq", n, i>>
    \/ b \in deser[n] /\ x = <<"deser", n>>
    \/ \E i \in DOMAIN lockq[n] : lockq[n][i] = b /\ x = <<"lockq", n, i>>

LEMMA CopiesAre ==
    ASSUME NEW b
    PROVE  \A x : x \in Copies(b) <=>
              \/ \E i \in DOMAIN headq : headq[i] = b /\ x = <<"headq", i>>
              \/ \E i \in DOMAIN outq : outq[i].batch = b /\ x = <<"outq", i>>
              \/ \E m \in net : m.batch = b /\ x = <<"net", m>>
              \/ \E n \in Nodes : CopyOfNode(x, n, b)
  <1> DEFINE Head1 == {<<"headq", i>> : i \in Positions(headq, b)}
             Out == {<<"outq", i>> : i \in {j \in DOMAIN outq :
                                              outq[j].batch = b}}
             Net == {<<"net", m>> : m \in {p \in net : p.batch = b}}
             Local(n) == {<<"dq", n, i>> : i \in {j \in DOMAIN dq[n] :
                                                    dq[n][j].batch = b}}
                         \cup {<<"inq", n, i>> : i \in Positions(inq[n], b)}
                         \cup {<<"deser", n>> : c \in deser[n] \cap {b}}
                         \cup {<<"lockq", n, i>> : i \in Positions(lockq[n], b)}
  <1>1. Copies(b) = Head1 \cup Out \cup Net \cup UNION {Local(n) : n \in Nodes}
    BY DEF Copies
  <1>2. ASSUME NEW x, NEW n
        PROVE  x \in Local(n) <=> CopyOfNode(x, n, b)
    <2>1. x \in {<<"dq", n, i>> : i \in {j \in DOMAIN dq[n] :
                                           dq[n][j].batch = b}}
             <=> \E i \in DOMAIN dq[n] : dq[n][i].batch = b /\ x = <<"dq", n, i>>
      BY Zenon
    <2>2. x \in {<<"inq", n, i>> : i \in Positions(inq[n], b)}
             <=> \E i \in DOMAIN inq[n] : inq[n][i] = b /\ x = <<"inq", n, i>>
      BY Zenon DEF Positions
    <2>3. x \in {<<"deser", n>> : c \in deser[n] \cap {b}}
             <=> b \in deser[n] /\ x = <<"deser", n>>
      BY Zenon
    <2>4. x \in {<<"lockq", n, i>> : i \in Positions(lockq[n], b)}
             <=> \E i \in DOMAIN lockq[n] : lockq[n][i] = b
                                            /\ x = <<"lockq", n, i>>
      BY Zenon DEF Positions
    <2> QED
      BY <2>1, <2>2, <2>3, <2>4, Zenon DEF CopyOfNode
  <1>3. \A x : x \in Head1 <=>
           \E i \in DOMAIN headq : headq[i] = b /\ x = <<"headq", i>>
    BY Zenon DEF Positions
  <1>4. \A x : x \in Out <=>
           \E i \in DOMAIN outq : outq[i].batch = b /\ x = <<"outq", i>>
    BY Zenon
  <1>5. \A x : x \in Net <=> \E m \in net : m.batch = b /\ x = <<"net", m>>
    BY Zenon
  <1> HIDE DEF Head1, Out, Net, Local
  <1>6. \A x : x \in UNION {Local(n) : n \in Nodes}
                  <=> \E n \in Nodes : CopyOfNode(x, n, b)
    BY <1>2, Zenon
  <1> QED
    BY <1>1, <1>3, <1>4, <1>5, <1>6, Zenon

(* Each copy is at a place, and each place holds one copy at most.         *)
LEMMA CopyHasPlace ==
    ASSUME NEW b \in Batches, NEW x \in Copies(b)
    PROVE  \E p \in Places : \E n \in Nodes : CopyAt(x, p, n, b)
  <1>1. /\ HeadNode \in Nodes
        /\ "headq" \in Places /\ "outq" \in Places /\ "net" \in Places
        /\ "dq" \in Places /\ "inq" \in Places /\ "deser" \in Places
        /\ "lockq" \in Places
    BY NodesAssumption DEF Places
  <1>2. ASSUME NEW n \in Nodes, CopyOfNode(x, n, b)
        PROVE  \E p \in Places : CopyAt(x, p, n, b)
    BY <1>1, <1>2 DEF CopyOfNode, CopyAt
  <1>3. CASE \E i \in DOMAIN headq : headq[i] = b /\ x = <<"headq", i>>
    BY <1>1, <1>3 DEF CopyAt
  <1>4. CASE \E i \in DOMAIN outq : outq[i].batch = b /\ x = <<"outq", i>>
    BY <1>1, <1>4 DEF CopyAt
  <1>5. CASE \E m \in net : m.batch = b /\ x = <<"net", m>>
    BY <1>1, <1>5 DEF CopyAt
  <1> QED
    BY <1>2, <1>3, <1>4, <1>5, CopiesAre

LEMMA PlaceHasCopy ==
    ASSUME NEW b \in Batches, NEW p \in Places, NEW n \in Nodes,
           NEW x, CopyAt(x, p, n, b)
    PROVE  p \in {"dq", "inq", "deser", "lockq"} \/ n = HeadNode => At(p, n, b)
  BY DEF CopyAt, At, Occurs, OccursIn

LEMMA OneCopyEach ==
    ASSUME PlacesInv, NEW b \in Batches, NEW p \in Places, NEW n \in Nodes,
           NEW x, NEW y, CopyAt(x, p, n, b), CopyAt(y, p, n, b)
    PROVE  x = y
  BY DEF CopyAt, Places, PlacesInv, NoRepeat, NoRepeatHead, NoRepeatNet,
         NoRepeatNode, Distinct, DistinctIn

LEMMA CopiesCounted ==
    ASSUME PlacesInv, NEW b \in Batches
    PROVE  /\ Somewhere(b) => Cardinality(Copies(b)) = 1
           /\ ~Somewhere(b) => Cardinality(Copies(b)) = 0
  <1>1. ASSUME NEW x \in Copies(b)
        PROVE  \E p \in Places : \E n \in Nodes : CopyAt(x, p, n, b) /\ At(p, n, b)
    <2>1. PICK p \in Places, n \in Nodes : CopyAt(x, p, n, b)
      BY CopyHasPlace
    <2>2. CASE p \in {"dq", "inq", "deser", "lockq"}
      BY <2>1, <2>2, PlaceHasCopy
    <2>3. CASE p \in {"headq", "outq", "net"}
      <3>1. CopyAt(x, p, HeadNode, b)
        BY <2>1, <2>3 DEF CopyAt
      <3> QED
        BY <3>1, PlaceHasCopy, NodesAssumption
    <2> QED
      BY <2>2, <2>3 DEF Places
  <1>2. \A x, y \in Copies(b) : x = y
    <2> SUFFICES ASSUME NEW x \in Copies(b), NEW y \in Copies(b)
                 PROVE  x = y
      OBVIOUS
    <2>1. PICK p \in Places, n \in Nodes : CopyAt(x, p, n, b) /\ At(p, n, b)
      BY <1>1
    <2>2. PICK q \in Places, m \in Nodes : CopyAt(y, q, m, b) /\ At(q, m, b)
      BY <1>1
    <2>3. p = q /\ n = m
      BY <2>1, <2>2 DEF PlacesInv, Single
    <2> QED
      BY <2>1, <2>2, <2>3, OneCopyEach
  <1>3. Copies(b) # {} => Somewhere(b)
    BY <1>1 DEF Somewhere
  <1>4. Somewhere(b) => Copies(b) # {}
    <2>1. CASE Occurs(headq, b)
      BY <2>1, CopiesAre DEF Occurs
    <2>2. CASE OccursIn(outq, b)
      BY <2>2, CopiesAre DEF OccursIn
    <2>3. CASE \E m \in net : m.batch = b
      BY <2>3, CopiesAre
    <2>4. ASSUME NEW n \in Nodes,
                 OccursIn(dq[n], b) \/ Occurs(inq[n], b) \/ b \in deser[n]
                 \/ Occurs(lockq[n], b)
          PROVE  Copies(b) # {}
      <3>1. \E x : CopyOfNode(x, n, b)
        BY <2>4 DEF CopyOfNode, Occurs, OccursIn
      <3> QED
        BY <3>1, CopiesAre
    <2> QED
      BY <2>1, <2>2, <2>3, <2>4, HeldSomewhere DEF Held
  <1>5. CASE Somewhere(b)
    <2>1. PICK x : x \in Copies(b)
      BY <1>4, <1>5
    <2>2. Copies(b) = {x}
      BY <1>2, <2>1
    <2> QED
      BY <1>5, <2>2, FS_Singleton
  <1>6. CASE ~Somewhere(b)
    BY <1>3, <1>6, FS_EmptySet
  <1> QED
    BY <1>5, <1>6

LEMMA AnswersCounted ==
    ASSUME AccountInv, NEW b \in Batches
    PROVE  LET T == {c \in Batches : result[c].batch = b}
           IN  /\ Returned(b) => Cardinality(T) = 1
               /\ ~Returned(b) => Cardinality(T) = 0
  <1> DEFINE T == {c \in Batches : result[c].batch = b}
  <1>1. \A c, d \in T : c = d
    BY NoBatchAssumption DEF AccountInv, ReturnedOnce
  <1>2. Returned(b) <=> T # {}
    BY DEF Returned
  <1> HIDE DEF T
  <1>3. CASE Returned(b)
    <2>1. PICK c : T = {c}
      BY <1>1, <1>2, <1>3
    <2> QED
      BY <1>3, <2>1, FS_Singleton DEF T
  <1>4. CASE ~Returned(b)
    <2>1. T = {}
      BY <1>2, <1>4
    <2> QED
      BY <1>4, <2>1, FS_EmptySet DEF T
  <1> QED
    BY <1>3, <1>4

LEMMA AccountsAddUp == TypeInv /\ PlacesInv /\ AccountInv => ExactlyOnePlace
  <1> SUFFICES ASSUME TypeInv, PlacesInv, AccountInv, NEW b \in Submitted
               PROVE  Cardinality(Copies(b))
                      + Cardinality({c \in Batches : result[c].batch = b})
                      + Cardinality(lost \cap {b}) = 1
    BY DEF ExactlyOnePlace
  <1>1. b \in Batches
    BY DEF Submitted
  <1>2. /\ Somewhere(b) => b \notin lost /\ ~Returned(b)
        /\ b \in lost => ~Returned(b)
        /\ Somewhere(b) \/ b \in lost \/ Returned(b)
    BY <1>1 DEF AccountInv, OneFate, SomeFate
  <1>3. /\ b \in lost => Cardinality(lost \cap {b}) = 1
        /\ b \notin lost => Cardinality(lost \cap {b}) = 0
    <2>1. b \in lost => lost \cap {b} = {b}
      OBVIOUS
    <2>2. b \notin lost => lost \cap {b} = {}
      OBVIOUS
    <2> QED
      BY <2>1, <2>2, FS_Singleton, FS_EmptySet
  <1> QED
    BY <1>1, <1>2, <1>3, CopiesCounted, AnswersCounted

(* A submitted batch is at one place, answered to one call or lost: for    *)
(* any cluster, any number of batches outstanding and any faults the       *)
(* hand-offs neither double a batch nor let it vanish without a log line.  *)
THEOREM EachBatchAccounted == Spec => []ExactlyOnePlace
  <1>1. TypeInv /\ PlacesInv /\ AccountInv /\ [Next]_vars
           => TypeInv' /\ PlacesInv' /\ AccountInv'
    BY NextTypeInv, NextPlaces, NextAccounts
  <1>2. Init => TypeInv /\ PlacesInv /\ AccountInv
    BY InitTypeInv, InitPlaces, InitAccounts
  <1> QED
    BY <1>1, <1>2, AccountsAddUp, PTL DEF Spec

-----------------------------------------------------------------------------
(* What is left behind.  An output that reaches the head has passed every  *)
(* stage of its list, unless the head itself serves "to the end" although  *)
(* workers joined; and a worker's slot keeps nothing, unless a worker      *)
(* believes to be the first stage.                                         *)
HeadEndsEarly ==
    \A l \in Layouts : IsLastStage(l[HeadNode]) => Nodes = {HeadNode}

OnlyHeadFirst ==
    \A l \in Layouts : \A n \in Nodes \ {HeadNode} : ~IsFirstStage(l[n])

Finished(b) == path[b] = servers[b]

HeadPush(m, b) == m.push = "head" /\ m.batch = b

(* The output of b is on its way to the head, there, or returned.          *)
IsOutput(b) ==
    \/ b \in Submitted /\ Returned(b)
    \/ OccursIn(outq, b)
    \/ \E m \in net : HeadPush(m, b)
    \/ \E n \in Nodes : \E i \in DOMAIN dq[n] : HeadPush(dq[n][i], b)

OutputsFinished == \A b \in Batches : IsOutput(b) => Finished(b)

SlotsClear ==
    \A n \in Nodes : slot[n] # NoBatch => phase[n] = "set" /\ n # HeadNode

CallsAnswered ==
    \A c \in Batches :
        /\ status[c] \in {"done", "failed"} => result[c].batch \in Batches
        /\ c \in Submitted /\ result[c].batch # NoBatch
              => result[c].batch \in Submitted

ResidueInv == OutputsFinished /\ SlotsClear /\ CallsAnswered

LEMMA InitResidue == Init => ResidueInv
  <1> SUFFICES ASSUME Init PROVE ResidueInv
    OBVIOUS
  <1> USE DEF Init
  <1>1. Submitted = {}
    BY DEF Submitted
  <1>2. OutputsFinished
    BY <1>1 DEF OutputsFinished, Finished, IsOutput, OccursIn
  <1>3. SlotsClear
    BY DEF SlotsClear
  <1>4. CallsAnswered
    BY <1>1 DEF CallsAnswered
  <1> QED
    BY <1>2, <1>3, <1>4 DEF ResidueInv

(* Whatever is somewhere has been submitted.                               *)
LEMMA HeldSubmitted ==
    ASSUME TypeInv, StageInv, Started, NEW b \in Batches, Somewhere(b)
    PROVE  b \in Submitted
  <1>1. CASE Occurs(headq, b)
    BY <1>1 DEF StageInv, AtHead, Submitted
  <1>2. CASE path[b] # <<>>
    <2>1. path[b] \in Seq(Nodes) /\ servers[b] \in Seq(Nodes)
      BY DEF TypeInv, TypeOK, AuxTypeOK, HeadTypeOK
    <2>2. Len(path[b]) \in Nat /\ Len(path[b]) # 0
          /\ Len(path[b]) =< Len(servers[b])
      BY <1>2, <2>1, LenProperties, EmptySeq DEF StageInv, StagesInOrder
    <2>3. servers[b] # <<>>
      BY <2>1, <2>2, LenProperties, EmptySeq
    <2> QED
      BY <2>3 DEF Submitted
  <1> QED
    BY <1>1, <1>2 DEF Started

(* A path as long as the list is the list.                                 *)
LEMMA WholePath ==
    ASSUME TypeInv, StageInv, NEW b \in Batches, Len(path[b]) = Len(servers[b])
    PROVE  Finished(b)
  <1>1. path[b] \in Seq(Nodes) /\ servers[b] \in Seq(Nodes)
    BY DEF TypeInv, TypeOK, AuxTypeOK, HeadTypeOK
  <1>2. \A k \in DOMAIN path[b] : path[b][k] = servers[b][k]
    BY DEF StageInv, StagesInOrder
  <1> QED
    BY <1>1, <1>2, SeqEqual, LenProperties DEF Finished

-----------------------------------------------------------------------------
(* The outputs.                                                            *)
LEMMA OutputsKept ==
    ASSUME OutputsFinished, UNCHANGED <<path, servers>>,
           \A b \in Batches : IsOutput(b)' => IsOutput(b) \/ Finished(b)
    PROVE  OutputsFinished'
  BY DEF OutputsFinished, Finished

(* Steps after which nothing new is an output.                             *)
LEMMA QuietOutputs ==
    ASSUME OutputsFinished, UNCHANGED <<path, servers, result, outq>>,
           net' \subseteq net,
           \A n \in Nodes : \A i \in DOMAIN dq'[n] :
              dq'[n][i].push = "head" =>
                 \E j \in DOMAIN dq[n] : dq[n][j] = dq'[n][i]
    PROVE  OutputsFinished'
  <1>1. \A b : Returned(b)' <=> Returned(b)
    BY DEF Returned
  <1>2. Submitted' = Submitted
    BY DEF Submitted
  <1>3. \A b : IsOutput(b)' => IsOutput(b)
    BY <1>1, <1>2 DEF IsOutput, OccursIn, HeadPush
  <1> QED
    BY <1>3, OutputsKept

LEMMA OutputIsHeld ==
    ASSUME AccountInv, NEW b \in Batches, IsOutput(b)
    PROVE  \/ Returned(b) \/ At("outq", HeadNode, b) \/ At("net", HeadNode, b)
           \/ \E n \in Nodes : At("dq", n, b)
  BY DEF IsOutput, HeadPush, At, OccursIn

LEMMA OutputNotNew ==
    ASSUME PlacesInv, AccountInv, NEW b \in Batches, IsOutput(b)
    PROVE  status[b] # "new"
  BY OutputIsHeld, NodesAssumption
     DEF AccountInv, NoFate, PlacesInv, Unborn, Places

(* A call returns the oldest output.                                       *)
LEMMA AnswerOutputs ==
    ASSUME TypeInv, PlacesInv, AccountInv, OutputsFinished, outq # <<>>,
           NEW w \in Batches, result[w] = NoResult, Answer(w, Head(outq)),
           outq' = Tail(outq), UNCHANGED <<path, net, dq>>,
           \A b \in Batches : status[b] # "new" => servers'[b] = servers[b]
    PROVE  OutputsFinished'
  <1>1. PICK r \in Result : r = Head(outq)
    BY OldestOutput
  <1>2. ~Returned(r.batch) /\ r.batch \in Batches /\ OccursIn(outq, r.batch)
    <2>1. outq \in Seq(Result)
      BY DEF TypeInv, TypeOK, HeadTypeOK
    <2> QED
      BY <1>1, <2>1, OldestOutput, QueueGet DEF OccursIn
  <1>3. \A b \in Batches : Returned(b)' <=> b = r.batch \/ Returned(b)
    BY <1>1, <1>2, AnswerReturns
  <1>4. \A b : OccursIn(outq', b) => OccursIn(outq, b)
    <2>1. outq \in Seq(Result)
      BY DEF TypeInv, TypeOK, HeadTypeOK
    <2> QED
      BY <2>1, GetMessage DEF PlacesInv, NoRepeat, NoRepeatHead
  <1> SUFFICES ASSUME NEW b \in Batches, IsOutput(b)'
               PROVE  IsOutput(b)
    BY OutputNotNew DEF OutputsFinished, Finished
  <1>5. CASE b \in Submitted' /\ Returned(b)'
    <2>1. CASE b = r.batch
      BY <1>2, <2>1 DEF IsOutput
    <2>2. CASE Returned(b)
      <3>1. servers'[b] = servers[b]
        BY <2>2 DEF AccountInv, NoFate
      <3>2. b \in Submitted
        BY <1>5, <3>1 DEF Submitted
      <3> QED
        BY <2>2, <3>2 DEF IsOutput
    <2> QED
      BY <1>3, <1>5, <2>1, <2>2
  <1>6. CASE ~(b \in Submitted' /\ Returned(b)')
    BY <1>4, <1>6 DEF IsOutput, HeadPush
  <1> QED
    BY <1>5, <1>6

LEMMA SubmitOutputs ==
    ASSUME TypeInv, PlacesInv, AccountInv, OutputsFinished,
           NEW b \in Batches, Submit(b)
    PROVE  OutputsFinished'
  <1>1. /\ status[b] = "new" /\ UNCHANGED <<path, net, dq>>
        /\ servers' = [servers EXCEPT ![b] = ServerList(node_info)]
    BY DEF Submit, aux_vars
  <1>2. \A c \in Batches : status[c] # "new" => servers'[c] = servers[c]
    BY <1>1 DEF TypeInv, TypeOK, HeadTypeOK
  <1>3. CASE outq # <<>>
    BY <1>1, <1>2, <1>3, AnswerOutputs DEF Submit, AccountInv, Unanswered
  <1>4. CASE outq = <<>>
    <2>1. UNCHANGED <<outq, result>>
      BY <1>4 DEF Submit
    <2>2. \A c \in Batches : IsOutput(c)' => IsOutput(c)
      <3>1. \A c : Returned(c)' <=> Returned(c)
        BY <2>1 DEF Returned
      <3>2. \A c \in Batches : c \in Submitted' /\ Returned(c) => c \in Submitted
        BY <1>2 DEF AccountInv, NoFate, Submitted
      <3> QED
        BY <1>1, <2>1, <3>1, <3>2 DEF IsOutput, OccursIn, HeadPush
    <2> QED
      BY <1>1, <1>2, <2>2, OutputNotNew DEF OutputsFinished, Finished
  <1> QED
    BY <1>3, <1>4

(* A call without tokens is answered, but it was never submitted.          *)
LEMMA SubmitEmptyOutputs ==
    ASSUME TypeInv, PlacesInv, AccountInv, OutputsFinished,
           NEW b \in Batches, SubmitEmpty(b)
    PROVE  OutputsFinished'
  <1> DEFINE r == [batch |-> b, out |-> "empty"]
  <1>1. /\ status[b] = "new" /\ Answer(b, r) /\ r \in Result /\ r.batch = b
        /\ UNCHANGED <<servers, path, outq, net, dq>>
    BY DEF SubmitEmpty, network_vars, aux_vars, Result
  <1> HIDE DEF r
  <1>2. result[b] = NoResult /\ ~Returned(b) /\ servers[b] = <<>>
    BY <1>1 DEF AccountInv, Unanswered, NoFate, TypeInv, Fresh
  <1>3. \A c \in Batches : Returned(c)' <=> c = b \/ Returned(c)
    BY <1>1, <1>2, AnswerReturns
  <1>4. \A c \in Batches : c \in Submitted' <=> c \in Submitted /\ c # b
    BY <1>1, <1>2 DEF Submitted
  <1>5. \A c \in Batches : IsOutput(c)' => IsOutput(c)
    BY <1>1, <1>3, <1>4 DEF IsOutput, OccursIn, HeadPush
  <1> QED
    BY <1>1, <1>5, OutputsKept

(* A stage runs a batch that is at that stage, and so not an output yet.   *)
LEMMA RunOutputs ==
    ASSUME AccountInv, OutputsFinished, TypeInv,
           UNCHANGED <<servers, result, outq, net, dq>>,
           NEW b \in Batches, NEW n \in Nodes,
           path' = [path EXCEPT ![b] = Append(@, n)],
           Somewhere(b), ~OccursIn(outq, b), \A m \in net : m.batch # b,
           \A k \in Nodes : ~OccursIn(dq[k], b)
    PROVE  OutputsFinished'
  <1>1. ~IsOutput(b)
    BY DEF IsOutput, HeadPush, OccursIn, AccountInv, OneFate
  <1>2. \A c \in Batches : IsOutput(c)' <=> IsOutput(c)
    BY DEF IsOutput, HeadPush, OccursIn, Returned, Submitted
  <1>3. \A c \in Batches \ {b} : path'[c] = path[c]
    BY DEF TypeInv, TypeOK, AuxTypeOK
  <1> QED
    BY <1>1, <1>2, <1>3 DEF OutputsFinished, Finished

LEMMA HeadExecuteOutputs ==
    ASSUME TypeInv, PlacesInv, AccountInv, OutputsFinished, HeadExecute
    PROVE  OutputsFinished'
  <1>1. /\ headq # <<>> /\ path' = [path EXCEPT ![Head(headq)] =
                                       Append(@, HeadNode)]
        /\ UNCHANGED <<servers, result, outq, net, dq>>
    BY DEF HeadExecute, network_vars
  <1>2. PICK b \in Batches : b = Head(headq)
    BY <1>1, HeadTask
  <1> QED
    BY <1>1, <1>2, HeadTask, RunOutputs, NodesAssumption

LEMMA WorkerExecuteOutputs ==
    ASSUME TypeInv, PlacesInv, AccountInv, OutputsFinished,
           NEW n \in Nodes, WorkerExecute(n)
    PROVE  OutputsFinished'
  <1>1. /\ lockq[n] # <<>>
        /\ path' = [path EXCEPT ![Head(lockq[n])] = Append(@, n)]
        /\ UNCHANGED <<servers, result, outq, net, dq>>
    BY DEF WorkerExecute, head_vars, network_vars, TypeInv, LockHeld
  <1>2. PICK b \in Batches : b = Head(lockq[n])
    BY <1>1, WorkerTask
  <1> QED
    BY <1>1, <1>2, WorkerTask, RunOutputs

(* The head's own output: its batch has passed its only stage.             *)
LEMMA HeadAloneOutputs ==
    ASSUME TypeInv, PlacesInv, StageInv, OutputsFinished, HeadAlone
    PROVE  OutputsFinished'
  <1>1. /\ headq # <<>> /\ head_phase = "ran" /\ Len(servers[Head(headq)]) = 1
        /\ UNCHANGED <<path, servers, result, net, dq>>
        /\ \/ UNCHANGED outq
           \/ outq' = Append(outq, [batch |-> Head(headq), out |-> "json"])
    BY DEF HeadAlone, ReleaseHeadLock, TypeInv, LockHeld, Drop
  <1>2. PICK b \in Batches : b = Head(headq) /\ b = headq[1] /\ Occurs(headq, b)
    <2>1. headq \in Seq(Batches)
      BY DEF TypeInv, TypeOK, HeadTypeOK
    <2> QED
      BY <1>1, <2>1, QueueGet DEF Occurs
  <1>3. Finished(b)
    BY <1>1, <1>2, WholePath DEF StageInv, AtHead
  <1>4. \A c : OccursIn(outq', c) => c = b \/ OccursIn(outq, c)
    <2>1. outq \in Seq(Result) /\ [batch |-> b, out |-> "json"] \in Result
      BY DEF TypeInv, TypeOK, HeadTypeOK, Result
    <2>2. \A c : OccursIn(Append(outq, [batch |-> b, out |-> "json"]), c)
                   <=> c = b \/ OccursIn(outq, c)
      BY <2>1, AppendOccursIn
    <2> QED
      BY <1>1, <1>2, <2>2
  <1>5. \A c \in Batches : IsOutput(c)' => IsOutput(c) \/ c = b
    BY <1>1, <1>4 DEF IsOutput, HeadPush, Returned, Submitted
  <1> QED
    BY <1>1, <1>3, <1>5, OutputsKept

(* A head with workers behind it is not the last stage.                    *)
LEMMA HeadNotLast ==
    ASSUME HeadEndsEarly, TypeInv, StageInv, NEW b \in Batches,
           Len(servers[b]) > 1
    PROVE  ~IsLastStage(layout[HeadNode])
  <1>1. /\ servers[b] \in Seq(Nodes) /\ layout \in Layouts
        /\ 1 \in DOMAIN servers[b] /\ 2 \in DOMAIN servers[b]
    BY LenProperties DEF TypeInv, TypeOK, HeadTypeOK
  <1>2. servers[b][1] \in Nodes /\ servers[b][2] \in Nodes
    BY <1>1
  <1>3. servers[b][1] # servers[b][2]
    BY <1>1, EmptySeq DEF StageInv, Lists
  <1> QED
    BY <1>1, <1>2, <1>3 DEF HeadEndsEarly

LEMMA HeadOutputsNoneNever ==
    ASSUME HeadEndsEarly, TypeInv, StageInv, HeadOutputsNone
    PROVE  FALSE
  <1>1. headq # <<>> /\ headq \in Seq(Batches)
    BY DEF HeadOutputsNone, ReleaseHeadLock, TypeInv, LockHeld, TypeOK,
           HeadTypeOK
  <1>2. Head(headq) \in Batches
    BY <1>1, QueueGet
  <1> QED
    BY <1>2, HeadNotLast DEF HeadOutputsNone

(* Deliver hands over what is to reach the head only if it has finished.   *)
LEMMA DeliverOutputs ==
    ASSUME TypeInv, OutputsFinished, NEW n \in Nodes, NEW item \in Push,
           Deliver(n, item), item.push = "head" => Finished(item.batch),
           UNCHANGED <<path, servers, result, outq, net>>
    PROVE  OutputsFinished'
  <1>1. /\ dq \in [Nodes -> Seq(Push)] /\ dq[n] \in Seq(Push)
        /\ item.batch \in Batches
    BY DEF TypeInv, TypeOK, NetworkTypeOK, Push
  <1>2. \A k \in Nodes : \A i \in DOMAIN dq'[k] :
           dq'[k][i] = item \/ \E j \in DOMAIN dq[k] : dq[k][j] = dq'[k][i]
    <2>1. CASE UNCHANGED dq
      BY <2>1
    <2>2. CASE dq' = [dq EXCEPT ![n] = Append(@, item)]
      <3>1. /\ dq'[n] = Append(dq[n], item)
            /\ \A k \in Nodes \ {n} : dq'[k] = dq[k]
        BY <1>1, <2>2
      <3>2. \A i \in DOMAIN dq'[n] :
               dq'[n][i] = item \/ \E j \in DOMAIN dq[n] : dq[n][j] = dq'[n][i]
        BY <1>1, <3>1, QueuePut
      <3> QED
        BY <3>1, <3>2
    <2> QED
      BY <2>1, <2>2 DEF Deliver
  <1>3. /\ Submitted' = Submitted
        /\ \A b : Returned(b)' <=> Returned(b)
    BY DEF Submitted, Returned
  <1>4. \A b \in Batches : IsOutput(b)' => IsOutput(b) \/ Finished(b)
    <2> SUFFICES ASSUME NEW b \in Batches, IsOutput(b)', ~IsOutput(b)
                 PROVE  Finished(b)
      OBVIOUS
    <2>1. PICK k \in Nodes : \E i \in DOMAIN dq'[k] : HeadPush(dq'[k][i], b)
      BY <1>3 DEF IsOutput, OccursIn, HeadPush
    <2>2. PICK i \in DOMAIN dq'[k] : HeadPush(dq'[k][i], b)
      BY <2>1
    <2>3. dq'[k][i] = item
      BY <1>2, <2>2 DEF IsOutput, HeadPush
    <2> QED
      BY <2>2, <2>3 DEF HeadPush
  <1> QED
    BY <1>4, OutputsKept

LEMMA HeadDeliverOutputs ==
    ASSUME TypeInv, OutputsFinished, HeadDeliver
    PROVE  OutputsFinished'
  <1> DEFINE item == ToNext(Head(headq), servers[Head(headq)][2])
  <1>1. /\ headq # <<>> /\ headq \in Seq(Batches)
        /\ UNCHANGED <<path, servers, result, outq, net>>
        /\ Deliver(HeadNode, item) /\ Len(servers[Head(headq)]) > 1
    BY DEF HeadDeliver, ReleaseHeadLock, TypeInv, LockHeld, TypeOK, HeadTypeOK
  <1>2. PICK b \in Batches : b = Head(headq)
    BY <1>1, QueueGet
  <1>3. item \in Push /\ item.push = "next"
    <2>1. servers[b] \in Seq(Nodes) /\ 2 \in DOMAIN servers[b]
      BY <1>1, <1>2, LenProperties DEF TypeInv, TypeOK, HeadTypeOK
    <2> QED
      BY <1>2, <2>1 DEF ToNext, Push
  <1> HIDE DEF item
  <1> QED
    BY <1>1, <1>3, DeliverOutputs, NodesAssumption

(* A worker finds itself at the place of the list it has just run for.     *)
LEMMA MyIndexIsLast ==
    ASSUME TypeInv, StageInv, NEW b \in Batches, NEW n \in Nodes, Ran(b, n)
    PROVE  MyIndex(b, n) = Len(path[b])
  <1>1. path[b] \in Seq(Nodes) /\ servers[b] \in Seq(Nodes)
    BY DEF TypeInv, TypeOK, AuxTypeOK, HeadTypeOK
  <1>2. /\ Len(path[b]) \in Nat /\ Len(path[b]) # 0
        /\ Len(path[b]) =< Len(servers[b])
        /\ Len(servers[b]) \in Nat /\ DOMAIN servers[b] = 1..Len(servers[b])
    BY <1>1, LenProperties, EmptySeq DEF Ran, StageInv, StagesInOrder
  <1>3. Len(path[b]) \in DOMAIN servers[b] /\ servers[b][Len(path[b])] = n
    BY <1>2 DEF Ran
  <1>4. servers[b] # <<>>
    BY <1>1, <1>2, LenProperties, EmptySeq
  <1>5. \A k \in DOMAIN servers[b] : servers[b][k] = n => k = Len(path[b])
    BY <1>3, <1>4 DEF StageInv, Lists
  <1> QED
    BY <1>3, <1>5 DEF MyIndex, Route

LEMMA WorkerDeliverOutputs ==
    ASSUME TypeInv, PlacesInv, StageInv, OutputsFinished,
           NEW n \in Nodes, WorkerDeliver(n)
    PROVE  OutputsFinished'
  <1> DEFINE c == Head(lockq[n])
             k == MyIndex(c, n)
             out == [push |-> "head", to |-> HeadNode, batch |-> c,
                     out |-> WorkerOutput(n)]
             next == ToNext(c, Route(c)[k + 1])
  <1>1. /\ phase[n] = "ran" /\ lockq[n] # <<>> /\ lockq[n] \in Seq(Batches)
        /\ UNCHANGED <<path, servers, result, outq, net>>
        /\ \/ k = Len(Route(c)) /\ Deliver(n, out)
           \/ Drop(c)
           \/ k # Len(Route(c)) /\ Deliver(n, next)
    BY DEF WorkerDeliver, head_vars, TypeInv, LockHeld, TypeOK, ServiceTypeOK
  <1>2. PICK b \in Batches : b = c /\ b = lockq[n][1] /\ Occurs(lockq[n], b)
    BY <1>1, QueueGet DEF Occurs
  <1>3. Ran(b, n)
    BY <1>1, <1>2 DEF StageInv, InLockq
  <1>4. k = Len(path[b])
    BY <1>2, <1>3, MyIndexIsLast
  <1>5. CASE k = Len(Route(c)) /\ Deliver(n, out)
    <2>1. Finished(b)
      BY <1>2, <1>4, <1>5, WholePath DEF Route
    <2>2. out \in Push /\ out.batch = b
      BY <1>2, NodesAssumption DEF Push, WorkerOutput
    <2> HIDE DEF out
    <2> QED
      BY <1>1, <1>5, <2>1, <2>2, DeliverOutputs
  <1>6. CASE k # Len(Route(c)) /\ Deliver(n, next)
    <2>1. /\ path[b] \in Seq(Nodes) /\ servers[b] \in Seq(Nodes)
          /\ Len(path[b]) =< Len(servers[b])
      BY DEF TypeInv, TypeOK, AuxTypeOK, HeadTypeOK, StageInv, StagesInOrder
    <2>2. Route(c)[k + 1] \in Nodes
      <3>1. k + 1 \in DOMAIN servers[b]
        BY <1>2, <1>4, <1>6, <2>1, LenProperties DEF Route
      <3> QED
        BY <1>2, <2>1, <3>1 DEF Route
    <2>3. next \in Push /\ next.push = "next"
      BY <1>2, <2>2 DEF ToNext, Push
    <2> HIDE DEF next
    <2> QED
      BY <1>1, <1>6, <2>3, DeliverOutputs
  <1>7. CASE Drop(c)
    BY <1>1, <1>7, QuietOutputs DEF Drop
  <1> QED
    BY <1>1, <1>5, <1>6, <1>7

(* A push leaves its queue, or arrives at the head.                        *)
LEMMA ConsumerTakeOutputs ==
    ASSUME TypeInv, OutputsFinished, NEW n \in Nodes, ConsumerTake(n)
    PROVE  OutputsFinished'
  <1>1. /\ dq[n] # <<>> /\ dq' = [dq EXCEPT ![n] = Tail(@)]
        /\ net' = net \cup {Head(dq[n])}
        /\ UNCHANGED <<path, servers, result, outq>>
        /\ dq \in [Nodes -> Seq(Push)] /\ dq[n] \in Seq(Push)
    BY DEF ConsumerTake, head_vars, aux_vars, TypeInv, TypeOK, NetworkTypeOK
  <1>2. PICK m \in Push : m = Head(dq[n]) /\ m = dq[n][1] /\ 1 \in DOMAIN dq[n]
    BY <1>1, QueueGet
  <1>3. \A k \in Nodes : \A i \in DOMAIN dq'[k] :
           \E j \in DOMAIN dq[k] : dq[k][j] = dq'[k][i]
    <2>1. \A i \in DOMAIN Tail(dq[n]) : /\ i + 1 \in DOMAIN dq[n]
                                       /\ Tail(dq[n])[i] = dq[n][i + 1]
      BY <1>1, QueueGet
    <2>2. dq'[n] = Tail(dq[n]) /\ \A k \in Nodes \ {n} : dq'[k] = dq[k]
      BY <1>1
    <2> QED
      BY <2>1, <2>2
  <1>4. Submitted' = Submitted /\ \A b : Returned(b)' <=> Returned(b)
    BY <1>1 DEF Submitted, Returned
  <1>5. \A b \in Batches : IsOutput(b)' => IsOutput(b)
    <2> SUFFICES ASSUME NEW b \in Batches, IsOutput(b)'
                 PROVE  IsOutput(b)
      OBVIOUS
    <2>1. CASE \E k \in Nodes : \E i \in DOMAIN dq'[k] : HeadPush(dq'[k][i], b)
      <3>1. PICK k \in Nodes : \E i \in DOMAIN dq'[k] : HeadPush(dq'[k][i], b)
        BY <2>1
      <3> QED
        BY <1>3, <3>1 DEF IsOutput, HeadPush
    <2>2. CASE \E p \in net' : HeadPush(p, b)
      BY <1>1, <1>2, <2>2 DEF IsOutput
    <2> QED
      BY <1>1, <1>4, <2>1, <2>2 DEF IsOutput, OccursIn, HeadPush
  <1> QED
    BY <1>1, <1>5, OutputsKept

LEMMA PushSamplerOutputOutputs ==
    ASSUME TypeInv, OutputsFinished, NEW m \in net, PushSamplerOutput(m)
    PROVE  OutputsFinished'
  <1>1. /\ m.push = "head" /\ net' = net \ {m}
        /\ outq' = Append(outq, [batch |-> m.batch, out |-> m.out])
        /\ UNCHANGED <<path, servers, result, dq>>
        /\ outq \in Seq(Result) /\ m \in Push
    BY DEF PushSamplerOutput, TypeInv, TypeOK, HeadTypeOK, NetworkTypeOK,
           aux_vars
  <1>2. m.batch \in Batches /\ [batch |-> m.batch, out |-> m.out] \in Result
    BY <1>1 DEF Push, Result
  <1>3. \A c : OccursIn(outq', c) <=> c = m.batch \/ OccursIn(outq, c)
    BY <1>1, <1>2, AppendOccursIn
  <1>4. Submitted' = Submitted /\ \A b : Returned(b)' <=> Returned(b)
    BY <1>1 DEF Submitted, Returned
  <1>5. \A b \in Batches : IsOutput(b)' => IsOutput(b)
    BY <1>1, <1>3, <1>4 DEF IsOutput, HeadPush
  <1> QED
    BY <1>1, <1>5, OutputsKept

(* A crash empties the delivery queue of its node.                         *)
LEMMA RestartOutputs ==
    ASSUME TypeInv, OutputsFinished, NEW n \in Nodes, Restart(n)
    PROVE  OutputsFinished'
  <1>1. /\ dq' = [dq EXCEPT ![n] = <<>>] /\ dq \in [Nodes -> Seq(Push)]
        /\ UNCHANGED <<path, servers, result, outq, net>>
    BY DEF Restart, head_vars, TypeInv, TypeOK, NetworkTypeOK
  <1>2. dq'[n] = <<>> /\ \A k \in Nodes \ {n} : dq'[k] = dq[k]
    BY <1>1
  <1>3. \A k \in Nodes : \A i \in DOMAIN dq'[k] :
           \E j \in DOMAIN dq[k] : dq[k][j] = dq'[k][i]
    BY <1>2
  <1> QED
    BY <1>1, <1>3, QuietOutputs

LEMMA NextOutputs ==
    ASSUME HeadEndsEarly, TypeInv, PlacesInv, StageInv, AccountInv,
           OutputsFinished, [Next]_vars
    PROVE  OutputsFinished'
  <1>1. ASSUME NEW b \in Batches, Submit(b) \/ SubmitEmpty(b)
        PROVE  OutputsFinished'
    BY <1>1, SubmitOutputs, SubmitEmptyOutputs
  <1>2. CASE Collect
    <2>1. /\ result[Head(waiters)] = NoResult /\ Head(waiters) \in Batches
          /\ UNCHANGED <<path, servers, net, dq>>
      BY <1>2, FrontWaiter DEF Collect, network_vars, aux_vars
    <2> QED
      BY <1>2, <2>1, AnswerOutputs DEF Collect
  <1>3. ASSUME UNCHANGED <<path, servers, result, outq, dq>>, net' \subseteq net
        PROVE  OutputsFinished'
    BY <1>3, QuietOutputs
  <1>4. CASE HeadStep /\ ~Collect
    BY <1>4, HeadExecuteOutputs, HeadDeliverOutputs, HeadOutputsNoneNever,
       HeadAloneOutputs DEF HeadStep
  <1>5. CASE MessageStep
    <2>1. ASSUME NEW m \in net, PushIntermediateTensors(m)
          PROVE  OutputsFinished'
      BY <1>3, <2>1 DEF PushIntermediateTensors, head_vars, aux_vars
    <2> QED
      BY <1>5, <2>1, PushSamplerOutputOutputs DEF MessageStep
  <1>6. ASSUME NEW n \in Nodes, NodeStep(n) \/ Join(n)
        PROVE  OutputsFinished'
    <2>1. CASE ConsumerTake(n) \/ WorkerExecute(n) \/ WorkerDeliver(n)
      BY <2>1, ConsumerTakeOutputs, WorkerExecuteOutputs, WorkerDeliverOutputs
    <2>2. CASE ~(ConsumerTake(n) \/ WorkerExecute(n) \/ WorkerDeliver(n))
      BY <1>3, <1>6, <2>2
         DEF NodeStep, Join, TriggerArrives, GetInput, Deserialized, SetTensors,
             head_vars, network_vars, aux_vars
    <2> QED
      BY <2>1, <2>2
  <1>7. CASE FaultStep
    <2>1. ASSUME NEW n \in Nodes, Restart(n)
          PROVE  OutputsFinished'
      BY <2>1, RestartOutputs
    <2>2. CASE HeadFails
      BY <1>3, <2>2 DEF HeadFails, Drop
    <2>3. ASSUME NEW m \in net, LosePush(m)
          PROVE  OutputsFinished'
      <3>1. UNCHANGED <<path, servers, result, outq, dq>> /\ net' = net \ {m}
        BY <2>3 DEF LosePush, Drop, head_vars
      <3> QED
        BY <1>3, <3>1
    <2>4. ASSUME NEW n \in Nodes,
                 \/ LoseTrigger(n) \/ InputTimeout(n) \/ WorkerFails(n)
                 \/ \E b \in Batches : DeserializeFails(n, b)
          PROVE  OutputsFinished'
      BY <1>3, <2>4 DEF LoseTrigger, InputTimeout, DeserializeFails,
                        WorkerFails, Drop, head_vars, network_vars
    <2> QED
      BY <1>7, <2>1, <2>2, <2>3, <2>4 DEF FaultStep
  <1>8. CASE UNCHANGED vars
    BY <1>3, <1>8 DEF vars, head_vars, network_vars, aux_vars
  <1> QED
    BY <1>1, <1>2, <1>4, <1>5, <1>6, <1>7, <1>8 DEF Next

-----------------------------------------------------------------------------
(* The head never sends a batch to itself, so its own service stays unused.*)
LEMMA HeadNotWorker ==
    ASSUME TypeInv, PlacesInv, StageInv, Started,
           NEW b \in Batches, Occurs(lockq[HeadNode], b)
    PROVE  ~Ready(b, HeadNode)
  <1> SUFFICES ASSUME Ready(b, HeadNode) PROVE FALSE
    OBVIOUS
  <1>1. path[b] # <<>>
    BY PassedHead, NodesAssumption DEF At, Places
  <1>2. path[b] \in Seq(Nodes) /\ servers[b] \in Seq(Nodes)
    BY DEF TypeInv, TypeOK, AuxTypeOK, HeadTypeOK
  <1>3. /\ Len(path[b]) \in Nat /\ Len(path[b]) # 0
        /\ Len(path[b]) + 1 \in DOMAIN servers[b] /\ 1 \in DOMAIN servers[b]
        /\ servers[b][Len(path[b]) + 1] = HeadNode /\ servers[b] # <<>>
    BY <1>1, <1>2, LenProperties, EmptySeq DEF Ready
  <1>4. servers[b][1] = HeadNode
    BY <1>3 DEF StageInv, Lists
  <1> QED
    BY <1>3, <1>4 DEF StageInv, Lists

LEMMA NextSlots ==
    ASSUME OnlyHeadFirst, TypeInv, PlacesInv, StageInv, Started, SlotsClear,
           [Next]_vars
    PROVE  SlotsClear'
  <1>1. /\ slot \in [Nodes -> Batches \cup {NoBatch}] /\ layout \in Layouts
        /\ phase \in [Nodes -> {"idle", "set", "ran"}]
    BY DEF TypeInv, TypeOK, ServiceTypeOK
  <1>2. ASSUME UNCHANGED <<slot, phase>> PROVE SlotsClear'
    BY <1>2 DEF SlotsClear
  <1>3. CASE HeadExecute
    <2>1. /\ UNCHANGED phase
          /\ slot' = slot \/ slot' = [slot EXCEPT ![HeadNode] = NoBatch]
      BY <1>3 DEF HeadExecute
    <2> QED
      BY <1>1, <2>1 DEF SlotsClear
  <1>4. ASSUME NEW n \in Nodes, SetTensors(n)
        PROVE  SlotsClear'
    <2>1. n # HeadNode
      <3> SUFFICES ASSUME n = HeadNode PROVE FALSE
        OBVIOUS
      <3>1. lockq[n] # <<>> /\ lockq[n] \in Seq(Batches) /\ phase[n] = "idle"
        BY <1>4 DEF SetTensors, TypeInv, TypeOK, ServiceTypeOK
      <3>2. PICK b \in Batches : Occurs(lockq[n], b)
        BY <3>1, QueueGet DEF Occurs
      <3>3. Ready(b, n)
        BY <3>1, <3>2 DEF StageInv, InLockq
      <3> QED
        BY <3>2, <3>3, HeadNotWorker
    <2>2. /\ phase'[n] = "set"
          /\ \A k \in Nodes \ {n} : slot'[k] = slot[k] /\ phase'[k] = phase[k]
      BY <1>1, <1>4 DEF SetTensors
    <2> QED
      BY <2>1, <2>2 DEF SlotsClear
  <1>5. ASSUME NEW n \in Nodes, WorkerExecute(n) \/ WorkerFails(n)
        PROVE  SlotsClear'
    <2>1. slot' = TakeTensors(n) /\ \A k \in Nodes \ {n} : phase'[k] = phase[k]
      BY <1>1, <1>5 DEF WorkerExecute, WorkerFails
    <2>2. slot'[n] = NoBatch
      <3>1. CASE IsFirstStage(layout[n])
        BY <1>1, <2>1, <3>1 DEF TakeTensors, OnlyHeadFirst, SlotsClear
      <3>2. CASE ~IsFirstStage(layout[n])
        BY <1>1, <2>1, <3>2 DEF TakeTensors
      <3> QED
        BY <3>1, <3>2
    <2>3. \A k \in Nodes \ {n} : slot'[k] = slot[k]
      BY <1>1, <2>1 DEF TakeTensors
    <2> QED
      BY <2>1, <2>2, <2>3 DEF SlotsClear
  <1>6. ASSUME NEW n \in Nodes, WorkerDeliver(n)
        PROVE  SlotsClear'
    <2>1. /\ UNCHANGED slot /\ phase[n] = "ran"
          /\ \A k \in Nodes \ {n} : phase'[k] = phase[k]
      BY <1>1, <1>6 DEF WorkerDeliver
    <2> QED
      BY <2>1 DEF SlotsClear
  <1>7. ASSUME NEW n \in Nodes, Restart(n)
        PROVE  SlotsClear'
    <2>1. /\ slot'[n] = NoBatch
          /\ \A k \in Nodes \ {n} : slot'[k] = slot[k] /\ phase'[k] = phase[k]
      BY <1>1, <1>7 DEF Restart
    <2> QED
      BY <2>1 DEF SlotsClear
  <1>8. ASSUME NEW b \in Batches, Submit(b) \/ SubmitEmpty(b)
        PROVE  SlotsClear'
    BY <1>2, <1>8 DEF Submit, SubmitEmpty, service_vars
  <1>9. CASE HeadStep
    BY <1>2, <1>3, <1>9
       DEF HeadStep, Collect, HeadDeliver, HeadOutputsNone, HeadAlone,
           ReleaseHeadLock, service_vars
  <1>10. CASE MessageStep
    BY <1>2, <1>10 DEF MessageStep, PushIntermediateTensors, PushSamplerOutput,
                       service_vars
  <1>11. ASSUME NEW n \in Nodes, NodeStep(n) \/ Join(n)
         PROVE  SlotsClear'
    BY <1>2, <1>4, <1>5, <1>6, <1>11
       DEF NodeStep, Join, ConsumerTake, TriggerArrives, GetInput, Deserialized,
           service_vars
  <1>12. CASE FaultStep
    BY <1>2, <1>5, <1>7, <1>12
       DEF FaultStep, HeadFails, LosePush, LoseTrigger, InputTimeout,
           DeserializeFails, service_vars
  <1>13. CASE UNCHANGED vars
    BY <1>2, <1>13 DEF vars, service_vars
  <1> QED
    BY <1>8, <1>9, <1>10, <1>11, <1>12, <1>13 DEF Next

-----------------------------------------------------------------------------
(* Submitted calls get outputs of submitted batches.                       *)
LEMMA AnswerCalls ==
    ASSUME TypeInv, PlacesInv, AccountInv, StageInv, Started, CallsAnswered,
           outq # <<>>, NEW w \in Batches, result[w] = NoResult,
           Answer(w, Head(outq)), Submitted \subseteq Submitted',
           \A c \in Submitted' : c \in Submitted \/ c = w
    PROVE  CallsAnswered'
  <1>1. PICK r \in Result : r = Head(outq)
    BY OldestOutput
  <1>2. r.batch \in Submitted /\ ~Returned(r.batch) /\ r.batch \in Batches
    BY <1>1, OldestOutput, HeldSubmitted
  <1>3. /\ result'[w] = r
        /\ \A c \in Batches \ {w} : /\ result'[c] = result[c]
                                   /\ status'[c] = status[c]
    BY <1>1, <1>2, AnswerReturns
  <1> SUFFICES ASSUME NEW c \in Batches
               PROVE  /\ status'[c] \in {"done", "failed"}
                            => result'[c].batch \in Batches
                      /\ c \in Submitted' /\ result'[c].batch # NoBatch
                            => result'[c].batch \in Submitted'
    BY DEF CallsAnswered
  <1>4. CASE c = w
    BY <1>2, <1>3, <1>4
  <1>5. CASE c # w
    <2>1. result'[c] = result[c] /\ status'[c] = status[c]
      BY <1>3, <1>5
    <2>2. c \in Submitted' => c \in Submitted
      BY <1>5
    <2> QED
      BY <2>1, <2>2 DEF CallsAnswered
  <1> QED
    BY <1>4, <1>5

LEMMA NextCalls ==
    ASSUME TypeInv, PlacesInv, AccountInv, StageInv, Started, CallsAnswered,
           [Next]_vars
    PROVE  CallsAnswered'
  <1>1. ASSUME UNCHANGED <<status, result, servers>> PROVE CallsAnswered'
    BY <1>1 DEF CallsAnswered, Submitted
  <1>2. ASSUME NEW b \in Batches, Submit(b)
        PROVE  CallsAnswered'
    <2>1. /\ status[b] = "new" /\ servers \in [Batches -> Seq(Nodes)]
          /\ servers' = [servers EXCEPT ![b] = ServerList(node_info)]
          /\ status \in [Batches -> {"new", "pending", "done", "failed"}]
      BY <1>2 DEF Submit, TypeInv, TypeOK, HeadTypeOK
    <2>2. result[b] = NoResult /\ servers[b] = <<>>
      BY <2>1 DEF AccountInv, Unanswered, TypeInv, Fresh
    <2>3. /\ Submitted \subseteq Submitted'
          /\ \A c \in Submitted' : c \in Submitted \/ c = b
      BY <2>1, <2>2 DEF Submitted
    <2>4. CASE outq # <<>>
      BY <1>2, <2>2, <2>3, <2>4, AnswerCalls DEF Submit
    <2>5. CASE outq = <<>>
      <3>1. UNCHANGED result /\ status' = [status EXCEPT ![b] = "pending"]
        BY <1>2, <2>5 DEF Submit
      <3>2. \A c \in Batches : status'[c] \in {"done", "failed"}
                                  => status[c] \in {"done", "failed"}
        BY <2>1, <3>1
      <3> QED
        BY <2>2, <2>3, <3>1, <3>2 DEF CallsAnswered, NoResult
    <2> QED
      BY <2>4, <2>5
  <1>3. ASSUME NEW b \in Batches, SubmitEmpty(b)
        PROVE  CallsAnswered'
    <2> DEFINE r == [batch |-> b, out |-> "empty"]
    <2>1. /\ status[b] = "new" /\ Answer(b, r) /\ r \in Result /\ r.batch = b
          /\ UNCHANGED servers
      BY <1>3 DEF SubmitEmpty, Result
    <2> HIDE DEF r
    <2>2. /\ result[b] = NoResult /\ ~Returned(b) /\ b \notin Submitted
      BY <2>1 DEF AccountInv, Unanswered, NoFate, TypeInv, Fresh, Submitted
    <2>3. /\ result'[b] = r /\ Submitted' = Submitted
          /\ \A c \in Batches \ {b} : /\ result'[c] = result[c]
                                     /\ status'[c] = status[c]
      BY <2>1, <2>2, AnswerReturns DEF Submitted
    <2> QED
      BY <2>1, <2>2, <2>3 DEF CallsAnswered
  <1>4. CASE Collect
    <2>1. result[Head(waiters)] = NoResult /\ Head(waiters) \in Batches
          /\ Submitted' = Submitted
      BY <1>4, FrontWaiter DEF Collect, Submitted
    <2> QED
      BY <1>4, <2>1, AnswerCalls DEF Collect
  <1>5. CASE HeadStep /\ ~Collect
    BY <1>1, <1>5 DEF HeadStep, HeadExecute, HeadDeliver, HeadOutputsNone,
                      HeadAlone, ReleaseHeadLock
  <1>6. CASE MessageStep
    BY <1>1, <1>6 DEF MessageStep, PushIntermediateTensors, PushSamplerOutput,
                      head_vars
  <1>7. ASSUME NEW n \in Nodes, NodeStep(n) \/ Join(n)
        PROVE  CallsAnswered'
    BY <1>1, <1>7 DEF NodeStep, Join, ConsumerTake, TriggerArrives, GetInput,
                      Deserialized, SetTensors, WorkerExecute, WorkerDeliver,
                      head_vars
  <1>8. CASE FaultStep
    BY <1>1, <1>8 DEF FaultStep, HeadFails, LosePush, LoseTrigger, InputTimeout,
                      DeserializeFails, WorkerFails, Restart, head_vars
  <1>9. CASE UNCHANGED vars
    BY <1>1, <1>9 DEF vars, head_vars
  <1> QED
    BY <1>2, <1>3, <1>4, <1>5, <1>6, <1>7, <1>8, <1>9 DEF Next

(* When no call is waiting, every submitted batch has been returned by     *)
(* some call: answers differ, and there are as many as batches.            *)
LEMMA AllReturned ==
    ASSUME TypeInv, AccountInv, CallsAnswered, IsFiniteSet(Submitted),
           Pending = {}, EngineUp
    PROVE  \A b \in Submitted : Returned(b)
  <1> DEFINE f == [c \in Submitted |-> result[c].batch]
  <1>1. \A c \in Submitted : c \in Batches /\ status[c] = "done"
    BY DEF Submitted, Pending, EngineUp, TypeInv, TypeOK, HeadTypeOK, Fresh
  <1>2. \A c \in Submitted : result[c].batch \in Submitted
                             /\ result[c].batch # NoBatch
    BY <1>1, NoBatchAssumption DEF CallsAnswered
  <1>3. \A c, d \in Submitted : result[c].batch = result[d].batch => c = d
    BY <1>1, <1>2 DEF AccountInv, ReturnedOnce
  <1>4. f \in Injection(Submitted, Submitted)
    BY <1>2, <1>3 DEF Injection, IsInjective
  <1>5. f \in Surjection(Submitted, Submitted)
    BY <1>4, FS_Injection
  <1>6. \A b \in Submitted : \E c \in Submitted : f[c] = b
    BY <1>5 DEF Surjection
  <1> QED
    BY <1>1, <1>6 DEF Returned

LEMMA NothingDue ==
    ASSUME TypeInv, TriggerInv, OutputsFinished, \A b \in Submitted : Returned(b),
           NEW n \in Nodes
    PROVE  trig[n] = 0 /\ getters[n] = 0
  <1>1. \A b \in Submitted : path[b] = servers[b] /\ b \in Batches
    BY DEF OutputsFinished, IsOutput, Finished, Submitted
  <1>2. ASSUME NEW b \in Submitted, n \in WorkerServers(servers[b])
        PROVE  Positions(path[b], n) # {}
    <2>1. servers[b] \in Seq(Nodes)
      BY <1>1 DEF TypeInv, TypeOK, HeadTypeOK
    <2>2. PICK k \in 2..Len(servers[b]) : n = servers[b][k]
      BY <1>2 DEF WorkerServers
    <2>3. k \in DOMAIN path[b] /\ path[b][k] = n
      BY <1>1, <2>1, <2>2, LenProperties
    <2> QED
      BY <2>3 DEF Positions
  <1>3. Due(n) = {}
    BY <1>2 DEF Due
  <1>4. trig[n] \in Nat /\ getters[n] \in Nat /\ trig[n] + getters[n] =< 0
    BY <1>3, FS_EmptySet
       DEF TypeInv, TypeOK, NetworkTypeOK, ServiceTypeOK, TriggerInv, Matches
  <1> QED
    BY <1>4

LEMMA ResidueGone ==
    ASSUME TypeInv, PlacesInv, StageInv, TriggerInv, AccountInv, ResidueInv
    PROVE  NoResidue
  <1> SUFFICES ASSUME Pending = {}, EngineUp
               PROVE  /\ outq = <<>> /\ net = {} /\ headq = <<>>
                      /\ \A n \in Nodes : /\ trig[n] = 0 /\ getters[n] = 0
                                          /\ inq[n] = <<>> /\ lockq[n] = <<>>
                                          /\ slot[n] = NoBatch
    BY DEF NoResidue
  <1>1. \A b \in Submitted : Returned(b)
    BY AllReturned DEF ResidueInv, TriggerInv
  <1>2. \A b \in Batches : ~Held(b)
    BY <1>1, HeldSubmitted, HeldSomewhere DEF AccountInv, OneFate, TriggerInv
  <1>3. outq = <<>>
    <2> SUFFICES ASSUME outq # <<>> PROVE FALSE
      OBVIOUS
    <2> QED
      BY <1>2, OldestOutput, HeldSomewhere
  <1>4. net = {}
    BY <1>2 DEF Held, TypeInv, TypeOK, NetworkTypeOK, Push
  <1>5. headq = <<>>
    <2> SUFFICES ASSUME headq # <<>> PROVE FALSE
      OBVIOUS
    <2> QED
      BY <1>2, HeadTask, HeldSomewhere
  <1>6. ASSUME NEW n \in Nodes
        PROVE  inq[n] = <<>> /\ lockq[n] = <<>> /\ slot[n] = NoBatch
    <2>1. inq[n] \in Seq(Batches) /\ lockq[n] \in Seq(Batches)
      BY DEF TypeInv, TypeOK, ServiceTypeOK
    <2>2. inq[n] = <<>>
      <3> SUFFICES ASSUME inq[n] # <<>> PROVE FALSE
        OBVIOUS
      <3>1. Head(inq[n]) \in Batches /\ Occurs(inq[n], Head(inq[n]))
        BY <2>1, QueueGet DEF Occurs
      <3> QED
        BY <1>2, <3>1 DEF Held
    <2>3. lockq[n] = <<>>
      <3> SUFFICES ASSUME lockq[n] # <<>> PROVE FALSE
        OBVIOUS
      <3> QED
        BY <1>2, WorkerTask, HeldSomewhere
    <2>4. slot[n] = NoBatch
      BY <2>3 DEF ResidueInv, SlotsClear, TypeInv, LockHeld
    <2> QED
      BY <2>2, <2>3, <2>4
  <1> QED
    BY <1>1, <1>3, <1>4, <1>5, <1>6, NothingDue DEF ResidueInv

LEMMA NextResidue ==
    ASSUME HeadEndsEarly, OnlyHeadFirst, TypeInv, PlacesInv, StageInv,
           TriggerInv, AccountInv, ResidueInv, [Next]_vars
    PROVE  ResidueInv'
  BY NextOutputs, NextSlots, NextCalls DEF ResidueInv, TriggerInv

(* When the engine waits for nothing and none of its calls failed, the     *)
(* cluster is as empty as before the first batch: no output, push, task,   *)
(* trigger, waiting handler or tensor is left for the next batch to pick   *)
(* up, for any number of batches outstanding before, and under any fault.  *)
THEOREM NothingLeftBehind ==
    ASSUME HeadStartsFirst, HeadEndsEarly, OnlyHeadFirst
    PROVE  Spec => []NoResidue
  <1> DEFINE Inv == /\ TypeInv /\ PlacesInv /\ StageInv
                    /\ TriggerInv /\ AccountInv /\ ResidueInv
  <1>1. Inv /\ [Next]_vars => Inv'
    BY NextTypeInv, NextPlaces, NextStages, NextTriggers, NextAccounts,
       NextResidue
  <1>2. Init => Inv
    BY InitTypeInv, InitPlaces, InitStages, InitTriggers, InitAccounts,
       InitResidue
  <1>3. Inv => NoResidue
    BY ResidueGone
  <1> HIDE DEF Inv
  <1> QED
    BY <1>1, <1>2, <1>3, PTL DEF Spec

-----------------------------------------------------------------------------
(* One batch outstanding.                                                  *)
OneAtATime == MaxInFlight = 1

(* Whatever is under way belongs to a call that has not returned.          *)
OnlyPendingHeld == \A b \in Batches : Somewhere(b) => status[b] = "pending"

OnePending == \A b, c \in Pending : b = c

ResultInv == OnlyPendingHeld /\ OnePending /\ ResultIsOwn

LEMMA InitResult == Init => ResultInv
  BY DEF Init, ResultInv, OnlyPendingHeld, OnePending, ResultIsOwn, Pending,
         Somewhere, At, Occurs, OccursIn

(* The engine core submits only when nothing is outstanding.               *)
LEMMA NonePending ==
    ASSUME OneAtATime, OnePending, Cardinality(Pending) < MaxInFlight
    PROVE  \A b \in Batches : status[b] # "pending"
  <1> SUFFICES ASSUME NEW b \in Batches, status[b] = "pending"
               PROVE  FALSE
    OBVIOUS
  <1>1. Pending = {b}
    BY DEF OnePending, Pending
  <1>2. Cardinality(Pending) = 1
    BY <1>1, FS_Singleton
  <1> QED
    BY <1>2 DEF OneAtATime

(* The new call finds the output queue empty and waits.                    *)
LEMMA SubmitResult ==
    ASSUME OneAtATime, TypeInv, PlacesInv, AccountInv, ResultInv,
           NEW b \in Batches, Submit(b)
    PROVE  ResultInv' /\ outq = <<>>
  <1>1. /\ status[b] = "new" /\ Cardinality(Pending) < MaxInFlight
        /\ \/ /\ outq = <<>>
              /\ status' = [status EXCEPT ![b] = "pending"]
              /\ UNCHANGED result
           \/ outq # <<>>
    BY DEF Submit
  <1>2. \A c \in Batches : status[c] # "pending"
    BY <1>1, NonePending DEF ResultInv
  <1>3. outq = <<>>
    <2> SUFFICES ASSUME outq # <<>> PROVE FALSE
      OBVIOUS
    <2> QED
      BY <1>2, OldestOutput DEF ResultInv, OnlyPendingHeld
  <1>4. /\ result' = result /\ status'[b] = "pending"
        /\ \A c \in Batches \ {b} : status'[c] = status[c]
    BY <1>1, <1>3 DEF TypeInv, TypeOK, HeadTypeOK
  <1>5. OnlyPendingHeld'
    BY <1>2, <1>4, SubmitPlaces DEF ResultInv, OnlyPendingHeld
  <1>6. OnePending'
    BY <1>2, <1>4 DEF OnePending, Pending
  <1>7. ResultIsOwn'
    BY <1>4 DEF ResultInv, ResultIsOwn
  <1> QED
    BY <1>3, <1>5, <1>6, <1>7 DEF ResultInv

LEMMA SubmitEmptyResult ==
    ASSUME TypeInv, PlacesInv, ResultInv, NEW b \in Batches, SubmitEmpty(b)
    PROVE  ResultInv'
  <1>1. /\ status[b] = "new"
        /\ status'[b] = "done" /\ result'[b].batch = b
        /\ \A c \in Batches \ {b} : status'[c] = status[c]
                                    /\ result'[c] = result[c]
    BY DEF SubmitEmpty, Answer, TypeInv, TypeOK, HeadTypeOK
  <1>2. \A c \in Batches : Somewhere(c)' => Somewhere(c) /\ c # b
    BY <1>1, SubmitEmptyPlaces DEF NoneAppears, ResultInv, OnlyPendingHeld
  <1>3. OnlyPendingHeld'
    BY <1>1, <1>2 DEF ResultInv, OnlyPendingHeld
  <1>4. OnePending'
    BY <1>1 DEF ResultInv, OnePending, Pending
  <1>5. ResultIsOwn'
    BY <1>1 DEF ResultInv, ResultIsOwn
  <1> QED
    BY <1>3, <1>4, <1>5 DEF ResultInv

(* The output and the call are both about the one pending batch.           *)
LEMMA OwnOutput ==
    ASSUME TypeInv, PlacesInv, AccountInv, ResultInv, Collect
    PROVE  /\ Head(waiters) \in Batches /\ Head(outq) \in Result
           /\ Head(outq).batch = Head(waiters)
           /\ status[Head(waiters)] = "pending"
           /\ Answer(Head(waiters), Head(outq))
  BY OldestOutput, FrontWaiter
     DEF Collect, ResultInv, OnlyPendingHeld, OnePending, Pending

(* The output was the only place that batch was at.                        *)
LEMMA CollectResult ==
    ASSUME TypeInv, PlacesInv, AccountInv, ResultInv, Collect
    PROVE  ResultInv'
  <1>1. PICK b \in Batches : b = Head(waiters)
    BY OwnOutput
  <1>2. PICK r \in Result : r = Head(outq)
    BY OwnOutput
  <1>3. r.batch = b /\ status[b] = "pending" /\ Answer(b, r)
    BY <1>1, <1>2, OwnOutput
  <1>4. /\ status'[b] # "pending" /\ result'[b] = r
        /\ \A c \in Batches \ {b} : status'[c] = status[c]
                                    /\ result'[c] = result[c]
    BY <1>3 DEF Answer, TypeInv, TypeOK, HeadTypeOK
  <1>5. \A c \in Batches : Somewhere(c)' => Somewhere(c) /\ c # b
    <2>1. ~Held(b)'
      BY <1>2, <1>3, OldestOutput
         DEF Collect, Held, network_vars, service_vars
    <2> QED
      BY <2>1, HeldSomewhere, CollectPlaces DEF NoneAppears
  <1>6. OnlyPendingHeld'
    BY <1>4, <1>5 DEF ResultInv, OnlyPendingHeld
  <1>7. OnePending'
    BY <1>4 DEF ResultInv, OnePending, Pending
  <1>8. ResultIsOwn'
    BY <1>3, <1>4 DEF ResultInv, ResultIsOwn
  <1> QED
    BY <1>6, <1>7, <1>8 DEF ResultInv

(* Steps in which no call starts or returns.                               *)
LEMMA QuietResult ==
    ASSUME ResultInv, NoneAppears, UNCHANGED <<status, result>>
    PROVE  ResultInv'
  BY DEF ResultInv, OnlyPendingHeld, NoneAppears, OnePending, Pending,
         ResultIsOwn

LEMMA NextResult ==
    ASSUME OneAtATime, TypeInv, PlacesInv, AccountInv, ResultInv, [Next]_vars
    PROVE  ResultInv'
  <1>1. ASSUME NEW b \in Batches, Submit(b) \/ SubmitEmpty(b)
        PROVE  ResultInv'
    BY <1>1, SubmitResult, SubmitEmptyResult
  <1>2. CASE Collect
    BY <1>2, CollectResult
  <1>3. CASE HeadExecute \/ HeadDeliver \/ HeadOutputsNone \/ HeadAlone
    <2>1. UNCHANGED <<status, result>>
      BY <1>3 DEF HeadExecute, HeadDeliver, HeadOutputsNone, HeadAlone,
                  ReleaseHeadLock
    <2> QED
      BY <1>3, <2>1, QuietResult, HeadExecutePlaces, HeadDeliverPlaces,
         HeadOutputsNonePlaces, HeadAlonePlaces
  <1>4. CASE MessageStep
    <2>1. UNCHANGED <<status, result>>
      BY <1>4 DEF MessageStep, PushIntermediateTensors, PushSamplerOutput,
                  head_vars
    <2> QED
      BY <1>4, <2>1, QuietResult, PushIntermediateTensorsPlaces,
         PushSamplerOutputPlaces DEF MessageStep
  <1>5. ASSUME NEW n \in Nodes, NodeStep(n) \/ Join(n)
        PROVE  ResultInv'
    <2>1. UNCHANGED <<status, result>>
      BY <1>5 DEF NodeStep, Join, ConsumerTake, TriggerArrives, GetInput,
                  Deserialized, SetTensors, WorkerExecute, WorkerDeliver,
                  head_vars
    <2> QED
      BY <1>5, <2>1, QuietResult, ConsumerTakePlaces, TriggerPlaces,
         GetInputPlaces, DeserializedPlaces, WorkerDeliverPlaces DEF NodeStep
  <1>6. CASE FaultStep
    <2>1. UNCHANGED <<status, result>>
      BY <1>6 DEF FaultStep, HeadFails, LosePush, LoseTrigger, InputTimeout,
                  DeserializeFails, WorkerFails, Restart, head_vars
    <2> QED
      BY <1>6, <2>1, QuietResult, HeadFailsPlaces, LosePushPlaces,
         TriggerPlaces, DeserializeFailsPlaces, WorkerFailsPlaces, RestartPlaces
         DEF FaultStep
  <1>7. CASE UNCHANGED vars
    <2>1. /\ UNCHANGED <<status, result>>
          /\ UNCHANGED <<status, headq, outq, dq, net, inq, deser, lockq>>
      BY <1>7 DEF vars, head_vars, network_vars, service_vars
    <2> QED
      BY <2>1, QuietResult, StillPlaces
  <1> QED
    BY <1>1, <1>2, <1>3, <1>4, <1>5, <1>6, <1>7 DEF Next, HeadStep

(* With one batch outstanding every call of execute_model that returns,    *)
(* returns the output of its own batch, for any pipeline, any layer ranges *)
(* and any number of lost messages, timeouts and restarts.                 *)
THEOREM OwnResult ==
    ASSUME OneAtATime
    PROVE  Spec => []ResultIsOwn
  <1> DEFINE Inv == TypeInv /\ PlacesInv /\ AccountInv /\ ResultInv
  <1>1. Inv /\ [Next]_vars => Inv'
    BY NextTypeInv, NextPlaces, NextAccounts, NextResult
  <1>2. Init => Inv
    BY InitTypeInv, InitPlaces, InitAccounts, InitResult
  <1>3. Inv => ResultIsOwn
    BY DEF ResultInv
  <1> HIDE DEF Inv
  <1> QED
    BY <1>1, <1>2, <1>3, PTL DEF Spec

-----------------------------------------------------------------------------
(* The refinement.  The service's plan of a batch is its server list, its  *)
(* answer what a call that is done has returned: submitting, the forward   *)
(* passes and the return of a call are the service's steps, and everything *)
(* that travels in between, or is lost, is a stutter.                      *)
ServiceInv ==
    /\ TypeInv /\ PlacesInv /\ StageInv /\ TriggerInv /\ AccountInv
    /\ ResidueInv /\ ResultInv

LEMMA InitService == Init => Service!Init
  <1> SUFFICES ASSUME Init PROVE Service!Init
    OBVIOUS
  <1>1. Answered = [b \in Batches |-> NoBatch]
    BY DEF Init, Answered, Submitted
  <1> QED
    BY <1>1 DEF Init, Service!Init

(* A list without repetitions is no longer than there are nodes.           *)
LEMMA ListIsPlan ==
    ASSUME IsFiniteSet(Nodes), NEW list \in Seq(Nodes), list # <<>>,
           \A i, j \in DOMAIN list : list[i] = list[j] => i = j
    PROVE  list \in Service!Plans
  <1>1. /\ Len(list) \in Nat /\ Len(list) # 0
        /\ DOMAIN list = 1..Len(list) /\ list \in [1..Len(list) -> Nodes]
    BY LenProperties, EmptySeq
  <1>2. list \in Injection(1..Len(list), Nodes)
    BY <1>1 DEF Injection, IsInjective
  <1>3. Cardinality(1..Len(list)) =< Cardinality(Nodes)
    BY <1>2, FS_Injection
  <1>4. Cardinality(1..Len(list)) = Len(list)
    BY <1>1, FS_Interval
  <1>5. Cardinality(Nodes) \in Nat
    BY FS_CardinalityType
  <1>6. Len(list) \in 1..Cardinality(Nodes)
    BY <1>1, <1>3, <1>4, <1>5
  <1> DEFINE Lines == UNION {[1..k -> Nodes] : k \in 1..Cardinality(Nodes)}
  <1>7. list \in Lines
    BY <1>1, <1>6, Zenon
  <1>8. Service!Plans = {p \in Lines :
                            \A i, j \in DOMAIN p : p[i] = p[j] => i = j}
    BY Zenon DEF Service!Plans, Service!Cardinality, Cardinality
  <1> HIDE DEF Lines
  <1> QED
    BY <1>7, <1>8

LEMMA SubmitService ==
    ASSUME HeadStartsFirst, OneAtATime, IsFiniteSet(Nodes), ServiceInv,
           NEW b \in Batches, Submit(b)
    PROVE  Service!Submit(b)
  <1> USE DEF ServiceInv
  <1>1. /\ status[b] = "new" /\ EngineUp /\ Cardinality(Pending) < MaxInFlight
        /\ servers' = [servers EXCEPT ![b] = ServerList(node_info)]
        /\ UNCHANGED path
    BY DEF Submit, aux_vars
  <1>2. /\ servers \in [Batches -> Seq(Nodes)]
        /\ status \in [Batches -> {"new", "pending", "done", "failed"}]
    BY DEF TypeInv, TypeOK, HeadTypeOK
  <1>3. servers[b] = <<>>
    BY <1>1 DEF TypeInv, Fresh
  <1>4. /\ UNCHANGED result /\ status'[b] = "pending"
        /\ \A c \in Batches \ {b} : status'[c] = status[c]
    <2>1. outq = <<>>
      BY SubmitResult
    <2> QED
      BY <1>2, <2>1 DEF Submit
  <1>5. ServerList(node_info) \in Service!Plans
    BY NewList, ListIsPlan
  <1>6. \A c \in Batches : servers[c] # <<>> => Answered[c] # NoBatch
    <2> SUFFICES ASSUME NEW c \in Batches, servers[c] # <<>>
                 PROVE  Answered[c] # NoBatch
      OBVIOUS
    <2>1. status[c] # "new"
      BY DEF TypeInv, Fresh
    <2>2. status[c] # "pending"
      BY <1>1, NonePending DEF ResultInv
    <2>3. status[c] = "done"
      BY <1>1, <1>2, <2>1, <2>2 DEF EngineUp
    <2>4. result[c].batch = c /\ c \in Submitted
      BY <2>3 DEF ResultInv, ResultIsOwn, Submitted
    <2> QED
      BY <2>3, <2>4, NoBatchAssumption DEF Answered
  <1>7. Answered' = Answered
    <2>1. b \notin Submitted
      BY <1>3 DEF Submitted
    <2>2. \A c \in Batches \ {b} : c \in Submitted' <=> c \in Submitted
      BY <1>1, <1>2 DEF Submitted
    <2> QED
      BY <1>4, <2>1, <2>2 DEF Answered
  <1> QED
    BY <1>1, <1>3, <1>5, <1>6, <1>7 DEF Service!Submit

(* A forward pass is one stage of the plan.                                *)
LEMMA ReadyService ==
    ASSUME NEW b \in Batches, NEW n, Ready(b, n),
           path' = [path EXCEPT ![b] = Append(@, n)],
           UNCHANGED <<servers, status, result>>
    PROVE  Service!RunStage(b)
  <1>1. Answered' = Answered
    BY DEF Answered, Submitted
  <1> QED
    BY <1>1 DEF Ready, Service!RunStage

LEMMA HeadExecuteService ==
    ASSUME ServiceInv, HeadExecute
    PROVE  \E b \in Batches : Service!RunStage(b)
  <1> USE DEF ServiceInv
  <1>1. /\ headq # <<>> /\ head_phase = "idle" /\ headq \in Seq(Batches)
        /\ path' = [path EXCEPT ![Head(headq)] = Append(@, HeadNode)]
        /\ UNCHANGED <<servers, status, result>>
    BY DEF HeadExecute, TypeInv, TypeOK, HeadTypeOK
  <1>2. PICK b \in Batches : b = Head(headq) /\ Occurs(headq, b)
    BY <1>1, QueueGet DEF Occurs
  <1>3. servers[b] # <<>> /\ path[b] = <<>> /\ servers[b] \in Seq(Nodes)
    BY <1>1, <1>2 DEF StageInv, AtHead, TypeInv, TypeOK, HeadTypeOK
  <1>4. Ready(b, HeadNode)
    BY <1>3, LenProperties, EmptySeq DEF Ready, StageInv, Lists
  <1> QED
    BY <1>1, <1>2, <1>4, ReadyService

LEMMA WorkerExecuteService ==
    ASSUME ServiceInv, NEW n \in Nodes, WorkerExecute(n)
    PROVE  \E b \in Batches : Service!RunStage(b)
  <1> USE DEF ServiceInv
  <1>1. /\ lockq[n] # <<>> /\ phase[n] = "set" /\ lockq[n] \in Seq(Batches)
        /\ path' = [path EXCEPT ![Head(lockq[n])] = Append(@, n)]
        /\ UNCHANGED <<servers, status, result>>
    BY DEF WorkerExecute, head_vars, TypeInv, LockHeld, TypeOK, ServiceTypeOK
  <1>2. PICK b \in Batches : b = Head(lockq[n]) /\ Occurs(lockq[n], b)
    BY <1>1, QueueGet DEF Occurs
  <1>3. Ready(b, n)
    BY <1>1, <1>2 DEF StageInv, InLockq
  <1> QED
    BY <1>1, <1>2, <1>3, ReadyService

(* The call returns its own output, whose batch has passed every stage; a  *)
(* call that raises returns nothing.                                       *)
LEMMA CollectService ==
    ASSUME ServiceInv, Collect
    PROVE  \/ \E b \in Batches : Service!Return(b)
           \/ UNCHANGED Service!service
  <1> USE DEF ServiceInv
  <1>1. PICK b \in Batches : b = Head(waiters)
    BY OwnOutput
  <1>2. PICK r \in Result : r = Head(outq)
    BY OwnOutput
  <1>3. r.batch = b /\ status[b] = "pending" /\ Answer(b, r)
    BY <1>1, <1>2, OwnOutput
  <1>4. UNCHANGED <<servers, path>> /\ Submitted' = Submitted
    BY DEF Collect, aux_vars, Submitted
  <1>5. /\ result'[b] = r
        /\ status'[b] = IF r.out = "json" THEN "failed" ELSE "done"
        /\ \A c \in Batches \ {b} : status'[c] = status[c]
                                    /\ result'[c] = result[c]
    BY <1>3 DEF Answer, TypeInv, TypeOK, HeadTypeOK
  <1>6. Answered[b] = NoBatch
    BY <1>3 DEF Answered
  <1>7. CASE r.out = "json"
    <2>1. Answered' = Answered
      BY <1>3, <1>4, <1>5, <1>7 DEF Answered
    <2> QED
      BY <1>4, <2>1 DEF Service!service
  <1>8. CASE r.out # "json"
    <2>1. Occurs(waiters, b) /\ OccursIn(outq, b) /\ Somewhere(b)
      <3>1. outq \in Seq(Result) /\ outq # <<>> /\ waiters \in Seq(Batches)
            /\ waiters # <<>>
        BY DEF Collect, TypeInv, TypeOK, HeadTypeOK
      <3> QED
        BY <1>1, <1>2, <1>3, <3>1, QueueGet, OldestOutput DEF Occurs, OccursIn
    <2>2. b \in Submitted /\ path[b] = servers[b]
      BY <2>1, HeldSubmitted
         DEF TriggerInv, ResidueInv, OutputsFinished, IsOutput, Finished
    <2>3. Answered' = [Answered EXCEPT ![b] = b]
      <3>1. \A c \in Batches : Answered'[c] = IF c = b THEN b ELSE Answered[c]
        BY <1>3, <1>4, <1>5, <1>8, <2>2 DEF Answered
      <3> QED
        BY <3>1 DEF Answered
    <2>4. servers[b] # <<>>
      BY <2>2 DEF Submitted
    <2> QED
      BY <1>4, <1>6, <2>2, <2>3, <2>4 DEF Service!Return
  <1> QED
    BY <1>7, <1>8

LEMMA SubmitEmptyService ==
    ASSUME ServiceInv, NEW b \in Batches, SubmitEmpty(b)
    PROVE  UNCHANGED Service!service
  <1> USE DEF ServiceInv
  <1>1. status[b] = "new" /\ UNCHANGED <<servers, path>>
    BY DEF SubmitEmpty, aux_vars
  <1>2. /\ b \notin Submitted /\ Submitted' = Submitted
        /\ \A c \in Batches \ {b} : status'[c] = status[c]
                                    /\ result'[c] = result[c]
    BY <1>1 DEF SubmitEmpty, Answer, TypeInv, Fresh, Submitted, TypeOK,
                HeadTypeOK
  <1>3. Answered' = Answered
    BY <1>2 DEF Answered
  <1> QED
    BY <1>1, <1>3 DEF Service!service

LEMMA NextService ==
    ASSUME HeadStartsFirst, OneAtATime, IsFiniteSet(Nodes), ServiceInv,
           [Next]_vars
    PROVE  [Service!Next]_(Service!service)
  <1>1. ASSUME UNCHANGED <<servers, path, status, result>>
        PROVE  UNCHANGED Service!service
    BY <1>1 DEF Service!service, Answered, Submitted
  <1>2. ASSUME NEW b \in Batches, Submit(b) \/ SubmitEmpty(b)
        PROVE  [Service!Next]_(Service!service)
    BY <1>2, SubmitService, SubmitEmptyService DEF Service!Next
  <1>3. CASE Collect
    BY <1>3, CollectService DEF Service!Next
  <1>4. CASE HeadExecute
    BY <1>4, HeadExecuteService DEF Service!Next
  <1>5. CASE HeadDeliver \/ HeadOutputsNone \/ HeadAlone
    BY <1>1, <1>5 DEF HeadDeliver, HeadOutputsNone, HeadAlone, ReleaseHeadLock
  <1>6. CASE MessageStep
    BY <1>1, <1>6 DEF MessageStep, PushIntermediateTensors, PushSamplerOutput,
                      head_vars, aux_vars
  <1>7. ASSUME NEW n \in Nodes, NodeStep(n) \/ Join(n)
        PROVE  [Service!Next]_(Service!service)
    <2>1. CASE WorkerExecute(n)
      BY <2>1, WorkerExecuteService DEF Service!Next
    <2>2. CASE ~WorkerExecute(n)
      BY <1>1, <1>7, <2>2
         DEF NodeStep, Join, ConsumerTake, TriggerArrives, GetInput,
             Deserialized, SetTensors, WorkerDeliver, head_vars, aux_vars
    <2> QED
      BY <2>1, <2>2
  <1>8. CASE FaultStep
    BY <1>1, <1>8 DEF FaultStep, HeadFails, LosePush, LoseTrigger, InputTimeout,
                      DeserializeFails, WorkerFails, Restart, head_vars
  <1>9. CASE UNCHANGED vars
    BY <1>1, <1>9 DEF vars, head_vars, aux_vars
  <1> QED
    BY <1>2, <1>3, <1>4, <1>5, <1>6, <1>7, <1>8, <1>9 DEF Next, HeadStep

(* To an engine core that keeps one batch outstanding, the pipeline is     *)
(* BatchService: a batch passes the stages of a fixed list, each node of   *)
(* it once, and only then its call returns its output.  This holds for any *)
(* finite deployment with consecutive ranges (the head first, only the     *)
(* head at layer 0, and no head that serves "to the end" with workers      *)
(* behind it), whoever joins, and whatever is lost or crashes.             *)
THEOREM PipelineIsService ==
    ASSUME OneAtATime, IsFiniteSet(Nodes),
           HeadStartsFirst, HeadEndsEarly, OnlyHeadFirst
    PROVE  Spec => ImplementsService
  <1>1. ServiceInv /\ [Next]_vars => ServiceInv'
    BY NextTypeInv, NextPlaces, NextStages, NextTriggers, NextAccounts,
       NextResidue, NextResult DEF ServiceInv
  <1>2. Init => ServiceInv
    BY InitTypeInv, InitPlaces, InitStages, InitTriggers, InitAccounts,
       InitResidue, InitResult DEF ServiceInv
  <1>3. ServiceInv /\ [Next]_vars => [Service!Next]_(Service!service)
    BY NextService
  <1> QED
    BY <1>1, <1>2, <1>3, InitService, PTL
       DEF Spec, ImplementsService, Service!Spec
=============================================================================
