--------------------------- MODULE MolinkPipeline ---------------------------
(***************************************************************************)
(* One batch at a time or several, travelling through a MoLink v1 pipeline: *)
(* molinkv1/executor.py (MolinkExecutor), service.py (MolinkService),       *)
(* delivery.py (TensorDeliveryProcess) and worker.py (the slot a worker     *)
(* process keeps its input tensors in).                                    *)
(*                                                                         *)
(* The head turns a scheduled batch into one local task and one            *)
(* ExecuteWorkerStep trigger per worker, all at once, then waits on its    *)
(* output queue.  Data follows on its own: each stage hands tensors to a    *)
(* delivery process, which pushes them into the next stage's input queue,  *)
(* and the last stage pushes the result into the head's output queue.      *)
(* A trigger carries no batch: it takes whatever the input queue offers.   *)
(*                                                                         *)
(* Every queue is keyed by the scheduler output's virtual_engine, which     *)
(* nothing in v1 sets (getattr(..., 0)), so there is one of each per node. *)
(* A batch stands for all the data that travels for it: the pickled        *)
(* scheduler output, the tensors, and the server list taken at submission. *)
(***************************************************************************)
EXTENDS PipelineTopology, StageLayers

CONSTANTS
    Batches,        \* scheduler outputs, each submitted once
    Layouts,        \* layer ranges the nodes may be launched with
    MaxInFlight,    \* batches the engine core keeps outstanding
    QueueCap,       \* maxsize of a delivery queue (100 in the code)
    MaxFaults,      \* bound: how many faults a behaviour may contain
    NoBatch         \* an empty tensor slot

ASSUME LayoutsAssumption ==
    Layouts \subseteq [Nodes -> [start : Starts, end : Ends]]
ASSUME BoundsAssumption ==
    MaxInFlight \in Nat /\ QueueCap \in Nat /\ MaxFaults \in Nat
ASSUME NoBatchAssumption == NoBatch \notin Batches

VARIABLES
    layout,         \* each node's layer range, fixed when it is launched
    \* the head's executor
    status,         \* a batch: "new", "pending", "done" or "failed"
    result,         \* what execute_model returned for a batch
    servers,        \* the server list a batch carries (grpc_metadata)
    waiters,        \* coroutines in output_queue.get(), oldest first
    headq,          \* head tasks at the executor's pp_lock, holder first
    head_phase,     \* the holder: "idle" or, after its forward pass, "ran"
    outq,           \* the head's output_queue
    \* delivery and network
    dq,             \* each node's delivery_queue
    net,            \* pushes handed to gRPC and not yet answered
    trig,           \* ExecuteWorkerStep calls on their way to a node
    \* each node's service and worker process
    getters,        \* handlers in input_queue.get()
    inq,            \* the node's input_queue
    deser,          \* batches whose tensors are being deserialized
    lockq,          \* handlers at the service's pp_lock, holder first
    phase,          \* the lock holder: "idle", "set" or "ran"
    slot,           \* the worker's _molink_intermediate_tensors
    \* auxiliary
    path,           \* the nodes that ran a batch, in order
    lost,           \* batches whose data was dropped
    faults          \* faults so far

head_vars    == <<status, result, servers, waiters, headq, head_phase, outq>>
network_vars == <<dq, net, trig>>
service_vars == <<getters, inq, deser, lockq, phase, slot>>
aux_vars     == <<path, lost, faults>>
vars == <<topology_vars, layout, head_vars, network_vars, service_vars,
          aux_vars>>

Push   == [push : {"next", "head"}, to : Nodes, batch : Batches,
           out : {"tensors", "sampled"}]
Result == [batch : Batches,
           out : {"tensors", "sampled", "none", "json", "empty"}]
NoResult == [batch |-> NoBatch, out |-> "none"]

Pending == {b \in Batches : status[b] = "pending"}

Init ==
    /\ layout \in Layouts
    /\ TopologyInit(layout[HeadNode].start, layout[HeadNode].end)
    /\ status = [b \in Batches |-> "new"]
    /\ result = [b \in Batches |-> NoResult]
    /\ servers = [b \in Batches |-> <<>>]
    /\ waiters = <<>> /\ headq = <<>> /\ head_phase = "idle" /\ outq = <<>>
    /\ dq = [n \in Nodes |-> <<>>]
    /\ net = {}
    /\ trig = [n \in Nodes |-> 0]
    /\ getters = [n \in Nodes |-> 0]
    /\ inq = [n \in Nodes |-> <<>>]
    /\ deser = [n \in Nodes |-> {}]
    /\ lockq = [n \in Nodes |-> <<>>]
    /\ phase = [n \in Nodes |-> "idle"]
    /\ slot = [n \in Nodes |-> NoBatch]
    /\ path = [b \in Batches |-> <<>>]
    /\ lost = {}
    /\ faults = 0

-----------------------------------------------------------------------------
(* Parts of handlers.                                                      *)

(* The value get() returned, unpickled.  Only the single-node path encodes *)
(* with msgspec; cloudpickle cannot read JSON, so execute_model raises.    *)
Answer(b, r) ==
    /\ result' = [result EXCEPT ![b] = r]
    /\ status' = [status EXCEPT ![b] = IF r.out = "json" THEN "failed"
                                                         ELSE "done"]

(* deliver_to_next and deliver_to_head: put_nowait, which raises when the  *)
(* queue is full; the caller then drops the batch.                         *)
Deliver(n, item) ==
    IF Len(dq[n]) < QueueCap
    THEN dq' = [dq EXCEPT ![n] = Append(@, item)] /\ UNCHANGED lost
    ELSE lost' = lost \cup {item.batch} /\ UNCHANGED dq

ToNext(b, n) == [push |-> "next", to |-> n, batch |-> b, out |-> "tensors"]

Drop(b) == lost' = lost \cup {b} /\ UNCHANGED dq

Fault == faults < MaxFaults /\ faults' = faults + 1

-----------------------------------------------------------------------------
(* The head's executor.                                                    *)

EngineUp == \A b \in Batches : status[b] # "failed"

(* server_list[1:]: everyone but the first, which is taken for the head.   *)
WorkerServers_All(list) == {list[k] : k \in DOMAIN list}  \* mutant
WorkerServers(list) == {list[k] : k \in 2..Len(list)}

(* A woken get() that finds the queue empty again waits once more, behind  *)
(* the others.                                                             *)
Overtaken(q, k) ==
    [i \in DOMAIN q |-> IF i < k THEN q[i]
                        ELSE IF i < Len(q) THEN q[i + 1] ELSE q[k]]

(* _execute_model_async up to its first suspension.  The coroutine that    *)
(* finds the output queue non-empty takes from it at once, ahead of the    *)
(* waiters.  Every output has woken a waiter, so one of them, the last that*)
(* was woken, is overtaken; outputs that arrive before it runs wake more.  *)
Submit(b) ==
    /\ status[b] = "new"
    /\ EngineUp
    /\ Cardinality(Pending) < MaxInFlight
    /\ LET list == ServerList(node_info)
       IN  /\ servers' = [servers EXCEPT ![b] = list]
           /\ trig' = [n \in Nodes |-> IF n \in WorkerServers(list)
                                        THEN trig[n] + 1 ELSE trig[n]]
    /\ headq' = Append(headq, b)
    /\ \/ /\ outq = <<>>
          /\ waiters' = Append(waiters, b)
          /\ status' = [status EXCEPT ![b] = "pending"]
          /\ UNCHANGED <<outq, result>>
       \/ /\ outq # <<>>
          /\ Answer(b, Head(outq))
          /\ outq' = Tail(outq)
          /\ waiters' \in {waiters} \cup
                 {Overtaken(waiters, k) : k \in Len(outq)..Len(waiters)}
    /\ UNCHANGED <<topology_vars, layout, head_phase, dq, net, service_vars,
                   aux_vars>>

(* A scheduler output without tokens is answered on the spot.              *)
SubmitEmpty(b) ==
    /\ status[b] = "new"
    /\ EngineUp
    /\ Cardinality(Pending) < MaxInFlight
    /\ Answer(b, [batch |-> b, out |-> "empty"])
    /\ UNCHANGED <<topology_vars, layout, servers, waiters, headq, head_phase,
                   outq, network_vars, service_vars, aux_vars>>

(* The longest-waiting execute_model gets the oldest output, whatever      *)
(* batch that output belongs to.                                           *)
Collect ==
    /\ outq # <<>> /\ waiters # <<>>
    /\ Answer(Head(waiters), Head(outq))
    /\ outq' = Tail(outq)
    /\ waiters' = Tail(waiters)
    /\ UNCHANGED <<topology_vars, layout, servers, headq, head_phase,
                   network_vars, service_vars, aux_vars>>

(* The head's forward pass, under the executor's pp_lock.  A head that is  *)
(* not the first stage by its own bounds empties its tensor slot.          *)
HeadExecute ==
    /\ headq # <<>> /\ head_phase = "idle"
    /\ head_phase' = "ran"
    /\ path' = [path EXCEPT ![Head(headq)] = Append(@, HeadNode)]
    /\ slot' = IF IsFirstStage(layout[HeadNode]) THEN slot
               ELSE [slot EXCEPT ![HeadNode] = NoBatch]
    /\ UNCHANGED <<topology_vars, layout, status, result, servers, waiters,
                   headq, outq, network_vars, getters, inq, deser, lockq,
                   phase, lost, faults>>

ReleaseHeadLock ==
    /\ head_phase = "ran"
    /\ head_phase' = "idle"
    /\ headq' = Tail(headq)
    /\ UNCHANGED <<topology_vars, layout, status, result, servers, waiters,
                   net, trig, service_vars, path, faults>>

HeadDeliver_ToLast ==  \* mutant: the tensors skip to the last stage
    LET b == Head(headq)
    IN  /\ ReleaseHeadLock
        /\ Len(servers[b]) > 1
        /\ ~IsLastStage(layout[HeadNode])
        /\ Deliver(HeadNode, ToNext(b, servers[b][Len(servers[b])]))
        /\ UNCHANGED outq

(* More than one server: the tensors go to index 1 of the list.            *)
HeadDeliver ==
    LET b == Head(headq)
    IN  /\ ReleaseHeadLock
        /\ Len(servers[b]) > 1
        /\ ~IsLastStage(layout[HeadNode])
        /\ Deliver(HeadNode, ToNext(b, servers[b][2]))
        /\ UNCHANGED outq

HeadOutputsNone_NoReturn ==  \* mutant: and then falls through to delivery
    LET b == Head(headq)
    IN  /\ ReleaseHeadLock
        /\ Len(servers[b]) > 1
        /\ IsLastStage(layout[HeadNode])
        /\ outq' = Append(outq, [batch |-> b, out |-> "none"])
        /\ Deliver(HeadNode, ToNext(b, servers[b][2]))

(* A head that is the last stage by its own bounds produces no tensors:    *)
(* its worker returns None, which goes straight to the output queue,       *)
(* although every worker has been triggered.                               *)
HeadOutputsNone ==
    LET b == Head(headq)
    IN  /\ ReleaseHeadLock
        /\ Len(servers[b]) > 1
        /\ IsLastStage(layout[HeadNode])
        /\ outq' = Append(outq, [batch |-> b, out |-> "none"])
        /\ UNCHANGED <<dq, lost>>

(* A head alone in its list JSON-encodes the output.  None encodes; tensors*)
(* do not, and that exception is logged and swallowed.                     *)
HeadAlone ==
    LET b == Head(headq)
    IN  /\ ReleaseHeadLock
        /\ Len(servers[b]) = 1
        /\ IF IsLastStage(layout[HeadNode])
           THEN /\ outq' = Append(outq, [batch |-> b, out |-> "json"])
                /\ UNCHANGED <<dq, lost>>
           ELSE Drop(b) /\ UNCHANGED outq

(* The forward pass raises: the error is logged and swallowed as well.     *)
HeadFails ==
    /\ Fault
    /\ headq # <<>> /\ head_phase = "idle"
    /\ headq' = Tail(headq)
    /\ Drop(Head(headq))
    /\ UNCHANGED <<topology_vars, layout, status, result, servers, waiters,
                   head_phase, outq, net, trig, service_vars, path>>

-----------------------------------------------------------------------------
(* Delivery processes and the network.                                     *)

(* consumer_loop takes items in order but gives each one a task of its own,*)
(* so pushes complete in any order.                                        *)
ConsumerTake(n) ==
    /\ dq[n] # <<>>
    /\ net' = net \cup {Head(dq[n])}
    /\ dq' = [dq EXCEPT ![n] = Tail(@)]
    /\ UNCHANGED <<topology_vars, layout, head_vars, trig, service_vars,
                   aux_vars>>

(* The PushIntermediateTensors handler.                                    *)
PushIntermediateTensors(m) ==
    /\ m \in net /\ m.push = "next"
    /\ net' = net \ {m}
    /\ inq' = [inq EXCEPT ![m.to] = Append(@, m.batch)]
    /\ UNCHANGED <<topology_vars, layout, head_vars, dq, trig, getters, deser,
                   lockq, phase, slot, aux_vars>>

(* The PushSamplerOutput handler.                                          *)
PushSamplerOutput(m) ==
    /\ m \in net /\ m.push = "head"
    /\ net' = net \ {m}
    /\ outq' = Append(outq, [batch |-> m.batch, out |-> m.out])
    /\ UNCHANGED <<topology_vars, layout, status, result, servers, waiters,
                   headq, head_phase, dq, trig, service_vars, aux_vars>>

LosePush_Resend(m) ==  \* mutant: only the response is lost, and it resends
    /\ Fault
    /\ m \in net /\ m.push = "next"
    /\ inq' = [inq EXCEPT ![m.to] = Append(@, m.batch)]
    /\ UNCHANGED <<topology_vars, layout, head_vars, network_vars, getters,
                   deser, lockq, phase, slot, path, lost>>

(* A push that fails before its handler ran; the delivery process logs it. *)
LosePush(m) ==
    /\ Fault
    /\ m \in net
    /\ net' = net \ {m}
    /\ Drop(m.batch)
    /\ UNCHANGED <<topology_vars, layout, head_vars, trig, service_vars, path>>

TriggerArrives_NoWait(n) ==  \* mutant: get_nowait instead of get
    /\ trig[n] > 0
    /\ trig' = [trig EXCEPT ![n] = @ - 1]
    /\ getters' = [getters EXCEPT ![n] = IF inq[n] = <<>> THEN @ ELSE @ + 1]
    /\ UNCHANGED <<topology_vars, layout, head_vars, dq, net, inq, deser,
                   lockq, phase, slot, aux_vars>>

(* The ExecuteWorkerStep handler starts and waits for input.               *)
TriggerArrives(n) ==
    /\ trig[n] > 0
    /\ trig' = [trig EXCEPT ![n] = @ - 1]
    /\ getters' = [getters EXCEPT ![n] = @ + 1]
    /\ UNCHANGED <<topology_vars, layout, head_vars, dq, net, inq, deser,
                   lockq, phase, slot, aux_vars>>

(* The head creates a task per trigger and never looks at its outcome.     *)
LoseTrigger(n) ==
    /\ Fault
    /\ trig[n] > 0
    /\ trig' = [trig EXCEPT ![n] = @ - 1]
    /\ UNCHANGED <<topology_vars, layout, head_vars, dq, net, service_vars,
                   path, lost>>

-----------------------------------------------------------------------------
(* ExecuteWorkerStep on a node.                                            *)

(* input_queue.get() returns.                                              *)
GetInput(n) ==
    /\ getters[n] > 0 /\ inq[n] # <<>>
    /\ getters' = [getters EXCEPT ![n] = @ - 1]
    /\ deser' = [deser EXCEPT ![n] = @ \cup {Head(inq[n])}]
    /\ inq' = [inq EXCEPT ![n] = Tail(@)]
    /\ UNCHANGED <<topology_vars, layout, head_vars, network_vars, lockq,
                   phase, slot, aux_vars>>

(* wait_for gives up after ten seconds on an empty queue.                  *)
InputTimeout(n) ==
    /\ Fault
    /\ getters[n] > 0 /\ inq[n] = <<>>
    /\ getters' = [getters EXCEPT ![n] = @ - 1]
    /\ UNCHANGED <<topology_vars, layout, head_vars, network_vars, inq, deser,
                   lockq, phase, slot, path, lost>>

Deserialized_SetsSlot(n, b) ==  \* mutant: tensors are set outside the lock
    /\ b \in deser[n]
    /\ deser' = [deser EXCEPT ![n] = @ \ {b}]
    /\ lockq' = [lockq EXCEPT ![n] = Append(@, b)]
    /\ slot' = [slot EXCEPT ![n] = b]
    /\ UNCHANGED <<topology_vars, layout, head_vars, network_vars, getters,
                   inq, phase, aux_vars>>

(* asyncio.to_thread returns; the handler queues for the service's pp_lock.*)
Deserialized(n, b) ==
    /\ b \in deser[n]
    /\ deser' = [deser EXCEPT ![n] = @ \ {b}]
    /\ lockq' = [lockq EXCEPT ![n] = Append(@, b)]
    /\ UNCHANGED <<topology_vars, layout, head_vars, network_vars, getters,
                   inq, phase, slot, aux_vars>>

(* torch.load raises in the thread; the handler answers res = 0.           *)
DeserializeFails(n, b) ==
    /\ Fault
    /\ b \in deser[n]
    /\ deser' = [deser EXCEPT ![n] = @ \ {b}]
    /\ Drop(b)
    /\ UNCHANGED <<topology_vars, layout, head_vars, net, trig, getters, inq,
                   lockq, phase, slot, path>>

(* _driver_exec_model stores the tensors in the worker process, then       *)
(* starts the forward pass there.                                          *)
SetTensors(n) ==
    /\ lockq[n] # <<>> /\ phase[n] = "idle"
    /\ slot' = [slot EXCEPT ![n] = Head(lockq[n])]
    /\ phase' = [phase EXCEPT ![n] = "set"]
    /\ UNCHANGED <<topology_vars, layout, head_vars, network_vars, getters,
                   inq, deser, lockq, aux_vars>>

(* Worker.execute_model gets and clears the slot unless it believes to be  *)
(* the first stage.                                                        *)
TakeTensors_Keep(n) == slot  \* mutant: the slot is read but not cleared
TakeTensors(n) ==
    IF IsFirstStage(layout[n]) THEN slot ELSE [slot EXCEPT ![n] = NoBatch]

WorkerExecute(n) ==
    /\ phase[n] = "set"
    /\ slot' = TakeTensors(n)
    /\ phase' = [phase EXCEPT ![n] = "ran"]
    /\ path' = [path EXCEPT ![Head(lockq[n])] = Append(@, n)]
    /\ UNCHANGED <<topology_vars, layout, head_vars, network_vars, getters,
                   inq, deser, lockq, lost, faults>>

(* A last stage's forward pass returns None and execute_worker_step calls  *)
(* sample_tokens for it; another stage's returns its tensors.              *)
WorkerOutput_NoSampling(n) ==  \* mutant: sample_tokens is not called
    IF IsLastStage(layout[n]) THEN "none" ELSE "tensors"
WorkerOutput(n) == IF IsLastStage(layout[n]) THEN "sampled" ELSE "tensors"

(* The list the batch carries, not the topology of the moment.             *)
Route_Current(b) == ServerList(node_info)  \* mutant
Route(b) == servers[b]

MyIndex(b, n) == CHOOSE k \in DOMAIN Route(b) : Route(b)[k] = n

(* The rest of execute_worker_step, which also frees the lock.  Position   *)
(* in the batch's list decides where the output goes, the node's own bounds*)
(* decide what it is: a sampled output has no tensors to copy to the CPU,  *)
(* so passing it on raises.                                                *)
WorkerDeliver(n) ==
    LET b == Head(lockq[n])
        k == MyIndex(b, n)
    IN  /\ phase[n] = "ran"
        /\ phase' = [phase EXCEPT ![n] = "idle"]
        /\ lockq' = [lockq EXCEPT ![n] = Tail(@)]
        /\ IF k = Len(Route(b))
           THEN Deliver(n, [push |-> "head", to |-> HeadNode, batch |-> b,
                            out |-> WorkerOutput(n)])
           ELSE IF IsLastStage(layout[n])
                THEN Drop(b)
                ELSE Deliver(n, ToNext(b, Route(b)[k + 1]))
        /\ UNCHANGED <<topology_vars, layout, head_vars, net, trig, getters,
                       inq, deser, slot, path, faults>>

(* The forward pass raises; the handler answers res = 0 to nobody.         *)
WorkerFails(n) ==
    /\ Fault
    /\ phase[n] = "set"
    /\ slot' = TakeTensors(n)
    /\ phase' = [phase EXCEPT ![n] = "idle"]
    /\ lockq' = [lockq EXCEPT ![n] = Tail(@)]
    /\ Drop(Head(lockq[n]))
    /\ UNCHANGED <<topology_vars, layout, head_vars, net, trig, getters, inq,
                   deser, path>>

-----------------------------------------------------------------------------
(* A worker that has been launched joins the head's topology, at any time. *)
Join(n) ==
    /\ n \notin Members(node_info)
    /\ JoinPipeline(n, layout[n].start, layout[n].end)
    /\ UNCHANGED <<layout, head_vars, network_vars, service_vars, aux_vars>>

(* A worker process dies and is launched again at the same address.  The   *)
(* service starts with empty queues and the head is not told: the node is  *)
(* still a member, and its joining again changes nothing.                  *)
HeldBy(n) == {b \in Batches : \/ b \in deser[n]
                              \/ \E i \in DOMAIN inq[n] : inq[n][i] = b
                              \/ \E i \in DOMAIN lockq[n] : lockq[n][i] = b
                              \/ \E i \in DOMAIN dq[n] : dq[n][i].batch = b}

Restart(n) ==
    /\ Fault
    /\ n # HeadNode /\ n \in Members(node_info)
    /\ lost' = lost \cup HeldBy(n)
    /\ getters' = [getters EXCEPT ![n] = 0]
    /\ inq' = [inq EXCEPT ![n] = <<>>]
    /\ deser' = [deser EXCEPT ![n] = {}]
    /\ lockq' = [lockq EXCEPT ![n] = <<>>]
    /\ phase' = [phase EXCEPT ![n] = "idle"]
    /\ slot' = [slot EXCEPT ![n] = NoBatch]
    /\ dq' = [dq EXCEPT ![n] = <<>>]
    /\ UNCHANGED <<topology_vars, layout, head_vars, net, trig, path>>

HeadStep ==
    \/ Collect \/ HeadExecute \/ HeadDeliver \/ HeadOutputsNone \/ HeadAlone

MessageStep ==
    \E m \in net : PushIntermediateTensors(m) \/ PushSamplerOutput(m)

NodeStep(n) ==
    \/ ConsumerTake(n) \/ TriggerArrives(n) \/ GetInput(n)
    \/ \E b \in Batches : Deserialized(n, b)
    \/ SetTensors(n) \/ WorkerExecute(n) \/ WorkerDeliver(n)

FaultStep ==
    \/ HeadFails
    \/ \E m \in net : LosePush(m)
    \/ \E n \in Nodes :
          \/ LoseTrigger(n) \/ InputTimeout(n) \/ WorkerFails(n) \/ Restart(n)
          \/ \E b \in Batches : DeserializeFails(n, b)

Next ==
    \/ \E b \in Batches : Submit(b) \/ SubmitEmpty(b)
    \/ HeadStep
    \/ MessageStep
    \/ \E n \in Nodes : NodeStep(n) \/ Join(n)
    \/ FaultStep

Spec == Init /\ [][Next]_vars

(* The event loops run every ready callback, the delivery processes and    *)
(* worker processes keep running, and gRPC calls that no fault hits        *)
(* complete.  Nothing makes the engine submit or a worker join.            *)
Fairness ==
    /\ WF_vars(HeadStep)
    /\ WF_vars(MessageStep)
    /\ \A n \in Nodes : WF_vars(NodeStep(n))

FairSpec == Spec /\ Fairness

-----------------------------------------------------------------------------
HeadTypeOK ==
    /\ status \in [Batches -> {"new", "pending", "done", "failed"}]
    /\ result \in [Batches -> Result \cup {NoResult}]
    /\ servers \in [Batches -> Seq(Nodes)]
    /\ waiters \in Seq(Batches) /\ headq \in Seq(Batches)
    /\ head_phase \in {"idle", "ran"}
    /\ outq \in Seq(Result)

NetworkTypeOK ==
    /\ dq \in [Nodes -> Seq(Push)]
    /\ net \subseteq Push
    /\ trig \in [Nodes -> Nat]

ServiceTypeOK ==
    /\ getters \in [Nodes -> Nat]
    /\ inq \in [Nodes -> Seq(Batches)]
    /\ deser \in [Nodes -> SUBSET Batches]
    /\ lockq \in [Nodes -> Seq(Batches)]
    /\ phase \in [Nodes -> {"idle", "set", "ran"}]
    /\ slot \in [Nodes -> Batches \cup {NoBatch}]

AuxTypeOK ==
    /\ path \in [Batches -> Seq(Nodes)]
    /\ lost \subseteq Batches
    /\ faults \in Nat

(* Every variable has its type: in particular every push is addressed to   *)
(* a node and every queue holds batches only.                              *)
TypeOK ==
    /\ TopologyTypeOK /\ layout \in Layouts
    /\ HeadTypeOK /\ NetworkTypeOK /\ ServiceTypeOK /\ AuxTypeOK

Submitted == {b \in Batches : servers[b] # <<>>}

Positions(q, b) == {i \in DOMAIN q : q[i] = b}

(* Every place of the cluster that holds the data of b.                    *)
Copies(b) ==
    {<<"headq", i>> : i \in Positions(headq, b)}
    \cup {<<"outq", i>> : i \in {j \in DOMAIN outq : outq[j].batch = b}}
    \cup {<<"net", m>> : m \in {p \in net : p.batch = b}}
    \cup UNION { {<<"dq", n, i>> : i \in {j \in DOMAIN dq[n] :
                                            dq[n][j].batch = b}}
                 \cup {<<"inq", n, i>> : i \in Positions(inq[n], b)}
                 \cup {<<"deser", n>> : c \in deser[n] \cap {b}}
                 \cup {<<"lockq", n, i>> : i \in Positions(lockq[n], b)}
                 : n \in Nodes }

(* A submitted batch is in exactly one place: one queue, one handler or    *)
(* one message, or else it was answered to one execute_model, or dropped   *)
(* at a place where the code logs an error.  The hand-offs between head    *)
(* task, delivery process, gRPC and handlers neither lose nor double it.   *)
ExactlyOnePlace ==
    \A b \in Submitted :
        Cardinality(Copies(b))
        + Cardinality({c \in Batches : result[c].batch = b})
        + Cardinality(lost \cap {b}) = 1

(* A batch passes the stages of the list it was submitted with, in order   *)
(* and once each, whoever joins meanwhile and whatever is lost.            *)
StagesInOrder ==
    \A b \in Batches :
        /\ Len(path[b]) =< Len(servers[b])
        /\ \A k \in DOMAIN path[b] : path[b][k] = servers[b][k]

(* Batches that n has been triggered for and has not taken from its input  *)
(* queue yet.                                                              *)
Due(n) == {b \in Submitted :
             /\ n \in WorkerServers(servers[b])
             /\ b \notin deser[n]
             /\ Positions(lockq[n], b) = {}
             /\ Positions(path[b], n) = {}}

(* Triggers carry no batch, so a stage runs a batch only if the count of   *)
(* triggers on the way or waiting never falls short: a node never waits    *)
(* for more batches than are coming, and without faults for no fewer.      *)
TriggersMatchBatches ==
    \A n \in Nodes :
        /\ trig[n] + getters[n] =< Cardinality(Due(n))
        /\ faults = 0 => trig[n] + getters[n] = Cardinality(Due(n))

(* The tensors in a worker's single slot are those of the batch whose      *)
(* forward pass is about to read them.                                     *)
SlotHoldsRunningBatch ==
    \A n \in Nodes : phase[n] = "set" => slot[n] = Head(lockq[n])

(* execute_model returns the output of the batch it was called for.        *)
ResultIsOwn == \A b \in Batches : status[b] = "done" => result[b].batch = b

(* Whenever the engine waits for nothing and nothing went wrong, nothing   *)
(* is left behind that the next batch could pick up.                       *)
NoResidue ==
    (Pending = {} /\ faults = 0 /\ EngineUp) =>
        /\ outq = <<>> /\ net = {} /\ headq = <<>>
        /\ \A n \in Nodes : /\ trig[n] = 0 /\ getters[n] = 0
                            /\ inq[n] = <<>> /\ lockq[n] = <<>>
                            /\ slot[n] = NoBatch

(* Every batch submitted to a formed pipeline is answered.                 *)
PipelineFormed == \A b \in Submitted : Len(servers[b]) > 1

EveryBatchAnswered ==
    []PipelineFormed =>
        \A b \in Batches : status[b] = "pending" ~> status[b] = "done"

-----------------------------------------------------------------------------
(* With one batch outstanding the pipeline implements BatchService: the    *)
(* server list is the plan, and execute_model returns the right output     *)
(* only after every stage of the plan ran.                                 *)
Answered == [b \in Batches |->
    IF b \in Submitted /\ status[b] = "done" THEN result[b].batch ELSE NoBatch]

Service == INSTANCE BatchService WITH plan <- servers, answer <- Answered

ImplementsService == Service!Spec

-----------------------------------------------------------------------------
(* Statements of the code's comments and documentation.                    *)

(* service.py:224: "The worker should already have received intermediate    *)
(* tensors via PushIntermediateTensors before this is called."             *)
TensorsPrecedeTrigger ==
    [][\A n \in Nodes : getters[n]' > getters[n] => inq[n] # <<>>]_vars

(* README.md:96: "For single-node deployment, MoLink gracefully falls back *)
(* to standard vLLM operation": no call of execute_model fails.            *)
SingleNodeWorks == EngineUp

(* update_molink_stage_info, which compares the end layer with the model's *)
(* layer count, "should be called once the model's num_hidden_layers is    *)
(* known" (parallel_state.py:164), so that a last range with an explicit   *)
(* end layer samples too: no execute_model returns bare tensors.           *)
LastStageSamples ==
    \A b \in Batches : status[b] = "done" => result[b].out # "tensors"
=============================================================================
