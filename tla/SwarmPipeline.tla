---------------------------- MODULE SwarmPipeline ---------------------------
(***************************************************************************)
(* How v0 sends a micro-batch through the swarm.  The head takes the list  *)
(* of servers it knows at that moment, computes its own layers, and        *)
(* triggers every other server; each waits for the tensors of its          *)
(* predecessor in the list, computes, and pushes them on; the last one     *)
(* pushes the result to the head (executor/mp_distributed_executor.py,     *)
(* comm/comm_handler.py).  A trigger says only which micro-batch it is     *)
(* for, and nothing times out.                                             *)
(*                                                                         *)
(* Servers are 1..N in the order of their layers, 1 is the head.  A server *)
(* computes under its pp_lock: that is one action.  The delivery process   *)
(* sends every push as a task of its own, so messages have no order.       *)
(***************************************************************************)
EXTENDS Integers, Sequences, FiniteSets, SequencesExt

CONSTANTS
    N,              \* servers, as many as there are stages
    Engines,        \* virtual engines, one per micro-batch
    MaxRounds,      \* bound: steps of the engine
    StartsComplete, \* does the head know all servers from the start?
    MayUnlist,      \* may the list in the DHT lose a server?
    MayLose         \* may a call fail, or the work of a server?

Servers == 1..N
Head1 == 1

VARIABLES
    known,      \* servers in pipeline_info or node_info_dict of the head
    preset,     \* preset_server_list, the servers of stub_list
    count,      \* steps begun
    step,       \* of each virtual engine, the step it waits for, or 0
    toRun,      \* tasks executing_head_server
    net,        \* calls under way
    triggers,   \* at each server, calls of ExecutingWorkerStep waiting for input
    input,      \* at each server, input_queue
    output,     \* at the head, output_queue
    taken,      \* the step that took a result last, and that result
    strayed     \* did a step run past the end of a list? (history)

swarm_vars ==
    <<known, preset, count, step, toRun, net, triggers, input, output, taken, strayed>>

-----------------------------------------------------------------------------
SwarmInit ==
    /\ known = IF StartsComplete THEN Servers ELSE {Head1}
    /\ preset = <<>>
    /\ count = 0
    /\ step = [v \in Engines |-> 0]
    /\ toRun = {} /\ net = {}
    /\ triggers = [s \in Servers |-> [v \in Engines |-> 0]]
    /\ input = [s \in Servers |-> [v \in Engines |-> <<>>]]
    /\ output = [v \in Engines |-> <<>>]
    /\ taken = [asked |-> 0]
    /\ strayed = FALSE

(* JoinPipeline, or a look at the DHT that finds one server more.          *)
Join(s) ==
    /\ s \notin known
    /\ known' = known \union {s}
    /\ UNCHANGED <<preset, count, step, toRun, net, triggers, input, output,
                   taken, strayed>>

(* A look at the DHT after the list there was overwritten with an old one. *)
Unlist(s) ==
    /\ MayUnlist
    /\ s \in known
    /\ known' = known \ {s}
    /\ UNCHANGED <<preset, count, step, toRun, net, triggers, input, output,
                   taken, strayed>>

(* get_grpc_metadata: the servers by their first layer.                    *)
Rank(s) == Cardinality({t \in known : t <= s})
ServerList == [k \in 1..Cardinality(known) |-> CHOOSE s \in known : Rank(s) = k]
Others(list) == SubSeq(list, 2, Len(list))

(* The loop over preset_server_list stops at the first difference; if the  *)
(* new list is a beginning of the old one there is none, and it runs past  *)
(* the end of the new one.                                                 *)
PastTheEnd(old, new) == IsStrictPrefix(new, old)

(* _driver_execute_model_async: the task of the head is created first; the *)
(* stubs follow the list; every other server is triggered.  An IndexError  *)
(* ends the step: it returns None, and the engine goes on to the next.     *)
StartStep(v) ==
    /\ step[v] = 0
    /\ count < MaxRounds
    /\ count' = count + 1
    /\ toRun' = toRun \union {[ve |-> v, step |-> count + 1, list |-> ServerList]}
    /\ LET others == Others(ServerList)
       IN  IF PastTheEnd(preset, others)
           THEN strayed' = TRUE /\ UNCHANGED <<preset, step, net>>
           ELSE /\ preset' = others
                /\ step' = [step EXCEPT ![v] = count + 1]
                /\ net' = net \union {[kind |-> "trigger", to |-> s, ve |-> v,
                                       step |-> count + 1] : s \in ToSet(others)}
                /\ UNCHANGED strayed
    /\ UNCHANGED <<known, triggers, input, output, taken>>

(* executing_head_server: to the second of the list, or, if there is none, *)
(* what the head has computed is the result.                               *)
SecondOf_Last(list) == list[Len(list)]  \* mutant: the last of the list
SecondOf(list) == list[2]

RunHead(t) ==
    /\ t \in toRun
    /\ toRun' = toRun \ {t}
    /\ IF Len(t.list) <= 1
       THEN /\ output' = [output EXCEPT ![t.ve] =
                   Append(@, [step |-> t.step, path |-> <<Head1>>, list |-> t.list])]
            /\ UNCHANGED net
       ELSE /\ net' = net \union {[kind |-> "push", to |-> SecondOf(t.list), ve |-> t.ve,
                    item |-> [step |-> t.step, path |-> <<Head1>>, list |-> t.list]]}
            /\ UNCHANGED output
    /\ UNCHANGED <<known, preset, count, step, triggers, input, taken, strayed>>

(* The next in the list after this server, if any.                         *)
NextServer_Skips(list, s) ==    \* mutant: the position is off by one
    LET after == SelectSeq(list, LAMBDA x : x > s)
    IN  IF Len(after) < 2 THEN {} ELSE {after[2]}
NextServer(list, s) ==
    LET at == {k \in DOMAIN list : list[k] = s}
    IN  {list[k + 1] : k \in {j \in at : j < Len(list)}}

(* ExecutingWorkerStep: the first input of the virtual engine, whatever    *)
(* step it is of; a server that is not the last stage and has no next      *)
(* server in the list keeps what it has computed.                          *)
Onward(s, v, item) ==
    LET done == [item EXCEPT !.path = Append(@, s)]
    IN  IF s = N THEN {[kind |-> "result", to |-> Head1, ve |-> v, item |-> done]}
        ELSE {[kind |-> "push", to |-> n, ve |-> v, item |-> done] :
                  n \in NextServer(item.list, s)}
Work(s, v) ==
    /\ triggers[s][v] > 0
    /\ input[s][v] # <<>>
    /\ triggers' = [triggers EXCEPT ![s][v] = @ - 1]
    /\ input' = [input EXCEPT ![s][v] = Tail(@)]
    /\ net' = net \union Onward(s, v, Head(input[s][v]))
    /\ UNCHANGED <<known, preset, count, step, toRun, output, taken, strayed>>

(* A call arrives: PushIntermediateTensors, ExecutingWorkerStep,           *)
(* PushSamplerOutput.                                                      *)
Delivered_Kept(m) == {}         \* mutant: a call may arrive again
Delivered(m) == {m}

ReceivePush(m) ==
    /\ m.kind = "push"
    /\ input' = [input EXCEPT ![m.to][m.ve] = Append(@, m.item)]
    /\ net' = net \ Delivered(m)
    /\ UNCHANGED <<known, preset, count, step, toRun, triggers, output, taken, strayed>>

ReceiveTrigger(m) ==
    /\ m.kind = "trigger"
    /\ triggers' = [triggers EXCEPT ![m.to][m.ve] = @ + 1]
    /\ net' = net \ Delivered(m)
    /\ UNCHANGED <<known, preset, count, step, toRun, input, output, taken, strayed>>

ReceiveResult(m) ==
    /\ m.kind = "result"
    /\ output' = [output EXCEPT ![m.ve] = Append(@, m.item)]
    /\ net' = net \ Delivered(m)
    /\ UNCHANGED <<known, preset, count, step, toRun, triggers, input, taken, strayed>>

(* The call, or what it sets off, raises; the exception is printed.        *)
Lose(m) ==
    /\ MayLose
    /\ net' = net \ {m}
    /\ UNCHANGED <<known, preset, count, step, toRun, triggers, input, output,
                   taken, strayed>>

(* The step awaits output_queue[virtual_engine].                           *)
TakeResult(v) ==
    /\ step[v] # 0
    /\ output[v] # <<>>
    /\ taken' = [asked |-> step[v], result |-> Head(output[v])]
    /\ output' = [output EXCEPT ![v] = Tail(@)]
    /\ step' = [step EXCEPT ![v] = 0]
    /\ UNCHANGED <<known, preset, count, toRun, net, triggers, input, strayed>>

Working ==
    \/ \E t \in toRun : RunHead(t)
    \/ \E m \in net : ReceivePush(m) \/ ReceiveTrigger(m) \/ ReceiveResult(m)
    \/ \E s \in Servers, v \in Engines : Work(s, v)
    \/ \E v \in Engines : TakeResult(v)

SwarmNext ==
    \/ \E s \in Servers : Join(s) \/ Unlist(s)
    \/ \E v \in Engines : StartStep(v)
    \/ \E m \in net : Lose(m)
    \/ Working

SwarmSpec == SwarmInit /\ [][SwarmNext]_swarm_vars

(* Servers work and calls arrive.  There are finitely many steps, so all   *)
(* of them are served.                                                     *)
FairSwarmSpec == SwarmSpec /\ WF_swarm_vars(Working)

-----------------------------------------------------------------------------
TakesOwnResult == taken.asked # 0 => taken.result.step = taken.asked

NothingIsLeft ==
    \A v \in Engines : step[v] = 0 =>
        /\ \A t \in toRun : t.ve # v
        /\ \A m \in net : m.ve # v
        /\ output[v] = <<>>
        /\ \A s \in Servers : triggers[s][v] = 0 /\ input[s][v] = <<>>

(* Until a step runs past the end of a list (mp_distributed_executor.py:   *)
(* 406), a step takes the result of its own batch, and when it returns no  *)
(* server keeps a trigger or an input of its virtual engine for a later    *)
(* step to find.  Only then is it true that the scheduler "is only called  *)
(* again when the current batch has completed" (engine/molink_engine.py:   *)
(* 90), although triggers, inputs and results only name the virtual        *)
(* engine, servers join and drop out of the list, and calls are lost.      *)
BatchHasCompleted == ~strayed => TakesOwnResult /\ NothingIsLeft

(* If the head is in its own list, a result has been through the servers   *)
(* of the list its step began with and no others, in order and once each,  *)
(* even if the list changes under way; and in any case, unless the head    *)
(* had nobody to send to, through the last stage at the end                *)
(* (mp_distributed_executor.py:393, comm_handler.py:108-123).              *)
PathFollowsList ==
    taken.asked # 0 =>
        LET result == taken.result
        IN  /\ Head1 \in ToSet(result.list) => result.path = result.list
            /\ Len(result.list) > 1 => result.path[Len(result.path)] = N

(* "pop the head server" (mp_distributed_executor.py:393): what a step     *)
(* leaves out of its list is the head, so that a result has been through   *)
(* the whole model if every other server was in the list.                  *)
WholeModelRuns ==
    taken.asked # 0 /\ Servers \ {Head1} \subseteq ToSet(taken.result.list) =>
        taken.result.path = [s \in Servers |-> s]

(* Every step ends, when the head knows all servers.                       *)
EveryStepEnds == \A v \in Engines : step[v] # 0 ~> step[v] = 0
=============================================================================
