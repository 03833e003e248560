-------------------------- MODULE PipelineTopology --------------------------
(***************************************************************************)
(* The membership of a v1 pipeline as its head keeps it:                   *)
(* molinkv1/utils.py, class PipelineTopology, and the JoinPipeline handler  *)
(* of molinkv1/service.py.                                                 *)
(*                                                                         *)
(* The class stores every member twice: node_pool is a list of node        *)
(* records, node_info_dict maps an address to a start layer.  A Python     *)
(* dict iterates in insertion order and keeps the place of a key that is   *)
(* assigned again, so node_info is a sequence too.  The server list that   *)
(* batches follow is derived from the dict alone.                          *)
(***************************************************************************)
EXTENDS Integers, Sequences, FiniteSets

CONSTANTS
    Nodes,      \* gRPC addresses ("host:port")
    HeadNode,   \* the address of the head node
    Starts,     \* start layers a node may be launched with
    Ends        \* end layers a node may be launched with; -1 is "to the end"

ASSUME NodesAssumption == HeadNode \in Nodes
ASSUME LayersAssumption == Starts \subseteq Int /\ Ends \subseteq Int

VARIABLES
    node_pool,  \* Seq of [ip, start, end]
    node_info   \* Seq of [ip, start]: node_info_dict in iteration order

topology_vars == <<node_pool, node_info>>

PoolEntry == [ip : Nodes, start : Starts, end : Ends]
InfoEntry == [ip : Nodes, start : Starts]

-----------------------------------------------------------------------------
Members(info) == {info[i].ip : i \in DOMAIN info}

AddNode_Swapped(n, first, last) ==  \* mutant: bounds in the wrong order
    /\ n \notin Members(node_info)
    /\ node_pool' = Append(node_pool,
                           [ip |-> n, start |-> last, end |-> first])
    /\ node_info' = Append(node_info, [ip |-> n, start |-> last])

AddNode_PoolOnly(n, first, last) ==  \* mutant: an update misses the dict
    IF n \in Members(node_info)
    THEN /\ node_pool' = [i \in DOMAIN node_pool |->
                            IF node_pool[i].ip = n
                            THEN [ip |-> n, start |-> first, end |-> last]
                            ELSE node_pool[i]]
         /\ UNCHANGED node_info
    ELSE /\ node_pool' = Append(node_pool,
                            [ip |-> n, start |-> first, end |-> last])
         /\ node_info' = Append(node_info, [ip |-> n, start |-> first])

AddNode_ToBack(n, first, last) ==  \* mutant: an update forgets the seniority
    /\ node_pool' = Append(SelectSeq(node_pool, LAMBDA e : e.ip # n),
                           [ip |-> n, start |-> first, end |-> last])
    /\ node_info' = Append(SelectSeq(node_info, LAMBDA e : e.ip # n),
                           [ip |-> n, start |-> first])

(* add_node: an address that is known already is updated in place, and so  *)
(* keeps its seniority; a new address goes to the back of both stores.     *)
AddNode(n, first, last) ==
    IF n \in Members(node_info)
    THEN /\ node_pool' = [i \in DOMAIN node_pool |->
                            IF node_pool[i].ip = n
                            THEN [ip |-> n, start |-> first, end |-> last]
                            ELSE node_pool[i]]
         /\ node_info' = [i \in DOMAIN node_info |->
                            IF node_info[i].ip = n
                            THEN [ip |-> n, start |-> first]
                            ELSE node_info[i]]
    ELSE /\ node_pool' = Append(node_pool,
                            [ip |-> n, start |-> first, end |-> last])
         /\ node_info' = Append(node_info, [ip |-> n, start |-> first])

(* The constructor's __post_init__ registers the head before anyone else.  *)
TopologyInit(first, last) ==
    /\ node_pool = <<[ip |-> HeadNode, start |-> first, end |-> last]>>
    /\ node_info = <<[ip |-> HeadNode, start |-> first]>>

-----------------------------------------------------------------------------
(* get_sorted_server_list: Python's sort is stable, so two nodes with the  *)
(* same start layer stay in insertion order.                               *)
Precedes_Unsorted(info, i, j) == i < j  \* mutant: registration order

Precedes_TiesReversed(info, i, j) ==  \* mutant: an unstable sort
    \/ info[i].start < info[j].start
    \/ info[i].start = info[j].start /\ i > j

Precedes(info, i, j) ==
    \/ info[i].start < info[j].start
    \/ info[i].start = info[j].start /\ i < j

Rank(info, i) == Cardinality({j \in DOMAIN info : Precedes(info, j, i)}) + 1

ServerList(info) ==
    [k \in DOMAIN info |->
        info[CHOOSE i \in DOMAIN info : Rank(info, i) = k].ip]

-----------------------------------------------------------------------------
(* A worker registers over gRPC, possibly again after a restart with other *)
(* bounds.  remove_node has no caller, so members only accumulate.         *)
JoinPipeline(n, first, last) ==
    /\ n # HeadNode
    /\ AddNode(n, first, last)

TopologyNext ==
    \E n \in Nodes, first \in Starts, last \in Ends : JoinPipeline(n, first, last)

TopologySpec ==
    /\ \E first \in Starts, last \in Ends : TopologyInit(first, last)
    /\ [][TopologyNext]_topology_vars

-----------------------------------------------------------------------------
TopologyTypeOK ==
    /\ node_pool \in Seq(PoolEntry)
    /\ node_info \in Seq(InfoEntry)

(* The two stores describe the same members, in the same order, with the   *)
(* same start layers, and no address is stored twice: GetTopology answers  *)
(* from the list while batches are routed by the dict.                     *)
StoresAgree ==
    /\ Len(node_pool) = Len(node_info)
    /\ \A i \in DOMAIN node_info :
          /\ node_pool[i].ip = node_info[i].ip
          /\ node_pool[i].start = node_info[i].start
    /\ \A i, j \in DOMAIN node_info :
          node_info[i].ip = node_info[j].ip => i = j

StartOf(info, n) == info[CHOOSE i \in DOMAIN info : info[i].ip = n].start

(* The server list names every member exactly once, by ascending start     *)
(* layer ("ordered by their start_layer to ensure correct execution order  *)
(* in the pipeline", utils.py:111).                                        *)
ServerListSound ==
    LET list == ServerList(node_info)
    IN  /\ {list[k] : k \in DOMAIN list} = Members(node_info)
        /\ Len(list) = Cardinality(Members(node_info))
        /\ \A k, m \in DOMAIN list :
              k < m => StartOf(node_info, list[k]) =< StartOf(node_info, list[m])

(* The executor takes index 0 of the list for the head (executor.py:422).  *)
(* The code never checks it; it holds exactly when no member starts below  *)
(* the head, and ties do not break it because the head registered first.   *)
HeadLeads ==
    (\A i \in DOMAIN node_info : node_info[1].start =< node_info[i].start)
        => ServerList(node_info)[1] = HeadNode

(* Who comes before whom in the list.                                      *)
OrderIn(info) ==
    LET list == ServerList(info)
        pairs == {p \in (DOMAIN list) \X (DOMAIN list) : p[1] < p[2]}
    IN  {<<list[p[1]], list[p[2]]>> : p \in pairs}

(* A join never swaps two members whose start layers it leaves alone: a    *)
(* node that re-registers cannot reorder the rest of the pipeline.         *)
OrderStays ==
    LET Unmoved(n) == StartOf(node_info', n) = StartOf(node_info, n)
        order == OrderIn(node_info')
    IN  \A pair \in OrderIn(node_info) :
           Unmoved(pair[1]) /\ Unmoved(pair[2]) => pair \in order

JoinKeepsOrder == [][OrderStays]_topology_vars
=============================================================================
