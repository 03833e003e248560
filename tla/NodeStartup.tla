---------------------------- MODULE NodeStartup ----------------------------
(***************************************************************************)
(* How v1 nodes come up and find each other: _init_molink of                *)
(* molinkv1/executor.py and find_free_port of molinkv1/utils.py.  A node    *)
(* probes for a port, releases it, binds it again for its gRPC server, and *)
(* only then registers with the head.  The operating system's port table   *)
(* is in the model because a node is known to others by its address alone. *)
(* A batch's journey is MolinkPipeline's subject.                          *)
(***************************************************************************)
EXTENDS Integers, FiniteSets, FiniteSetsExt

CONSTANTS
    Nodes,
    HeadNode,
    HostOf,         \* the machine a node runs on
    StartPort,      \* --molink-grpc-port, 50051 if it is 0
    MaxCrashes      \* bound: processes that die

ASSUME NodeStartupAssumption ==
    /\ IsFiniteSet(Nodes) /\ HeadNode \in Nodes
    /\ StartPort \in [Nodes -> Nat] /\ MaxCrashes \in Nat

VARIABLES
    oneByOne,       \* are the nodes of a host launched one after another?
    stage,          \* "off", "launched", "probed", "serving", "member", "alone"
    port,           \* the port a node probed
    peer,           \* --molink-initial-peer, the address a worker joins at
    members,        \* addresses in the head's topology
    abandoned,      \* auxiliary: addresses a node died at
    crashes

startup_vars == <<oneByOne, stage, port, peer, members, abandoned, crashes>>

Address(n) == <<HostOf[n], port[n]>>
ComesUp(n) == stage[n] \in {"launched", "probed"}
Up == {n \in Nodes : stage[n] \in {"serving", "member", "alone"}}
ListenersAt(address) == {n \in Up : Address(n) = address}

StartupInit ==
    /\ oneByOne \in BOOLEAN
    /\ stage = [n \in Nodes |-> "off"]
    /\ port = [n \in Nodes |-> 0]
    /\ peer = [n \in Nodes |-> Address(HeadNode)]
    /\ members = {}
    /\ abandoned = {}
    /\ crashes = 0

-----------------------------------------------------------------------------
FindFreePort_Given(n) == StartPort[n]  \* mutant: takes what it was told

(* find_free_port: the first port from the start on that binds.            *)
FindFreePort(n) ==
    LET last == StartPort[n] + Cardinality(Nodes)
    IN  Min({p \in StartPort[n]..last : ListenersAt(<<HostOf[n], p>>) = {}})

(* A worker is launched with the head's address, which the README has the  *)
(* operator copy "after startup"; the head may be gone, and somebody else  *)
(* at that address, before the worker uses it.                             *)
Launch(n) ==
    /\ stage[n] = "off"
    /\ n # HeadNode => stage[HeadNode] = "member"
    /\ oneByOne => \A m \in Nodes : HostOf[m] = HostOf[n] => ~ComesUp(m)
    /\ stage' = [stage EXCEPT ![n] = "launched"]
    /\ peer' = [peer EXCEPT ![n] = Address(HeadNode)]
    /\ UNCHANGED <<oneByOne, port, members, abandoned, crashes>>

Probe(n) ==
    /\ stage[n] = "launched"
    /\ stage' = [stage EXCEPT ![n] = "probed"]
    /\ port' = [port EXCEPT ![n] = FindFreePort(n)]
    /\ UNCHANGED <<oneByOne, peer, members, abandoned, crashes>>

(* _init_grpc_server: the service starts with a topology of its own node,  *)
(* which on the head is the pipeline's.  gRPC sets SO_REUSEPORT where it   *)
(* can, so a port that was taken since the probe is bound as well, or the  *)
(* start fails and the process ends.                                       *)
InitGrpcServer(n) ==
    /\ stage[n] = "probed"
    /\ \/ /\ stage' = [stage EXCEPT ![n] =
               IF n = HeadNode THEN "member" ELSE "serving"]
          /\ members' = IF n = HeadNode THEN {Address(n)} ELSE members
       \/ /\ ListenersAt(Address(n)) # {}
          /\ stage' = [stage EXCEPT ![n] = "off"]
          /\ UNCHANGED members
    /\ UNCHANGED <<oneByOne, port, peer, abandoned, crashes>>

(* _join_pipeline: whoever listens at the head's address of old answers.   *)
(* If it is the head, the node becomes a member; another worker adds it to *)
(* a topology of its own that no batch is routed by; and if nobody does,   *)
(* the error is logged.  The node stays up in any case.                    *)
JoinPipeline(n) ==
    /\ n # HeadNode /\ stage[n] = "serving"
    /\ \/ /\ HeadNode \in ListenersAt(peer[n])
          /\ stage' = [stage EXCEPT ![n] = "member"]
          /\ members' = members \cup {Address(n)}
       \/ /\ ListenersAt(peer[n]) # {HeadNode}
          /\ stage' = [stage EXCEPT ![n] = "alone"]
          /\ UNCHANGED members
    /\ UNCHANGED <<oneByOne, port, peer, abandoned, crashes>>

(* A process dies; the head's topology dies with it.  Nothing removes a    *)
(* dead worker: remove_node and HealthCheck have no caller.                *)
Crash(n) ==
    /\ crashes < MaxCrashes
    /\ stage[n] # "off"
    /\ crashes' = crashes + 1
    /\ stage' = [stage EXCEPT ![n] = "off"]
    /\ members' = IF n = HeadNode THEN {} ELSE members
    /\ abandoned' = IF n \in Up THEN abandoned \cup {Address(n)} ELSE abandoned
    /\ UNCHANGED <<oneByOne, port, peer>>

StartupNext ==
    \E n \in Nodes :
        Launch(n) \/ Probe(n) \/ InitGrpcServer(n) \/ JoinPipeline(n) \/ Crash(n)

StartupSpec == StartupInit /\ [][StartupNext]_startup_vars

-----------------------------------------------------------------------------
(* If the nodes of a host are launched one after another, every address    *)
(* belongs to one server: the queues, batches and the place in the server  *)
(* list that go with it are one node's.  "If 0, a free port will be chosen *)
(* automatically" (arg_utils.py:33).                                       *)
OneServerPerAddress == oneByOne => \A n \in Up : ListenersAt(Address(n)) = {n}

(* Whoever the head sends a batch to has its server up, unless a process   *)
(* died at that address: nodes register last.                              *)
MembersListen == \A a \in members \ abandoned : ListenersAt(a) # {}

(* An address in the head's topology stands for one server that is up.     *)
AddressesHold == OneServerPerAddress /\ MembersListen
=============================================================================
