---------------------------- MODULE SwarmRegistry ---------------------------
(***************************************************************************)
(* How the servers of a v0 swarm find each other through the DHT           *)
(* (comm/dht.py, comm/pipeline_manager.py).  One value holds the list of   *)
(* the servers; every server reads it and writes it back with itself, in   *)
(* two calls, and does so again every three seconds.  The head reads the   *)
(* list, then each server's own value, and has a pipeline.  Nothing is     *)
(* ever taken out of the DHT (values live for a week).                     *)
(***************************************************************************)
EXTENDS Integers, FiniteSets

CONSTANTS
    Servers,
    MayStop     \* may a server stop for good?

VARIABLES
    list,       \* the value of "node_info"
    info,       \* servers that have stored their own value
    at,         \* where refresh_registration of each server is
    seen,       \* what it read in store_primary_kv
    alive,
    looking,    \* is manage_pipeline of the head between its reads?
    found,      \* the list it has read
    view        \* pipeline_info["server_list"]

vars == <<list, info, at, seen, alive, looking, found, view>>

Init ==
    /\ list = {} /\ info = {}
    /\ at = [s \in Servers |-> "rest"]
    /\ seen = [s \in Servers |-> {}]
    /\ alive = Servers
    /\ looking = FALSE /\ found = {} /\ view = {}

(* store_primary_kv: get, and later set, unless the list had this server.  *)
GetList(s) ==
    /\ s \in alive
    /\ at[s] = "rest"
    /\ seen' = [seen EXCEPT ![s] = list]
    /\ at' = [at EXCEPT ![s] = IF s \in list THEN "stores" ELSE "has list"]
    /\ UNCHANGED <<list, info, alive, looking, found, view>>

Written_Alone(s) == {s}         \* mutant: what was read is not kept
Written(s) == seen[s] \union {s}

SetList(s) ==
    /\ s \in alive
    /\ at[s] = "has list"
    /\ list' = Written(s)
    /\ at' = [at EXCEPT ![s] = "stores"]
    /\ UNCHANGED <<info, seen, alive, looking, found, view>>

(* store_sub_kv, and three seconds of sleep.                               *)
StoreInfo(s) ==
    /\ s \in alive
    /\ at[s] = "stores"
    /\ info' = info \union {s}
    /\ at' = [at EXCEPT ![s] = "rest"]
    /\ seen' = [seen EXCEPT ![s] = {}]
    /\ UNCHANGED <<list, alive, looking, found, view>>

(* manage_pipeline: the list, then the value of each server in it; the     *)
(* ones that have none yet are left out.                                   *)
LookUp ==
    /\ ~looking
    /\ looking' = TRUE
    /\ found' = list
    /\ UNCHANGED <<list, info, at, seen, alive, view>>

Publish ==
    /\ looking
    /\ looking' = FALSE
    /\ view' = found \cap info
    /\ found' = {}
    /\ UNCHANGED <<list, info, at, seen, alive>>

Stop(s) ==
    /\ MayStop
    /\ alive' = alive \ {s}
    /\ UNCHANGED <<list, info, at, seen, looking, found, view>>

Refresh(s) == GetList(s) \/ SetList(s) \/ StoreInfo(s)

Next ==
    \/ \E s \in Servers : Refresh(s) \/ Stop(s)
    \/ LookUp \/ Publish

Spec == Init /\ [][Next]_vars

(* The background tasks run for ever.                                      *)
FairSpec ==
    /\ Spec
    /\ \A s \in Servers : WF_vars(Refresh(s))
    /\ WF_vars(LookUp \/ Publish)

-----------------------------------------------------------------------------
(* However the writes of the servers overwrite each other, in the end the  *)
(* head sees every server that is alive, and keeps seeing it (dht.py:24    *)
(* loses updates, :41 repairs them).                                       *)
AliveAreSeen == <>[](alive \subseteq view)
=============================================================================
