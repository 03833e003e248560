---------------------------- MODULE BatchService ----------------------------
(***************************************************************************)
(* What MolinkExecutor promises an engine that keeps one batch outstanding *)
(* (executor.py:52-68): a batch runs on the stages of a fixed list of      *)
(* nodes, one after the other, and execute_model then returns the output   *)
(* of that batch.  How batches and triggers travel is left open, and so is *)
(* whether a batch is ever answered: nothing is retried.                   *)
(***************************************************************************)
EXTENDS Naturals, Sequences, FiniteSets

CONSTANTS Batches, Nodes, NoBatch

VARIABLES
    plan,       \* the stages of a batch; <<>> until it is submitted
    path,       \* the stages it has passed
    answer      \* the batch whose output its execute_model returned

service == <<plan, path, answer>>

Plans == {p \in UNION {[1..k -> Nodes] : k \in 1..Cardinality(Nodes)} :
            \A i, j \in DOMAIN p : p[i] = p[j] => i = j}

Init ==
    /\ plan = [b \in Batches |-> <<>>]
    /\ path = [b \in Batches |-> <<>>]
    /\ answer = [b \in Batches |-> NoBatch]

Submit(b) ==
    /\ plan[b] = <<>>
    /\ \A c \in Batches : plan[c] # <<>> => answer[c] # NoBatch
    /\ \E p \in Plans : plan' = [plan EXCEPT ![b] = p]
    /\ UNCHANGED <<path, answer>>

RunStage(b) ==
    /\ Len(path[b]) < Len(plan[b])
    /\ path' = [path EXCEPT ![b] = Append(@, plan[b][Len(@) + 1])]
    /\ UNCHANGED <<plan, answer>>

Return(b) ==
    /\ plan[b] # <<>> /\ path[b] = plan[b]
    /\ answer[b] = NoBatch
    /\ answer' = [answer EXCEPT ![b] = b]
    /\ UNCHANGED <<plan, path>>

Next == \E b \in Batches : Submit(b) \/ RunStage(b) \/ Return(b)

Spec == Init /\ [][Next]_service
=============================================================================
