------------------------------- MODULE Queues -------------------------------
(***************************************************************************)
(* Queues of requests, for EngineLoop and MolinkScheduler.  A filter is    *)
(* written without recursion, like the list of PipelineTopology: the k-th  *)
(* of what stays is the element with k - 1 of them before it.              *)
(***************************************************************************)
EXTENDS Integers, Sequences, FiniteSets

(* How often x is in q.                                                    *)
Occurrences(q, x) == Cardinality({k \in DOMAIN q : q[k] = x})

(* What is left of q, in its order, without the members of S.              *)
Without(q, S) ==
    LET stays == {i \in DOMAIN q : q[i] \notin S}
        Rank(i) == Cardinality({j \in stays : j <= i})
    IN  [k \in 1..Cardinality(stays) |-> q[CHOOSE i \in stays : Rank(i) = k]]
=============================================================================
