---------------------------- MODULE MicroBatches ----------------------------
(***************************************************************************)
(* What the v0 scheduler promises the engine: a micro-batch that has no    *)
(* work is given some of the requests nobody is executing, and gives them  *)
(* back all at once.                                                       *)
(***************************************************************************)
CONSTANTS Requests, Ctxs

VARIABLE executing      \* of each micro-batch, the requests it is executing

Init == executing = [c \in Ctxs |-> {}]

Unclaimed == Requests \ UNION {executing[c] : c \in Ctxs}

Start(c) ==
    /\ executing[c] = {}
    /\ \E S \in SUBSET Unclaimed : executing' = [executing EXCEPT ![c] = S]

End(c) == executing' = [executing EXCEPT ![c] = {}]

Next == \E c \in Ctxs : Start(c) \/ End(c)

Spec == Init /\ [][Next]_executing
=============================================================================
