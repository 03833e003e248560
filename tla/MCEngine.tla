------------------------------ MODULE MCEngine ------------------------------
(***************************************************************************)
(* The loop of the v0 engine, and the plan it makes, in one run; the       *)
(* initial state chooses.                                                  *)
(*                                                                         *)
(*   "loop"    two requests, two micro-batches (EngineLoop)                *)
(*   "plan"    batches of up to three were timed (BatchPlan)               *)
(***************************************************************************)
EXTENDS EngineLoop, BatchPlan

VARIABLES setup

all_vars == <<setup, vars, plan_vars>>

-----------------------------------------------------------------------------
NoPlan == table = 0 /\ num = 0 /\ planLimit = 0 /\ planNum = 0 /\ planning = "unused"

MCInit ==
    \/ setup = "loop" /\ Init /\ NoPlan
    \/ setup = "plan" /\ Init /\ PlanInit

InLoop(A) == setup = "loop" /\ A /\ UNCHANGED <<setup, plan_vars>>

MCNext ==
    \/ InLoop(Next)
    \/ setup = "plan" /\ PlanNext /\ UNCHANGED <<setup, vars>>

(* The fairness of EngineLoop's FairSpec.                                  *)
MCFairness ==
    /\ WF_all_vars(InLoop(WakeUp))
    /\ SF_all_vars(InLoop(LoopTurn))
    /\ \A i \in 1..MaxBatchNum :
         SF_all_vars(i \in DOMAIN tasks /\ InLoop(TaskMoves(i)))

MCSpec == MCInit /\ [][MCNext]_all_vars /\ MCFairness

(* The properties are checked as EngineLoop and BatchPlan have them.       *)
=============================================================================
