------------------------------ MODULE BatchPlan -----------------------------
(***************************************************************************)
(* How the v0 engine chooses the number of micro-batches and the size of   *)
(* one (molink_engine.py, culculate_batch_num_default): the least number   *)
(* above the number of stages with which the computation of the other      *)
(* micro-batches hides the transmission of one.  Times are whole units.    *)
(* An action is a turn of the loop over the candidates.                    *)
(***************************************************************************)
EXTENDS Integers, FiniteSetsExt

CONSTANTS
    Profiled,       \* the largest batch whose decoding was timed (200)
    MaxLatency,     \* of a profiled batch
    MaxCandidate,   \* max_batch_num
    Overhead,       \* get_avg_system_overhead
    WireLatency, WirePerRow,    \* of culculate_transmission_latency
    MaxRequests     \* bound: requests in the queues

BaseBatchNum == 2

ASSUME BatchPlanAssumption ==
    /\ Profiled \in Nat \ {0} /\ MaxCandidate \in Nat /\ MaxCandidate > BaseBatchNum
    /\ \A n \in {MaxLatency, Overhead, WireLatency, WirePerRow, MaxRequests} : n \in Nat

VARIABLES
    table,      \* profile_data["decode"]: sizes 1..Profiled, timed at the start
    num,        \* num_requests, waiting or running
    planLimit,  \* schedule_limit
    planNum,    \* the candidate, in the end the result
    planning    \* "start", "loop" or "done"

plan_vars == <<table, num, planLimit, planNum, planning>>

(* culculate_compute_latency: between the neighbouring sizes around this   *)
(* one; the time of a batch of one if there are none around it.            *)
Around(size) == {i \in 1..Profiled - 1 : i <= size /\ size <= i + 1}
ComputeLatency(t, size) ==
    IF size = 1 \/ Around(size) = {} THEN t[1]
    ELSE LET left == Min(Around(size))
         IN  t[left] + (t[left + 1] - t[left]) * (size - left)

TransmissionLatency(size) == WireLatency + WirePerRow * size

HidesTransmission(t, n, candidate) ==
    LET size == n \div candidate
    IN  (candidate - BaseBatchNum) * (ComputeLatency(t, size) + Overhead)
            >= BaseBatchNum * TransmissionLatency(size)

PlanInit ==
    /\ table \in [1..Profiled -> 1..MaxLatency]
    /\ num \in 0..MaxRequests
    /\ planLimit \in 1..MaxRequests     \* left over from an earlier plan
    /\ planNum = 1 /\ planning = "start"

Start ==
    /\ planning = "start"
    /\ planNum' = IF num <= 1 THEN 1 ELSE IF num <= BaseBatchNum THEN BaseBatchNum
                   ELSE BaseBatchNum + 1
    /\ planning' = IF num <= BaseBatchNum THEN "done" ELSE "loop"
    /\ UNCHANGED <<table, num, planLimit>>

LimitFor_Floor(n, candidate) == n \div candidate    \* mutant: the remainder is left out
LimitFor(n, candidate) == n \div candidate + 1

TryCandidate ==
    /\ planning = "loop"
    /\ planLimit' = LimitFor(num, planNum)
    /\ IF HidesTransmission(table, num, planNum) \/ planNum = MaxCandidate
       THEN planning' = "done" /\ UNCHANGED planNum
       ELSE planNum' = planNum + 1 /\ UNCHANGED planning
    /\ UNCHANGED <<table, num>>

PlanNext == Start \/ TryCandidate
PlanSpec == PlanInit /\ [][PlanNext]_plan_vars

-----------------------------------------------------------------------------
(* The micro-batches together have room for every request that was counted *)
(* (molink_engine.py:626), an old limit included.                          *)
LimitCoversRequests == planning = "done" => planLimit * planNum >= num

(* As long as a micro-batch is no larger than the largest profiled one,    *)
(* the plan is the least that hides the transmission, by the times that    *)
(* were measured; a micro-batch of nothing counts as one of a request.     *)
(* Above that size the code takes the time of a batch of one               *)
(* (molink_engine.py:595), and nothing is claimed.                         *)
LargestPlanned == (BaseBatchNum + 1) * (Profiled + 1) - 1
Measured(size) == table[IF size = 0 THEN 1 ELSE size]
Hidden(candidate) ==
    (candidate - BaseBatchNum) * (Measured(num \div candidate) + Overhead)
        >= BaseBatchNum * TransmissionLatency(num \div candidate)
PlanHidesTransmission ==
    planning = "done" /\ num \in BaseBatchNum + 1..LargestPlanned =>
        planNum = Min({MaxCandidate} \union
                      {candidate \in BaseBatchNum + 1..MaxCandidate : Hidden(candidate)})

PlanSound == LimitCoversRequests /\ PlanHidesTransmission
=============================================================================
