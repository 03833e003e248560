----------------------------- MODULE EngineLoop -----------------------------
(***************************************************************************)
(* The loop of the v0 engine (molink_engine.py, run_engine_loop and        *)
(* engine_step): it keeps a task for each micro-batch, restarts one that   *)
(* is done, and lets task 0 plan their number anew.  A task takes in the   *)
(* requests and aborts of the clients, then asks the scheduler for a       *)
(* batch and waits for its output.  All of it runs on one event loop: an   *)
(* action is what happens between two awaits.  Nobody looks at how a task  *)
(* ended: what a raising one had taken in, or was executing, is left       *)
(* behind.                                                                 *)
(*                                                                         *)
(* The scheduler is what MicroBatches promises, over one queue; the plan   *)
(* is any that keeps LimitCoversRequests of BatchPlan.                     *)
(***************************************************************************)
EXTENDS Queues, SequencesExt

CONSTANTS
    Requests,       \* request ids, each used once
    MaxBatchNum,    \* max_batch_num
    Steps           \* steps a request takes to finish

ASSUME EngineLoopAssumption ==
    MaxBatchNum \in Nat \ {0} /\ Steps \in Nat \ {0}

VARIABLES
    slowAdd,        \* may add_request_async suspend (tokenizer pool, LoRA)?
    client,         \* of each request: "absent", "asked", and its end: "answered",
                    \* "cancelled", "refused"
    newRequests, abortedRequests,   \* the queues of the request tracker
    streams,        \* requests with a stream in the tracker
    queue,          \* the queues of the scheduler, as one
    onFly,          \* requests_on_fly
    left,           \* steps a request has left
    limit,          \* schedule_limit
    looping,        \* is the inner part of the loop running?
    batchNum,       \* batch_num
    tasks,          \* requests_in_progress: [at, adds, drops, ignored, batch]
    inProgress,     \* has_requests_in_progress
    lost,           \* history: requests and aborts that ended with a task
    forsaken        \* history: requests whose step failed

tracker == <<newRequests, abortedRequests, streams>>
scheduler == <<queue, onFly, left>>
loop == <<looping, batchNum, tasks, inProgress, limit>>
fates == <<lost, forsaken>>
vars == <<slowAdd, client, tracker, scheduler, loop, fates>>

-----------------------------------------------------------------------------
Fresh == [at |-> "start", adds |-> <<>>, drops |-> {}, ignored |-> {}, batch |-> {}]
Ended == [Fresh EXCEPT !.at = "done"]
IsDone(t) == t.at = "done"

Init ==
    /\ slowAdd \in BOOLEAN
    /\ client = [r \in Requests |-> "absent"]
    /\ newRequests = <<>> /\ abortedRequests = {} /\ streams = {}
    /\ queue = <<>> /\ onFly = {}
    /\ left = [r \in Requests |-> Steps]
    /\ limit = Cardinality(Requests)
    /\ looping = FALSE /\ batchNum = 1 /\ tasks = <<>> /\ inProgress = <<FALSE>>
    /\ lost = {} /\ forsaken = {}

(* A client asks, and may give up (RequestTracker of vLLM).                *)
Ask(r) ==
    /\ client[r] = "absent"
    /\ client' = [client EXCEPT ![r] = "asked"]
    /\ newRequests' = Append(newRequests, r)
    /\ UNCHANGED <<slowAdd, abortedRequests, streams, scheduler, loop, fates>>

Cancel(r) ==
    /\ client[r] = "asked"
    /\ client' = [client EXCEPT ![r] = "cancelled"]
    /\ abortedRequests' = abortedRequests \union {r}
    /\ streams' = streams \ {r}
    /\ UNCHANGED <<slowAdd, newRequests, scheduler, loop, fates>>

-----------------------------------------------------------------------------
(* culculate_batch_num_default, as BatchPlan has it.  A limit above the    *)
(* number of requests limits nothing.                                      *)
Plan(n, l) == {b \in 1..MaxBatchNum : b * l >= n}
Limits == 1..Cardinality(Requests)

(* New requests end the wait: a plan, and a task for each micro-batch.     *)
WakeUp ==
    /\ ~looping
    /\ newRequests # <<>>
    /\ limit' \in Limits
    /\ batchNum' \in Plan(Len(queue), limit')
    /\ tasks' = [i \in 1..batchNum' |-> Fresh]
    /\ inProgress' = [i \in 1..batchNum' |-> TRUE]
    /\ looping' = TRUE
    /\ UNCHANGED <<slowAdd, client, tracker, scheduler, fates>>

(* A turn of the loop: more tasks if the plan has grown; then each task of *)
(* the plan that is done is started again, and task 0 plans for the rest.  *)
Restarts_Always(t) == TRUE      \* mutant: a task is replaced while it runs
Restarts(t) == IsDone(t)
Indices_Planned == 1..batchNum  \* mutant: tasks above the plan are dropped
Indices == DOMAIN tasks \union 1..batchNum
Grown == [i \in Indices |-> IF i \in DOMAIN tasks THEN tasks[i] ELSE Fresh]
GrownFlags == [i \in Indices |-> IF i \in DOMAIN tasks THEN inProgress[i] ELSE TRUE]

LoopTurn ==
    /\ looping
    /\ IF Restarts(Grown[1])
       THEN limit' \in Limits /\ batchNum' \in Plan(Len(queue), limit')
       ELSE UNCHANGED <<limit, batchNum>>
    /\ tasks' = [i \in Indices |->
           IF i <= batchNum' /\ Restarts(Grown[i]) THEN Fresh ELSE Grown[i]]
    /\ inProgress' = [i \in Indices |->
           IF i > batchNum' THEN FALSE
           ELSE IF Restarts(Grown[i]) THEN TRUE ELSE GrownFlags[i]]
    /\ looping' = \E i \in Indices : inProgress'[i]
    /\ UNCHANGED <<slowAdd, client, tracker, scheduler, fates>>

-----------------------------------------------------------------------------
(* While one task adds its requests, others run only if adding suspends.   *)
Suspended(i) == slowAdd \/ \A j \in DOMAIN tasks \ {i} : tasks[j].at # "adding"

(* get_new_and_aborted_requests: a new request that is already aborted is  *)
(* not taken further.                                                      *)
Stillborn(news) == ToSet(news) \cap abortedRequests

TakeIn(i) ==
    /\ Suspended(i)
    /\ tasks[i].at = "start"
    /\ LET stillborn == Stillborn(newRequests)
           adds == Without(newRequests, stillborn)
       IN  /\ tasks' = [tasks EXCEPT ![i] =
                  [Fresh EXCEPT !.at = "adding", !.adds = adds,
                                !.drops = abortedRequests \ stillborn]]
           /\ streams' = streams \union ToSet(adds)
    /\ newRequests' = <<>>
    /\ abortedRequests' = {}
    /\ UNCHANGED <<slowAdd, client, scheduler, looping, batchNum, inProgress, limit,
                   fates>>

(* add_request_async has prepared a request: the scheduler gets it.        *)
AddRequest(i) ==
    /\ Suspended(i)
    /\ tasks[i].at = "adding"
    /\ tasks[i].adds # <<>>
    /\ queue' = Append(queue, Head(tasks[i].adds))
    /\ tasks' = [tasks EXCEPT ![i].adds = Tail(@)]
    /\ UNCHANGED <<slowAdd, client, tracker, onFly, left, looping, batchNum, inProgress,
                   limit, fates>>

(* It raises a ValueError: process_exception tells the client, and has the *)
(* request aborted by the next task.                                       *)
RefuseRequest(i) ==
    /\ Suspended(i)
    /\ tasks[i].at = "adding"
    /\ tasks[i].adds # <<>>
    /\ LET r == Head(tasks[i].adds)
       IN  /\ client' = [client EXCEPT ![r] = IF r \in streams THEN "refused" ELSE @]
           /\ abortedRequests' = abortedRequests \union {r}
           /\ streams' = streams \ {r}
    /\ tasks' = [tasks EXCEPT ![i].adds = Tail(@)]
    /\ UNCHANGED <<slowAdd, newRequests, scheduler, looping, batchNum, inProgress, limit,
                   fates>>

(* It raises anything else: the task ends, with all it has yet to add and  *)
(* to abort.                                                               *)
AddingRaises(i) ==
    /\ Suspended(i)
    /\ tasks[i].at = "adding"
    /\ tasks[i].adds # <<>>
    /\ tasks' = [tasks EXCEPT ![i] = Ended]
    /\ lost' = lost \union ToSet(tasks[i].adds) \union tasks[i].drops
    /\ UNCHANGED <<slowAdd, client, tracker, scheduler, looping, batchNum, inProgress,
                   limit, forsaken>>

(* _engine_abort, then step_async up to the execution: a batch of at most  *)
(* schedule_limit.  Waiting prompts that are too long are taken out of the *)
(* queue to be answered with the batch; without a batch the step returns   *)
(* before it answers them.                                                 *)
FreeUpTo(q, k) == {j \in 1..k : q[j] \notin onFly}
FirstFree(q) ==
    LET taken == {k \in DOMAIN q :
                    q[k] \notin onFly /\ Cardinality(FreeUpTo(q, k)) <= limit}
    IN  {q[k] : k \in taken}

Kept_All(drops) == queue        \* mutant: nothing is taken out of the scheduler
Kept(drops) == Without(queue, drops)

Unstarted(q) == {r \in ToSet(q) \ onFly : left[r] = Steps}
WithoutIgnored(q) == {Without(q, ignored) : ignored \in SUBSET Unstarted(q)}

Step(i) ==
    /\ Suspended(i)
    /\ tasks[i].at = "adding"
    /\ tasks[i].adds = <<>>
    /\ \E q \in WithoutIgnored(Kept(tasks[i].drops)) :
         LET ignored == ToSet(Kept(tasks[i].drops)) \ ToSet(q)
             batch == FirstFree(q)
         IN  /\ queue' = Without(q, batch) \o Without(q, ToSet(q) \ batch)
             /\ onFly' = onFly \union batch
             /\ tasks' = [tasks EXCEPT ![i] =
                    IF batch = {} THEN Ended
                    ELSE [Fresh EXCEPT !.at = "executing", !.batch = batch,
                                       !.ignored = ignored]]
             /\ lost' = IF batch = {} THEN lost \union ignored ELSE lost
    /\ UNCHANGED <<slowAdd, client, tracker, left, looping, batchNum, inProgress, limit,
                   forsaken>>

(* The output: finished requests leave, and go to those who still listen.  *)
Answer(i) ==
    /\ Suspended(i)
    /\ tasks[i].at = "executing"
    /\ LET live == tasks[i].batch \cap ToSet(queue)
           final == {r \in live : left[r] = 1}
           over == final \union tasks[i].ignored
       IN  /\ left' = [r \in Requests |-> IF r \in live THEN left[r] - 1 ELSE left[r]]
           /\ queue' = Without(queue, final)
           /\ streams' = streams \ over
           /\ client' = [r \in Requests |->
                  IF r \in over \cap streams THEN "answered" ELSE client[r]]
    /\ onFly' = onFly \ tasks[i].batch
    /\ tasks' = [tasks EXCEPT ![i] = Ended]
    /\ UNCHANGED <<slowAdd, newRequests, abortedRequests, looping, batchNum, inProgress,
                   limit, fates>>

(* The execution has raised: the executor swallows that and returns None,  *)
(* the engine raises on it before it takes the marks off.  (If schedule()  *)
(* raises, its marks and requests are left in the same way.)               *)
StepFails(i) ==
    /\ Suspended(i)
    /\ tasks[i].at = "executing"
    /\ tasks' = [tasks EXCEPT ![i] = Ended]
    /\ forsaken' = forsaken \union tasks[i].batch
    /\ lost' = lost \union tasks[i].ignored
    /\ UNCHANGED <<slowAdd, client, tracker, scheduler, looping, batchNum, inProgress,
                   limit>>

TaskMoves(i) == TakeIn(i) \/ AddRequest(i) \/ Step(i) \/ Answer(i)
TaskRaises(i) == RefuseRequest(i) \/ AddingRaises(i) \/ StepFails(i)

Next ==
    \/ \E r \in Requests : Ask(r) \/ Cancel(r)
    \/ WakeUp \/ LoopTurn
    \/ \E i \in DOMAIN tasks : TaskMoves(i) \/ TaskRaises(i)

Spec == Init /\ [][Next]_vars

(* The event loop serves every task, and an execution that does not fail   *)
(* answers.                                                                *)
FairSpec ==
    /\ Spec
    /\ WF_vars(WakeUp) /\ SF_vars(LoopTurn)
    /\ \A i \in 1..MaxBatchNum : SF_vars(i \in DOMAIN tasks /\ TaskMoves(i))

-----------------------------------------------------------------------------
(* A request whose client still waits has one place: with the tracker,     *)
(* with one task that is adding it, in the queue, or with the step that    *)
(* ignored it; and then its client can be reached.  It has none if it      *)
(* ended with a task that raised.                                          *)
Adding(r) == {i \in DOMAIN tasks : r \in ToSet(tasks[i].adds)}
Ignoring(r) == {i \in DOMAIN tasks : r \in tasks[i].ignored}
PlacesOf(r) ==
    Occurrences(newRequests, r) + Cardinality(Adding(r)) + Occurrences(queue, r)
OnePlaceEach ==
    \A r \in Requests : client[r] = "asked" =>
        /\ PlacesOf(r) + Cardinality(Ignoring(r)) = IF r \in lost THEN 0 ELSE 1
        /\ r \in ToSet(newRequests) \/ r \in streams

(* An abort is final: once a task has dealt with it, nothing is computed   *)
(* for the request any more (molink_engine.py:547-563), unless the abort   *)
(* itself ended with a task that raised.  Adding a request must not        *)
(* suspend: else another task can abort a request that the first is still  *)
(* adding.                                                                 *)
AbortsAreFinal ==
    \A r \in Requests \ lost :
        client[r] \in {"cancelled", "refused"} /\ r \notin abortedRequests
            /\ (\A i \in DOMAIN tasks : r \notin tasks[i].drops)
        => PlacesOf(r) = 0

(* No request is lost or doubled unless a task raises, and an abort is     *)
(* final if adding does not suspend.                                       *)
RequestsHavePlaces == OnePlaceEach /\ (~slowAdd => AbortsAreFinal)

(* No request is executed by two tasks, what a task executes is marked,    *)
(* and what is marked is executed, or its step failed                      *)
(* (molink_engine.py:221 is not reached): then it keeps its mark, and no   *)
(* task executes it again.  So no task is restarted while its batch is     *)
(* executing, however the plan changes (molink_engine.py:519).             *)
ExecutingTasks(r) == {i \in DOMAIN tasks : r \in tasks[i].batch}
MarksAreExecuted ==
    \A r \in Requests : Cardinality(ExecutingTasks(r)) =
        IF r \in onFly /\ r \notin forsaken THEN 1 ELSE 0

(* A client waits forever only if a task raised with its request, or the   *)
(* step that ignored it had nothing else to do.                            *)
RequestsAnswered ==
    \A r \in Requests :
        client[r] = "asked" ~> client[r] # "asked" \/ r \in lost \union forsaken
=============================================================================
