---------------------------- MODULE StageWorkers ----------------------------
(***************************************************************************)
(* The worker processes of one v0 node with tensor parallelism: the driver *)
(* runs a step by broadcasting its input to the others, which sit in an    *)
(* endless loop for it (worker/worker.py).  The loop is itself a method    *)
(* called over the pipe that all calls to a worker come through; the       *)
(* executor, and on the other stages the gRPC handler, starts it with the  *)
(* first step (executor/mp_distributed_executor.py, comm/comm_handler.py). *)
(* What vLLM's process wrapper and its collective operations do is modelled*)
(* from that use: a pipe is served in order, an input reaches one worker   *)
(* after the other, and a forward pass ends only when every worker has     *)
(* done its share.  The driver computes in a thread, so that nothing but   *)
(* the stage's lock keeps two steps from broadcasting at once.  A forward  *)
(* pass that raises is left out: the code neither notices nor handles it.  *)
(***************************************************************************)
EXTENDS Integers, Sequences, FiniteSets

CONSTANTS
    Workers,        \* worker processes other than the driver
    VEs,            \* virtual engines, which share the stage
    MaxSteps,       \* bound: steps
    MaxControls     \* bound: other calls to all workers, such as add_lora

VARIABLES
    started,    \* is parallel_worker_tasks set?
    waiting,    \* steps at the stage's pp_lock
    running,    \* steps in driver_exec_model
    unsent,     \* <<step, worker>>: an input is still to be sent there
    order,      \* history: the steps, as the driver began them
    steps,      \* steps so far
    controls,   \* control calls made so far
    pipe,       \* per worker: calls not served yet
    loops,      \* per worker: is it in the execution loop?
    broadcast,  \* per worker: inputs it has not received
    ran,        \* per worker: the steps it has executed
    answered    \* per worker: control calls it has answered

driver == <<waiting, running, unsent, order>>
workers_vars == <<started, driver, steps, controls, pipe, loops, broadcast, ran, answered>>

WorkersInit ==
    /\ started = FALSE
    /\ waiting = {} /\ running = {} /\ unsent = {} /\ order = <<>>
    /\ steps = 0 /\ controls = 0
    /\ pipe = [w \in Workers |-> <<>>]
    /\ loops = [w \in Workers |-> FALSE]
    /\ broadcast = [w \in Workers |-> <<>>]
    /\ ran = [w \in Workers |-> <<>>]
    /\ answered = [w \in Workers |-> 0]

Call(method) == [w \in Workers |-> Append(pipe[w], method)]

-----------------------------------------------------------------------------
Arrive_NoLoop ==  \* mutant: the handler leaves the loop to the head
    /\ steps < MaxSteps
    /\ Cardinality(waiting \cup running) < Cardinality(VEs)
    /\ steps' = steps + 1
    /\ waiting' = waiting \cup {steps + 1}
    /\ UNCHANGED <<started, running, unsent, order, controls, pipe, loops, broadcast,
                   ran, answered>>

(* A step of some virtual engine comes to the stage; the first one starts  *)
(* the loop in the workers.                                                *)
Arrive ==
    /\ steps < MaxSteps
    /\ Cardinality(waiting \cup running) < Cardinality(VEs)
    /\ steps' = steps + 1
    /\ waiting' = waiting \cup {steps + 1}
    /\ started' = TRUE
    /\ pipe' = IF started THEN pipe ELSE Call("loop")
    /\ UNCHANGED <<running, unsent, order, controls, loops, broadcast, ran, answered>>

LockIsFree_Always == TRUE   \* mutant: the driver computes without the lock

(* pp_lock of the executor on the head, of the gRPC handler elsewhere.     *)
LockIsFree == running = {}

(* Under the lock, the driver starts to compute: the input goes to every   *)
(* worker.                                                                 *)
Begin(s) ==
    /\ s \in waiting
    /\ LockIsFree
    /\ waiting' = waiting \ {s}
    /\ running' = running \cup {s}
    /\ unsent' = unsent \cup ({s} \X Workers)
    /\ order' = Append(order, s)
    /\ UNCHANGED <<started, steps, controls, pipe, loops, broadcast, ran, answered>>

Send(s, w) ==
    /\ <<s, w>> \in unsent
    /\ unsent' = unsent \ {<<s, w>>}
    /\ broadcast' = [broadcast EXCEPT ![w] = Append(@, s)]
    /\ UNCHANGED <<started, waiting, running, order, steps, controls, pipe, loops, ran,
                   answered>>

(* The forward pass is collective; when it is over, the lock is free.      *)
End(s) ==
    /\ s \in running
    /\ \A w \in Workers : \E k \in DOMAIN ran[w] : ran[w][k] = s
    /\ running' = running \ {s}
    /\ UNCHANGED <<started, waiting, unsent, order, steps, controls, pipe, loops,
                   broadcast, ran, answered>>

(* A worker process takes the next call off its pipe.                      *)
Serve(w) ==
    /\ ~loops[w] /\ pipe[w] # <<>>
    /\ pipe' = [pipe EXCEPT ![w] = Tail(@)]
    /\ IF Head(pipe[w]) = "loop"
       THEN loops' = [loops EXCEPT ![w] = TRUE] /\ UNCHANGED answered
       ELSE answered' = [answered EXCEPT ![w] = @ + 1] /\ UNCHANGED loops
    /\ UNCHANGED <<started, driver, steps, controls, broadcast, ran>>

(* In the loop, a worker receives an input and executes it.  Only an empty *)
(* input ends the loop; nobody sends one.                                  *)
Execute(w) ==
    /\ loops[w] /\ broadcast[w] # <<>>
    /\ ran' = [ran EXCEPT ![w] = Append(@, Head(broadcast[w]))]
    /\ broadcast' = [broadcast EXCEPT ![w] = Tail(@)]
    /\ UNCHANGED <<started, driver, steps, controls, pipe, loops, answered>>

(* Another method is called on all workers.                                *)
Control ==
    /\ controls < MaxControls
    /\ controls' = controls + 1
    /\ pipe' = Call("control")
    /\ UNCHANGED <<started, driver, steps, loops, broadcast, ran, answered>>

(* The engine has no requests and asks for the loop to be stopped:         *)
(* stop_remote_worker_execution_loop_async returns at once.                *)
WorkersNext ==
    \/ Arrive \/ Control
    \/ \E s \in waiting : Begin(s)
    \/ \E s \in running : End(s)
    \/ \E s \in running, w \in Workers : Send(s, w)
    \/ \E w \in Workers : Serve(w) \/ Execute(w)

WorkersSpec == WorkersInit /\ [][WorkersNext]_workers_vars

(* The stage and its processes keep running; nobody has to ask for a step. *)
FairWorkersSpec ==
    /\ WorkersSpec
    /\ \A s \in 1..MaxSteps :
         /\ WF_workers_vars(Begin(s) \/ End(s))
         /\ \A w \in Workers : WF_workers_vars(Send(s, w))
    /\ \A w \in Workers : WF_workers_vars(Serve(w)) /\ WF_workers_vars(Execute(w))

-----------------------------------------------------------------------------
(* Every worker executes the steps that the driver runs, in the order in   *)
(* which it began them and at most one behind it.  A worker that took      *)
(* another step's input would compute its share of a different batch       *)
(* (mp_distributed_executor.py:437, comm_handler.py:97).                   *)
SameSteps ==
    \A w \in Workers :
        /\ Len(order) \in {Len(ran[w]), Len(ran[w]) + 1}
        /\ \A k \in DOMAIN ran[w] : ran[w][k] = order[k]

(* Every step that reaches the stage is executed.                          *)
StepsComplete ==
    \A s \in 1..MaxSteps : s \in waiting ~> s \notin waiting \cup running
=============================================================================
