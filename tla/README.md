# A verification of MoLink

MoLink serves a large language model on several machines: each node runs a
contiguous range of the model's layers, and batches travel from node to node
over gRPC. This directory specifies that system in TLA+, checks it with TLC on
small clusters and proves the central facts with TLAPS for clusters of any size.

The repository holds two generations: `molinkv1/` (the current one, on vLLM
0.11) and `molink/` (v0, on an older vLLM, with a DHT registry). v1 comes first
here: the commands in the repository's README launch it.

All paths below are relative to `src/MoLink-main/`.

## Inventory

### v1 (`molinkv1/`)

| Component | State | Operations | Hard about it | What makes it correct |
|---|---|---|---|---|
| Topology (`utils.py`, `JoinPipeline` in `service.py`) | `node_pool` (list of records) and `node_info_dict` (address to start layer) | `add_node`, `get_sorted_server_list`, `get_metadata` | joins at any time, re-joins with other bounds, equal start layers, two stores | stores agree; the list names every member once in layer order; index 0 is the head |
| Stage bounds (`parallel_state.py`) | module globals: range, first/last flags | `init_`, `update_`, `destroy_`, `get_molink_pp_indices` | flags come from the node's own bounds, routing from list positions; the two can disagree | layers of the nodes partition the model; exactly the ends of the list are first and last |
| Head executor (`executor.py`) | `pp_lock`, stub list, waiting `execute_model` calls | `execute_model`, `_execute_model_async`, `_executing_head_server`, `shutdown` | triggers, head task and output collection run concurrently; exceptions are swallowed | each call returns the output of its own batch |
| Service (`service.py`) | `input_queue`, `output_queue`, `pp_lock` | `PushIntermediateTensors`, `PushSamplerOutput`, `ExecuteWorkerStep` | handlers interleave at every await; a trigger names no batch; ten-second timeout | a trigger for every batch and a batch for every trigger |
| Tensor delivery (`delivery.py`) | `delivery_queue` (100), a separate process | `deliver_to_next`, `deliver_to_head`, consumer loop | a task per push, so pushes overtake each other; a full queue raises; failures are only logged | a batch is forwarded once or dropped, never doubled |
| Worker process (`worker.py`) | one slot for intermediate tensors | set by one RPC, got and cleared by `execute_model` | set and get are two calls; the first stage never clears | the forward pass reads its own batch's tensors |
| Scheduler (`scheduler.py`, `config.py`) | output placeholders per request | `_update_after_schedule`, `_update_request_with_output` | several steps of a request outstanding, preemption | the placeholder count is never negative |
| Entry points (`engine.py`, `arg_utils.py`, `entrypoints/`) | none of their own | configuration, HTTP | | |

How they interact: the engine core calls `execute_model` on the head. The
executor reads the server list off the topology, starts a local head task and
sends an `ExecuteWorkerStep` to every other node. The head task runs the first
layers and hands its tensors to the delivery process, which pushes them to the
second node's service. There, the waiting `ExecuteWorkerStep` handler takes them
from the input queue, deserializes them in a thread, takes the service's lock,
stores them in the worker process, runs it, and hands the output to its own
delivery process: to the next node, or, on the last node, back to the head's
output queue where `execute_model` waits.

### v0 (`molink/`)

| Component | State | Hard about it | What makes it correct |
|---|---|---|---|
| DHT registry (`comm/dht.py`, `comm/pipeline_manager.py`) | a shared node list, a record per node, refreshed every three seconds | read-modify-write of the shared list, expiry, partial views | every live node is eventually, and then always, in the server list |
| gRPC service (`comm/comm_handler.py`) | input and output queues per virtual engine | as in v1, per virtual engine | as in v1 |
| Executor (`executor/mp_distributed_executor.py`) | stub list, preset server list, delivery process | the server list may shrink between batches; exceptions are printed | a batch's output goes to its own virtual engine's call |
| Scheduler (`core/scheduler.py`) | waiting, running, swapped queues; on-the-fly marks; block manager | several batches in flight over the same sequences; preemption and swapping | a request is in at most one batch in flight; no slot is given out twice; every request ends |
| Engine loop (`engine/molink_engine.py`) | one task per micro-batch, adaptive batch count and size | requests and aborts arrive while the number of tasks changes; failures between marking and freeing; numeric edges of the latency table | no request is lost or executed twice at once; each is answered, refused or cancelled |
| Stage workers (`worker/`, `distributed/`) | one process per tensor-parallel rank, an endless loop in each | ranks meet in collective operations, virtual engines compete for the stage | all ranks execute the same steps in the same order |
| Models (`model_executor/models/`, 22 files) | the modules a node builds for its layers | each file has its own layer protocol, its own parameters at the ends, and its own loader | the stages together compute what the whole model computes |
| Loader (`model_executor/model_loader/`) | parameters loaded so far | a stage takes a part of the checkpoint; shards of merged parameters | what is read was loaded; a damaged checkpoint is refused |
| Vision inputs (`models/qwen2_vl.py`) | prompt placeholders, slices of the item tensors, dummy videos | images and videos interleave in the prompt and are embedded per modality | every placeholder gets the row of its own item |

They interact as in v1, with these differences: the head finds its servers
through the DHT; the engine keeps several micro-batches (virtual engines) in
flight, each with queues of its own; and every node may be several worker
processes.

### Not modelled

- v1's shutdown (`executor.py:775`): the process is ending, and what is lost
  with it is what a crash loses.
- Entry points, HTTP front ends, argument parsing, configuration plumbing:
  copied values, no state of their own. Generated protobuf code, benchmarks and
  packaging.
- Initialisation of devices, process groups and caches; the start-up order of a
  v0 node; the AutoDL address map; vLLM's collective RPCs.
- The arithmetic inside a layer: a module is an uninterpreted function of its
  input. Pixel preprocessing and M-RoPE positions.
- LoRA slots, multi-step scheduling and token budgets of the v0 scheduler, the
  planning of chunked prefill, and the profile run at start-up.
- Worker processes that raise: nothing in the code notices or handles it.

## Modules

| Module | Models |
|---|---|
| `PipelineTopology` | v1's topology class and the `JoinPipeline` handler |
| `StageLayers` | what a v1 node concludes from its start and end layer: the stage flags and the layers it builds |
| `LaunchedLayers` | the pipeline of layers that the nodes of a topology make together |
| `NodeStartup` | how v1 nodes choose a port, start their server and register |
| `MolinkPipeline` | v1's head executor, services, delivery processes, network and worker processes, on top of the first two |
| `BatchService` | abstract: what an engine that keeps one batch outstanding may rely on |
| `OutputPlaceholders` | v1's asynchronous scheduler |
| `MolinkScheduler` | v0's scheduler, with the marking and freeing around a step |
| `MicroBatches` | abstract: what the scheduler promises the engine |
| `EngineLoop` | v0's loop over micro-batches, on top of what `MicroBatches` promises |
| `BatchPlan` | v0's choice of the number and size of micro-batches |
| `Queues` | places and removals in the lists of `MolinkScheduler` and `EngineLoop` |
| `SwarmPipeline` | a v0 step on its way through the swarm: executor and gRPC service |
| `SwarmRegistry` | v0's registration in the DHT, and the list the head derives |
| `StageWorkers` | the worker processes of one v0 node |
| `ModelStage` | what all model files share: ranges, routing of a checkpoint entry, tensors on the wire |
| `DenseModels`, `MoreDenseModels`, `ExpertModels` | each model file: its forward pass, its parameters, its loader |
| `ModelCatalog`, `Checkpoints` | the registry and the choice of a class; the entries of a checkpoint (external) |
| `ModelSplit` | a model divided among nodes, built, loaded and run stage by stage |
| `VisionItems`, `VideoBudget` | Qwen2-VL's images and videos; the size of its dummy videos |
| `MCStages`, `MCPipeline`, `MCSchedulers`, `MCEngine`, `MCNodes` | instances for TLC |
| `PipelineTopologyProof`, `MolinkPipelineProof` | theorems and proofs: topology; types, the tensor slot, where a batch is, the order of its stages, the triggers, and what a call returns |
| `LaunchedLayersProof` | theorems and proofs: which layers a batch passes |
| `SchedulersProof` | theorems and proofs: the marks, queues and slots of the v0 scheduler; the placeholders of the v1 scheduler |
| `EngineLoopProof` | theorems and proofs: the tasks that execute v0's micro-batches, the places of its requests, the number of micro-batches |
| `NodesProof` | theorems and proofs: the way of a v0 batch through the swarm, whose result a step takes, the steps of a stage's workers; the addresses of v1 nodes |
| `VideoBudgetProof` | theorem and proof: the frames of the dummy videos |
| `QueueLemmas` | lemmas about `Queues` that the v0 proofs share: what a list without some elements holds, how often, in which order |

Names ending in `_Something` after a definition's name (`AddNode_ToBack`,
marked `mutant`) are plausible bugs of that definition. Put in its place, each
makes one property fail; that is how we know the property can fail.

### PipelineTopology

A Python dict iterates in insertion order, so `node_info` is a sequence like
`node_pool`. `sorted` is stable, so `Precedes` breaks ties by position, and
`ServerList` is the k-th member in that order. `remove_node` has no caller and
is left out: members only accumulate.

### MolinkPipeline

| Model | Code |
|---|---|
| `status`, `result`, `waiters` | futures of `execute_model`, coroutines in `output_queue.get()` |
| `servers[b]` | the `grpc_metadata` that travels with a batch |
| `headq`, `head_phase` | head tasks queued at the executor's `pp_lock`; its holder |
| `outq` | the head's `output_queue[0]` |
| `dq[n]`, `net` | a node's `delivery_queue`; pushes in gRPC |
| `trig[n]`, `getters[n]` | `ExecuteWorkerStep` calls on the way; handlers in `input_queue.get()` |
| `inq[n]`, `deser[n]`, `lockq[n]`, `phase[n]` | the input queue; handlers in `to_thread`; handlers at the service's `pp_lock`; how far its holder is |
| `slot[n]` | `_molink_intermediate_tensors` of the worker process |
| `path`, `lost`, `faults` | history: stages a batch passed, batches dropped, faults so far |

An action is what runs between two awaits. Decisions worth knowing:

- `virtual_engine` is read with `getattr(scheduler_output, "virtual_engine", 0)`
  and v1 never sets it, so one queue per node stands for all of them.
- `_update_stub_list` always leaves stubs for `server_list[1:]`, so the stub
  list is not a variable.
- A coroutine that finds the output queue non-empty takes from it at once, even
  if others are waiting to be resumed; `Submit` does so. One of those that an output
  has woken then finds nothing, and waits again behind the others (`Overtaken`).
- Where an output goes depends on the node's position in the batch's list; what
  it is depends on the node's own bounds. Both are modelled, so mistaken
  bounds show.
- Pickling is modelled where its outcome matters: the single-node path writes
  JSON, which `cloudpickle.loads` rejects (`Answer`).
- A push is handled once: a response that is lost after the handler ran is no
  different from one that arrives, because nobody looks at it.
- The ten-second timeout counts as a fault (`InputTimeout`), because without a
  fault only a very slow peer causes it; it is enabled only on an empty queue.
- Deserializing in the thread may raise, and the forward pass may
  (`DeserializeFails`, `WorkerFails`): the handler answers `res = 0`, which nobody
  looks at, so the batch is gone.
- An exception that leaves `execute_model` ends vLLM's engine core (`EngineUp`,
  external), and how many batches it keeps outstanding is its choice
  (`MaxInFlight`, external: one, or two with asynchronous scheduling). One run
  allows three, because only then can a waiting call be overtaken by another.
- `Restart` is a worker node dying and coming back at its old address. The
  head's death ends the whole pipeline and is not modelled.

### MolinkScheduler, EngineLoop, BatchPlan

One schedule of the v0 scheduler runs without an await, so nothing interleaves
with it; its three loops are unrolled, an action for a turn, because what a turn
does depends on what the ones before it left (`pc` is the loop, `count` its
`num_scheduled`, `reserve` the requests it skips). Between passes, micro-batches
complete, fail and abort in any order. A token takes one slot of the cache, and
`_preempt`'s choice between recomputing and swapping is left open. Two exceptions
end a pass in the middle: the assertions of `_schedule_prefills`
(`FailAssertion`), and a preemption for which there is no swap space, which the
handler around `_schedule_running` swallows (`SwapSpaceRunsOut`).

`EngineLoop` is the code around it, one action per stretch between awaits. A
task is a record with the place it waits at. Nobody looks at how a task ended, so a
task that raises just ends: adding a request may raise a `ValueError`, of which
the client is told (`RefuseRequest`), or anything else, which takes the rest of the
task's requests and aborts with it (`AddingRaises`); and an execution may fail
(`StepFails`), which leaves its marks where they are. A prompt that is too long is
taken out of the queue and answered with the batch of that step, if there is one.
The history variables are `lost`, what ended with a task, and `forsaken`, the
requests of failed steps. The scheduler is one queue there,
and the plan any number of tasks and any limit that satisfy what `PlanSound`
checks of `BatchPlan`. Whether `add_request_async` can suspend (`slowAdd`)
is decided in the initial state: with a tokenizer pool or LoRA it can. Filters of
a list are written without recursion (`Without` in `Queues`), so that they can be
proved about. `MolinkScheduler` has two history variables: `raised` says what has
ended a pass early, an assertion or the lack of swap space (what its loops had
taken out of the queues is then in none of them), `snatched` whether a request was
preempted while it was on the fly.

### SwarmPipeline, SwarmRegistry, StageWorkers

`SwarmPipeline` numbers the servers by their layers; what the head knows of them grows
by direct joins and follows the DHT list otherwise (`Unlist` is a publication of a
list that another server overwrote). A step is the executor's
`_driver_execute_model_async` up to its first await, then a head task, triggers and
pushes, each a message without an order. The code takes index 0 of the list for the
head, and so does the model (`Others`, and the head task's next server), whoever
stands there: `Unlist` can take the head off its own list. `PastTheEnd` is the
comparison with the preset list that runs past the shorter one, and the history
variable `strayed` says whether a step has done so. The server list is the known
servers by rank, because nothing can be proved about the community modules' sorting.

`SwarmRegistry` splits the read-modify-write of the node list into its two DHT
calls. `StageWorkers` splits a step into taking the stage's lock (`LockIsFree`), a
send for each worker, each rank's share, and the end that frees the lock; the driver
computes in a thread, so that only the lock keeps the sends of two steps apart. The
history `order` has the steps as the driver began them, to compare the workers
with. The execution loop is itself a call that comes through the pipe of all
calls, which is why nothing after it is ever served.

### OutputPlaceholders, NodeStartup, LaunchedLayers

`OutputPlaceholders` keeps counts only: tokens known, computed, in drafts, and held as
placeholders. What a step takes and how many drafts are accepted is open, as are
preemption and aborts. `NodeStartup` contains the operating system's port table
because the head knows a node by its address alone; whether the nodes of a machine are
launched one after another is decided in the initial state (`oneByOne`). A worker is
launched with the address that the head has then (`peer`); when it joins, the head may
be gone and another node be listening there. `LaunchedLayers` adds no state to
`PipelineTopology`: it says which layers a batch passes when nodes have joined as they
have.

### Models

A tensor is a term, the operations that made it, together with the parameters
the node used. Two divisions of a model compute the same exactly if their terms
are equal, so `DivisionComposes` compares the last stage's term with that of a
single node. Every model file contributes its layer (with its own residual
protocol), the parameters of a layer, the place of embedding, norm and head at
the ends (tied or not), and the mapping of checkpoint entries to parameters and
shards. Two experts stand for any number, four layers give first, inner and last
ones with the layer patterns of the sparse models.

## What the runs check

| Run | Bounds | Question |
|---|---|---|
| `Stages` | rejoins: 4 nodes, start layers 0..2, ends -1 and 2. ranges: 3 nodes, starts -1..4, ends -2..5, 4 layers. split: 27 architectures, tied and untied where both exist (40 in all), 4 layers, up to 3 stages, quantised or not, complete and damaged checkpoints. vision: up to 3 images and videos of 3 grids. budget: 2 picture sizes, 5 context lengths | joins and re-joins in any order keep stores and list consistent; ranges that divide the model make a whole pipeline; divided models compute, load and refuse what they should; rows reach their placeholders; dummy videos fit |
| `PipelineSync` | head + 2 workers, 3 batches, 1 outstanding, 2 faults | each batch gets its own output, nothing is left behind, `BatchService` is implemented |
| `PipelineConcurrent` | head + 2 workers, 3 batches, up to 3 outstanding, delivery queue of 1, 1 fault, one correct and two mistaken launches | no batch is doubled, misrouted or forgotten; triggers match batches; the slot is never overwritten |
| `PipelineLive` | head + 2 workers, 2 batches, 2 outstanding, no faults | every `execute_model` returns |
| `Schedulers` | 3 requests, 6 slots. storm: 2 micro-batches, sequences of 4, failures, full swap space, aborts. tight: 1 micro-batch, sequences of 8. roomy: 2 micro-batches, sequences of 3. placeholders: 2 requests, 1 draft, 2 steps outstanding | no request in two micro-batches, `MicroBatches` is implemented; no slot given out twice, queues until an exception ends a pass, assertions until a preemption on the fly, termination; placeholder counts |
| `Engine` | 2 requests, 2 steps each, up to 2 tasks, an add that suspends or not, refuses or raises, steps that fail or ignore a prompt; plans for up to 13 requests, any table of 3 sizes | no request is lost or doubled but by a task that raises, each is answered, refused or cancelled; marks are batches or what a failed step left; the plan is sound |
| `Nodes` | swarm: 3 servers, 2 virtual engines, 2 to 4 steps. registry: 2 servers. workers: a driver and 2 ranks, 2 virtual engines, 4 steps, 2 control calls. startup: 4 nodes on 2 machines, 2 crashes | paths, results and progress of steps; live servers are seen; ranks execute the driver's steps in its order; addresses hold |
| `ForeignResult` | as `PipelineLive` | violated: see below |
| `TriggerFirst`, `SingleNode`, `ClosedEnd` | one batch | violated: see below |
| `SkippedServer` | 3 servers, 1 virtual engine, 1 step | violated: see below |

`Stages`, `Schedulers`, `Engine` and `Nodes` put several instances side by side:
the initial state chooses a `part` or `setup`, and the variables of the others
stay as they start. A property that only some of them can have says which
(`part = "serves" => ...`), in one conjunct per instance.

Why the bounds suffice. Three nodes are the smallest pipeline with a head, a middle
and a last stage, each of which has code of its own; a fourth would repeat the middle.
Two outstanding batches are the most that the engine core keeps and enough for outputs
to change places; a third can overtake a call that has already been woken, and,
submitted after one of them is back, meet what the others left behind. Queue capacity
one makes a full queue reachable (the code's 100 cannot be with so few batches
outstanding); two faults let a fault hit the recovery from another. Three start layers
over four nodes give ties, reversals and nodes below the head. In the scheduler, the
six slots are too few for the storm's three sequences, which grow until they hold
three slots each, so that every request may lose its slots to another one, on the fly
or not; the tight set-up adds sequences that outgrow the whole cache; in the roomy one
two slots each are just enough for everybody. Two micro-batches are enough for two to
compete, three requests for one to overtake. One step more than virtual engines lets a
swarm step meet what another of its engine left behind. Two virtual engines are enough
for two steps to want a stage's lock, two ranks for a step to have been sent to one
and not the other. Two registering servers can overwrite each other; a third would
repeat the second. The deadlock check is off where the system ends: when all batches
or requests are answered, when the bounded number of steps is used up, or when a fault
has stopped it.

Fairness.

- v1 pipeline (`FairSpec`): weak fairness of the head's event loop, of the
  handling of messages, and of every node: asyncio runs every ready callback,
  processes keep running, and gRPC calls that no fault hits return. Weak fairness
  of the whole `NodeStep(n)` is enough because a node has finitely much to do
  between two inputs. Nothing is assumed of the engine (`Submit`) or of joining
  nodes. `EveryBatchAnswered` assumes that every submitted list had at least two
  nodes, because of the single-node finding.
- v0 scheduler: weak fairness of a turn of a pass (it has no await), strong
  fairness of each micro-batch's next pass and of its completion: asyncio
  resumes tasks in the order they became ready, but a pass of another
  micro-batch disables one for a while.
- v0 engine loop: weak fairness of waking up, strong fairness of the loop's turn
  and of each task, for the same reason: an execution that does not fail answers.
  Nothing is assumed of the clients, nor that anything raises.
- Swarm: weak fairness of a server's work and of calls arriving; the steps
  themselves are the engine's to begin. Registry: weak fairness of each server's
  refresh (its thread sleeps three seconds and repeats) and of the head's
  look-up; none of stopping.
- Stage workers: weak fairness of beginning and ending a step, of each send, and of
  each process serving its pipe and executing; none of steps arriving or control
  calls.

## Findings

- `ForeignResult`. The service is built for ten concurrent batches, but outputs
  carry no batch and waiting calls take the oldest output. The delivery process
  pushes concurrently, so with two batches outstanding (asynchronous
  scheduling) two calls can return each other's output. With one outstanding
  this cannot happen (`PipelineSync`).
- `SingleNode`. Without workers the output is JSON-encoded, and the reader
  unpickles it: the documented single-node deployment fails on its first batch.
- `ClosedEnd`. `update_molink_stage_info` is never called, so a last stage whose
  end layer is given as the layer count does not sample, and bare tensors come
  out of `execute_model`.
- `SkippedServer`. "Pop the head server" removes index 0 of the server list
  (`mp_distributed_executor.py:393`), and the head task sends to index 1 (:447). If
  the head has dropped out of its own list, because somebody wrote an older list
  back to the DHT, another server is popped: it gets no trigger and no
  tensors, and the batch is answered without its layers.
- `TriggerFirst`. The comment that tensors arrive before the trigger is not what
  the executor does; the handler's wait makes it harmless.

## Weaknesses seen while modelling

No run of its own demonstrates these. The model behaves this way, and the
properties are restricted where they have to be.

- `core/scheduler.py:267`: the victim of a preemption may be on the fly. Its
  output arrives after it was put back to waiting, and the assertions at :512 and
  :532 fail. It is the only thing that makes them fail: `SoundUntilSnatched`
  holds in every set-up until it happens, and `AllEnd`, which speaks of the other
  two, says that with one micro-batch or with enough slots it never does. Of
  `OneQueueEach` the half that says a living request is in some queue holds until
  an assertion, or a full swap space, has ended a pass.
- `core/scheduler.py:344`: when a request should be swapped out and there is no swap
  space, the exception is printed and `_schedule_running` returns nothing. The head
  and the last of the running queue, and whatever the loop had passed over or
  scheduled, are then in no queue; the marks of what it had scheduled stay.
- `engine/molink_engine.py:221`: a step that fails never gets to freeing its marks
  (`mp_distributed_executor.py:426` returns None, and the engine raises on it); its
  requests are skipped for ever. `MarksAreExecuted` says that only they stay marked,
  and `RequestsAnswered` excepts them; `AllEnd` excludes failing steps.
- `engine/molink_engine.py:553`: only a `ValueError` is handled. Anything else that
  adding a request raises ends the task, with the requests it had yet to add and all
  its aborts. `RequestsHavePlaces` and `RequestsAnswered` except them (`lost`).
- `engine/molink_engine.py:118`: a step without a batch returns before it answers the
  prompts that the scheduler has just ignored, which are in no queue any more.
- `engine/molink_engine.py:547`: an abort that arrives while `add_request_async`
  is suspended misses the request, which is then computed for nobody. The second
  half of `RequestsHavePlaces` excludes it.
- `engine/molink_engine.py:486`, `:532`: once started, the loop never waits for
  new requests again; task 0 is flagged in progress whenever it is restarted.
- `engine/molink_engine.py:595`: above the largest profiled size a batch is given
  the time of a batch of one; `PlanSound` takes the function as it is and says
  nothing about real times there.
- `executor/mp_distributed_executor.py:406`: if the server list has become a
  beginning of the preset one, the step fails after its head task was started,
  and the next step of that engine takes the stale result. Nothing
  else in the model leads there: `BatchHasCompleted` holds until it happens, however
  the list changes otherwise and whichever calls are lost.
- `executor/mp_distributed_executor.py:471`: stopping the workers' loop returns
  at once, so calls to them after the first step are never answered.
- `comm/comm_handler.py:120`: a server that is the end of a batch's list without being
  the last stage sends nothing on, and a lost call is only printed; the step then
  waits for ever. `StepsEnd` is about a head that knows all servers.
- `molinkv1/utils.py:57`: nodes launched at once on a host may choose the same
  port. `AddressesHold` says so for nodes launched one after another.
- `molinkv1/executor.py:267`: a worker joins whoever listens at the address it was given.
  If the head was restarted elsewhere and another worker has its old address, the
  join succeeds, and no batch is ever routed to the node.
- `molinkv1/config.py:37`: no heartbeat is sent, `HealthCheck` and `remove_node`
  have no caller; a dead worker stays in the list.
- `molinkv1/scheduler.py:82`: with three steps outstanding, a request that is
  preempted and resumed before its output is back takes that output for the new
  step's and `PlaceholdersAreDue` fails; two, the number vLLM keeps, are fine.
- `molinkv1/arg_utils.py`: `--molink-max-message-size-mb`,
  `--molink-connection-timeout-s`, `--molink-heartbeat-interval-s`,
  `--molink-enable-compression` and `--molink-num-delivery-workers` are parsed, but
  `from_cli_args` does not copy them.
- `model_loader/loader.py:83`: the strict check compares names, and a merged
  parameter counts as loaded after any one of its parts (`models/llama.py:446`). A
  checkpoint without its q_proj entries is accepted, and the rows are whatever the
  allocation left there. `ReadsWhatItLoaded` claims nothing about such checkpoints.
- `models/chatglm.py:323`: `GLMTransformer` is called without the `vllm_config`
  its constructor puts first; the class cannot be built.
- `models/qwen2_vl.py:705`: embeddings computed elsewhere are cut by the grid
  before merging, so single items get wrong rows. They come out right when all
  items of the modality are concatenated again, which is what
  `RowsReachTheirPlaceholders` describes.

## What is proved

For any nodes, layers, batches, bounds and any number of faults:

- `TopologyInvariant`, `TopologyTyped`, `StoresInStep`, `ServerListCorrect` and
  `HeadIsFirst` (`PipelineTopologyProof`). The inductive invariant is `TopologyTypeOK`,
  `StoresAgree` and that the head is the first entry. The list is defined by
  rank, so the argument is that `Rank` is a bijection onto `1..Len(info)`: it
  is strictly increasing along the total order `Precedes`, and it stays within
  the length. A re-join changes start layers in place, so the order of
  registration, and with it the resolution of ties, is kept.
- `OrderKeptByJoins`: a join does not exchange two members that keep their layers.
  Two members compare by start layer and then by position, and `AddNode` and
  `AddNodeInfo` leave the positions of members alone; so `Precedes` between the
  two is the same before and after, and with it the order of their ranks.
- `LayersKeptInOrder` (`LaunchedLayersProof`): `EveryLayerInOrder`, for any number
  of layers, nodes and joins. If the launch arguments divide the layers, no range
  is empty, so each node builds what it was told to (`BuiltIsMeant`). Disjoint
  intervals sorted by where they begin follow one another, and since no layer is
  left over there is no gap between two, before the first or after the last
  (`RangesJoinUp`). What a batch passes is a recursion along the list. Its closed
  form, the first layers up to the end of the k-th range, solves the recursive
  equation, which shows that there is a solution; that it is the only one needs
  induction up to a bound, which `ReachesAll` proves by a least counterexample,
  found by counting. `TakesAllIfEmpty` is the other half: arguments that mean no
  layer make a node build the whole model.
- `TypeCorrect` and the stronger `PipelineInvariant` (`MolinkPipelineProof`).
  Typing is not inductive on its own: a worker computes its next hop from its
  own position in the batch's list (`server_list.index`), which has no value
  if it is not in that list. `TypeInv` therefore adds that the data of a batch is
  only ever at, or under way to, nodes of the list it carries (`Routed`), that
  the holder of a lock stands at the front of its queue (`LockHeld`), and that a
  list is assigned once (`Fresh`). There is a lemma per action.

- `RightTensors` (`MolinkPipelineProof`): no forward pass reads the tensors of
  another batch. Inductive with `TypeInv`: storing and reading both happen to
  the front of the lock queue, and the front changes only when the lock is
  released. The head's own forward passes share the slot; they leave it alone
  if the head holds the first layer, which the theorem assumes
  (`HeadHoldsFirstLayer`).
- `BatchAtOnePlace` (`MolinkPipelineProof`): a batch is at one place of the cluster
  at most, and once there. `PlacesInv` says that no queue holds a batch twice
  (`NoRepeat`), that no two places hold the same one (`Single`), and that a batch
  not yet submitted is nowhere (`Unborn`), without which submission could double
  one. Each action moves one batch from one place to another or drops it; the
  lemmas `Moved` and `NotMoved` carry that shape.
- `EachBatchAccounted` (`MolinkPipelineProof`): `ExactlyOnePlace`, which also counts
  answers and losses. `AccountInv` says that a batch that is somewhere is neither
  lost nor answered and a lost one is not answered (`OneFate`), that a submitted
  one is one of the three (`SomeFate`), that no output is returned twice
  (`ReturnedOnce`), and what is needed of the calls: those that wait are pending
  and wait once (`WaitersPending`), those that are pending have no result yet
  (`Unanswered`). The counting itself is `CopiesCounted`: the sets of
  `Copies` are disjoint because `PlacesInv` says so.
- `StagesKept` (`MolinkPipelineProof`): `StagesInOrder`, assuming that no node starts
  below the head (`HeadStartsFirst`, which the code relies on and never checks).
  `StageInv` adds that a batch on its way to a node, or at it, has that node as
  the next stage of its list (`Ready`), or as the last one that ran it if its
  forward pass is over (`Ran`). When a stage runs a batch, everything that was
  said of that batch elsewhere would become false; it is nowhere else, by
  `BatchAtOnePlace`. A node looks its position up with `server_list.index`;
  that this is the length of the path so far needs lists without repetitions
  (`Lists`, from `ServerListDistinct`).
- `OwnResult` (`MolinkPipelineProof`): `ResultIsOwn` when one batch is outstanding
  (`OneAtATime`). `ResultInv` adds that only pending batches are anywhere, that at
  most one is pending, and that waiting calls are pending. Collecting an output
  keeps this because the output was the only place its batch was at.
- `TriggersCounted` (`MolinkPipelineProof`): `TriggersMatchBatches`, assuming
  `HeadStartsFirst`. Triggers name no batch, so the invariant can only count: per
  node, the calls and handlers that have taken no batch are at most as many as the
  batches due there, and without faults as many (`Matches`). The lemmas say how
  each action changes the set `Due`. A fault drops triggers, while a lost batch
  stays due, so after it only "at most" is left. `Started` is needed
  too: a trigger is sent when the head has run the batch, and not before.
- `NothingLeftBehind` (`MolinkPipelineProof`): `NoResidue` (which is about behaviours
  without faults), with any number of batches outstanding, although answers may
  then be exchanged. Each call that is done
  returned the output of some batch (`CallsAnswered`) and no two the same one; so
  when none is pending, the results map the submitted batches one to one into
  themselves. There are finitely many, so every one of them was returned, and what
  was returned is nowhere. The triggers are then zero by `TriggersCounted`.
- `PipelineIsService` (`MolinkPipelineProof`): with one batch outstanding the pipeline
  implements `BatchService`. A forward pass is the abstract `RunStage`, collecting
  an output the abstract `Return`, and everything else stutters. That a pass runs
  the stage the service wants next is `StagesInOrder`, that the call returns what
  its own batch became is `ResultIsOwn`, and that a list is a plan of the service
  is `ServerListCorrect`.

- `NeverTwiceOnTheFly` (`SchedulersProof`): no request is in two v0
  micro-batches at once, for any number of requests, micro-batches and slots,
  through preemption, swapping, failing assertions and steps, and aborts.
  `NoDoubleFlight` says nothing of the pass under way, nor why a loop will not
  take a request that is executing. `FlightInv` adds `Marked`: whatever is
  scheduled, in the pass or in a flight, is in `requests_on_fly`. A request
  enters a batch only by `Mark`, which every loop guards with `SkipsOnFly`
  (`MarkKeepsFlightInv`), and marks are taken back for a whole flight at a time.
- `EachRequestHasOneQueue` (`SchedulersProof`): `OneQueueEach`, for any number of
  requests, micro-batches and slots, with failures, aborts and passes that an
  exception ends. `QueueInv` counts:
  a request has at most one place in the queues and, during a pass, the lists of
  its loops (`Copies`); one that has not arrived has none, and one that has ended
  is no longer in what is running or was just scheduled. Each turn of a loop takes
  one place away and adds one, and the counts follow from the lemmas on
  `Without`. What a loop has passed
  over counts as well (`reserve`): the loop over the running queue puts it back
  there, so it must not have ended; the other two may hold a request that has.
- `SoundTillSnatched` (`SchedulersProof`): `SoundUntilSnatched`, for any number
  of requests, micro-batches and slots, chunked or not, with swapping, failing
  steps and aborts. `Steady` is what holds until a request is preempted on the
  fly: the queue or list a request is in tells its status (`InPlace`), less is
  computed of it than it is long and what is computed has its slots (`Cached`),
  and a batch computes, for each request in it that has not ended, no more than it
  has slots for (`EntryOK`). The output of a step then fits the request it comes
  for (`OutcomeFits`), and the first in the waiting queue is as the assertions want
  it. A preemption is harmless if its victim is not on the fly, because then no
  batch has an entry of it: by `FlightInv`, what is in a batch is marked. Each turn
  of a loop changes one request, and by `QueueInv` that request is nowhere else.
- `BooksAreKept` (`SchedulersProof`): `CacheBooks`, for any number of requests,
  micro-batches and slots: what the sequences hold together never exceeds the
  cache, and the queues and tables keep their types. The slots given out are a
  set (`Taken`), so that their number is a cardinality. `BooksInv` adds that
  `Taken` is finite, which it is because it grows by finitely many at a time, also
  if there are infinitely many requests. A sequence gets what it lacks only if so
  many slots are free (`GivingKeepsBooks`), every other change takes slots back
  (`FreeingKeepsBooks`). It holds after a preemption on the fly as well: the late
  output makes a sequence longer that holds no slots.
- `SchedulerKeepsPromise`: the scheduler implements `MicroBatches`, with the
  requests in a flight as what is executing. Finishing a pass is the abstract
  start, completion and failure the abstract end; every other action stutters.
- `EveryMarkIsExecuted` (`EngineLoopProof`): `MarksAreExecuted`, for any number of
  requests and tasks, whatever steps fail and tasks raise. `EngineInv` adds that only
  a task that is executing holds a batch (`TasksInv`), so restarting a task that is
  done loses none; that batches are disjoint and are the marks but for those of
  failed steps, which are in no batch again (`MarksInv`); and that the loop never
  comes to rest (`NeverRests`): `WakeUp` replaces every task, and is harmless only
  because it happens once, before there is one. That the loop never rests is also
  one of the weaknesses above.
- `RequestsKeepTheirPlaces` (`EngineLoopProof`): `RequestsHavePlaces`, for any
  number of requests and tasks, with refused and ignored prompts and tasks that
  raise. On top of `EngineInv`, `PlacesInv` says that the
  tracker, the tasks that add and the scheduler hold different requests and none
  twice (`Disjoint`), so that "one place" is a matter of sets and the counting
  comes last (`PlacesCounted`); that whoever is asked for is somewhere and can be
  answered (`Placed`); that nothing is aborted that nobody cancelled, and that a
  cancelled request still in the tracker is in its list of aborts
  (`AbortsAreAsked`), which is why a request is not both taken in and aborted. What a
  step ignores has left the queue and is in no other step (`IgnoredApart`). If
  adding does not suspend, one task adds at a time, and what was given up and is
  still there has its abort ahead of it (`AbortsComeLast`), unless the abort ended
  with a task.
- `WorkersExecuteSameSteps` (`NodesProof`): `SameSteps`, for any number of
  workers, virtual engines and steps. Because of the lock, at most one step
  is running, and it is the newest (`OneRuns`); because a forward pass is
  collective, the lock is only freed when every worker has executed it. So a worker
  has executed all steps that were begun (`UpToDate`), or all but the newest, whose
  input is still to be sent to it or the only one on its way there (`OneBehind`).

- `ResultsFollowLists` (`NodesProof`): `PathFollowsList`, for any number of v0 servers
  and virtual engines, whatever joins, drops out of the list or is lost: the path of a
  result is its list, if the head is in it. If it is not, all that is left is that the
  result came from the last stage (see `SkippedServer`). `PathInv` says of everything
  under way that it has been through the head and then the servers of its list from
  the second on, and is at the next one (`IsAt`), and of every result that it has been
  through all of them (`IsWhole`). The head has the first layers, so the first of the
  list is the head if the head is in the list at all. The list a step takes is sorted
  by layers (`ServerListSorted`, from the ranks that the topology proofs use), so a
  server stands in it once and has one successor, and the last stage, which returns
  its output to the head without looking at the list, can only be its end.
- `StepsTakeTheirResults` (`NodesProof`): `BatchHasCompleted`. A trigger names
  a virtual engine and no batch, so what must be shown is that there is never
  another one to be found. `OneStepAtATime` says that each virtual engine has one
  thing under way at most, whatever and wherever it is (`OnePlace`), that it is of
  the step being waited for (`AllDue`), that a server has one trigger at most
  (`TriggeredOnce`), and that servers that still have one are servers that the thing
  under way has still to pass (`Due`). A complete result has none of those ahead,
  so when the step takes it, nothing is left. A lost call only takes away. It
  is inductive together with `PathInv`, until a step runs past the end of a list.

- `PlanIsSound` (`EngineLoopProof`): `PlanSound`, for any table, any number of
  requests and any times on the wire. The limit is the quotient plus one, and the
  remainder is less than the divisor (`Quotient`). That the number is the least
  needs that the loop has tried every smaller one (`Tried`), and that interpolating
  between a size and the one before gives what was measured (`LatencyIsMeasured`),
  which holds as long as the size is in the table (`PlannedSize`).
- `AddressesAreRight` (`NodesProof`): `AddressesHold`, for any number of nodes,
  machines, ports and crashes. A free port is always found, because fewer nodes than
  ports can listen (`FreePort`). `PortsInv` says that one node of a machine at a time
  comes up, that nobody listens at the port it has probed, and that no two servers
  share an address; a server starts only at such a port. What the head knows of a node
  it learns from a server that is up, so an address without one is one where a process
  died.
- `PlaceholdersMatch` (`SchedulersProof`): `PlaceholdersAreDue`, for any number of
  requests, draft tokens and preemptions, with at most two steps outstanding. The
  property compares a count with the steps under way (`Due`, the cardinality of a
  set of pairs of step and token). `AsyncInv` says per request how far it is
  (`Owed`): a running request with placeholders has computed everything before its
  last placeholder, so whatever it takes next makes it sample, as the code
  counts on. A preempted one has computed nothing, and if it still has placeholders
  there are two steps under way, of which the younger is without it, because that
  is the step that preempted it; the queue is full, so it is not taken in again
  before the older one's output has freed it. With a third step it is: TLC then
  finds a request that samples in two steps and has the placeholder of one.
- `DummiesFit` (`VideoBudgetProof`): `DummyVideosFit`, and beyond it that no number
  of frames above the one found fits (`NoMoreFramesFit`), for any size of a temporal
  patch, any pictures of whole merged patches, any context, and any number of
  images and videos. The padding of the code adds the remainder, which is not what
  fills the last patch, but with temporal patches of T frames, n frames still have
  g patches with n - T + 1 <= T * g <= n + T - 1, and more frames never have fewer
  (`GridTGrows`). So stopping at the first number that does not fit is right, and
  videos that share the frames out cost at most one patch each (`SharedTokens`).

Assumed of the constants: the head is a node, layers are integers, launch
layouts assign a start and an end layer to every node, bounds are naturals, and
`NoBatch` is not a batch. The runs with documented or mistaken layouts satisfy
`HeadStartsFirst` and `HeadHoldsFirstLayer`; `PipelineSync` satisfies
`OneAtATime`, and `ForeignResult` is the counterexample without it.
`NothingLeftBehind` and `PipelineIsService` also assume what launching as
documented gives: the head holds the last layer only if it is alone
(`HeadEndsEarly`), since a head whose range reaches the end takes its own hidden
states for the answer; and no other node starts at layer 0 (`OnlyHeadFirst`).
The refinement needs finitely many nodes. In v0 the
assumptions are that the engine may have at least one task, that there is at least
one server, and that `max_batch_num` is more than the number of stages.
`PlaceholdersMatch` assumes that at most two steps are outstanding, as many as the
engine core keeps in its batch queue. `DummiesFit` assumes that the sides of a
picture are whole numbers of merged patches, which is how `smart_resize` rounds them.

Only model-checked are the liveness properties (`AllEnd`, and those of `PipelineLive`,
`Engine` and `Nodes`), since the prover knows neither fairness nor ENABLED, and the
invariants of the models: `DivisionComposes`, `ReadsWhatItLoaded`,
`RowsReachTheirPlaceholders` and `MergedPatchesAreNeighbours`. The models' are about
folds over layers, checkpoint entries and rows of patches; what a fold computes for
every input needs induction over data. Every other property of a passing run is a
theorem.

## Plan

1. The composition of `MolinkScheduler` with `SwarmPipeline`, where a failed step
   leaves both marks and a stale result; v0's start-up order; shutdown.
2. The models' invariants for any number of layers, with a prover that can
   instantiate the library's induction theorems.
