-------------------------- MODULE MolinkScheduler ---------------------------
(***************************************************************************)
(* The v0 scheduler, shared by all micro-batches (core/scheduler.py), with *)
(* the part of a step that surrounds it (engine/molink_engine.py): a       *)
(* micro-batch asks for a schedule, its requests are on the fly until its  *)
(* output comes back, and other micro-batches must pass them over.         *)
(*                                                                         *)
(* One schedule is a pass over the queues without an await in it.  Its     *)
(* loops are unrolled, an action for a turn of a loop; nothing else moves  *)
(* until the pass is over.  A token takes a slot of the cache (blocks of   *)
(* one token), and a pass has budget for all the tokens it meets.          *)
(***************************************************************************)
EXTENDS Queues, SequencesExt

CONSTANTS
    Requests,       \* request ids
    Ctxs,           \* micro-batches (ctx_idx)
    Prompt,         \* tokens of a prompt
    MaxLen,         \* tokens of a finished sequence
    TotalSlots,     \* slots of the cache
    ScheduleLimit,  \* schedule_limit
    Chunked,        \* chunked_prefill_enabled
    PreemptionModes,    \* of "recompute" and "swap": what _preempt may choose
    MayFail,        \* may a step fail: its execution, or for lack of swap space?
    MayAbort        \* may clients abort?

ASSUME MolinkSchedulerAssumption ==
    /\ Prompt \in Nat \ {0} /\ MaxLen \in Nat /\ MaxLen > Prompt
    /\ TotalSlots \in Nat /\ ScheduleLimit \in Nat \ {0}
    /\ Chunked \in BOOLEAN /\ MayFail \in BOOLEAN /\ MayAbort \in BOOLEAN
    /\ PreemptionModes \subseteq {"recompute", "swap"}

VARIABLES
    waiting, running, swapped,  \* the queues, of request ids
    onFly,      \* requests_on_fly
    flight,     \* of each micro-batch: the [req, chunk] it is executing
    status,     \* of each request, SequenceStatus, or "new"
    len,        \* tokens of each sequence
    computed,   \* num_computed_tokens of each sequence
    slots,      \* slots each sequence holds
    pc,         \* the loop the pass is in, or "idle"
    ctx,        \* whose pass it is
    batch,      \* the [req, chunk] scheduled so far in it
    count,      \* num_scheduled of the loop
    reserve,    \* reserve_queue of the loop
    preempted, swappedOut, swappedIn, decodes, prefills,    \* results of the loops
    raised,     \* of "assertion" and "swap space": what has ended passes (history)
    snatched    \* was a request preempted while on the fly? (history)

queues == <<waiting, running, swapped>>
sequences == <<status, len, computed, slots>>
results == <<preempted, swappedOut, swappedIn, decodes, prefills>>
vars ==
    <<queues, onFly, flight, sequences, pc, ctx, batch, count, reserve, results, raised,
      snatched>>

-----------------------------------------------------------------------------
(* The slots that are given out: the i-th of each sequence.                *)
Taken == UNION {{r} \X (1..slots[r]) : r \in Requests}
Free == TotalSlots - Cardinality(Taken)
Live == {"waiting", "running", "swapped"}
Scheduled(b) == {e.req : e \in b}

Init ==
    /\ waiting = <<>> /\ running = <<>> /\ swapped = <<>>
    /\ onFly = {}
    /\ flight = [c \in Ctxs |-> {}]
    /\ status = [r \in Requests |-> "new"]
    /\ len = [r \in Requests |-> Prompt]
    /\ computed = [r \in Requests |-> 0]
    /\ slots = [r \in Requests |-> 0]
    /\ pc = "idle" /\ ctx \in Ctxs /\ batch = {} /\ count = 0 /\ reserve = <<>>
    /\ preempted = <<>> /\ swappedOut = <<>> /\ swappedIn = <<>>
    /\ decodes = <<>> /\ prefills = <<>>
    /\ raised = {} /\ snatched = FALSE

(* engine_step adds the requests that have come in.                        *)
AddRequest(r) ==
    /\ pc = "idle"
    /\ status[r] = "new"
    /\ waiting' = Append(waiting, r)
    /\ status' = [status EXCEPT ![r] = "waiting"]
    /\ UNCHANGED <<running, swapped, onFly, flight, len, computed, slots, pc, ctx,
                   batch,
                   count, reserve, results, raised, snatched>>

(* _engine_abort: the scheduler of vLLM takes the group out of its queue   *)
(* and frees its slots, on the fly or not; it does not find a group that   *)
(* is in no queue.                                                         *)
Abort(r) ==
    /\ MayAbort
    /\ pc = "idle"
    /\ status[r] \in Live /\ r \in ToSet(waiting \o running \o swapped)
    /\ waiting' = Without(waiting, {r})
    /\ running' = Without(running, {r})
    /\ swapped' = Without(swapped, {r})
    /\ status' = [status EXCEPT ![r] = "finished"]
    /\ slots' = [slots EXCEPT ![r] = 0]
    /\ UNCHANGED <<onFly, flight, len, computed, pc, ctx, batch, count, reserve,
                   results, raised, snatched>>

-----------------------------------------------------------------------------
(* step_async calls schedule().  With chunked prefill the running queue    *)
(* comes first; without, vLLM's own order: prompts, unless some group is   *)
(* swapped out, and the rest only if there were none.                      *)
BeginPass(c) ==
    /\ pc = "idle"
    /\ flight[c] = {}
    /\ ctx' = c
    /\ pc' = IF Chunked \/ swapped # <<>> THEN "running" ELSE "prefills"
    /\ batch' = {} /\ count' = 0 /\ reserve' = <<>>
    /\ preempted' = <<>> /\ swappedOut' = <<>> /\ swappedIn' = <<>>
    /\ decodes' = <<>> /\ prefills' = <<>>
    /\ UNCHANGED <<queues, onFly, flight, sequences, raised, snatched>>

NextLoop(loop) == pc' = loop /\ count' = 0 /\ reserve' = <<>>

(* What a loop passed over goes back to the front of its queue.            *)
PutBack_Lost(q) == q            \* mutant: the reserve queue is dropped
PutBack(q) == reserve \o q

(* requests_on_fly.add, and the batch grows.                               *)
Mark(r, chunk) ==
    /\ onFly' = onFly \union {r}
    /\ batch' = batch \union {[req |-> r, chunk |-> chunk]}

-----------------------------------------------------------------------------
(* _schedule_running.                                                      *)
SkipsOnFly_Never(r) == FALSE    \* mutant: requests_on_fly is not looked at
SkipsOnFly(r) == r \in onFly
RunningTurn == pc = "running" /\ running # <<>> /\ count < ScheduleLimit
CanAppendSlots_Always(r) == TRUE        \* mutant: nobody asks
CanAppendSlots(r) == Free >= len[r] - slots[r]

AppendSlots(r) == slots' = [slots EXCEPT ![r] = len[r]]

SkipRunning ==
    /\ RunningTurn
    /\ SkipsOnFly(Head(running))
    /\ running' = Tail(running)
    /\ reserve' = Append(reserve, Head(running))
    /\ UNCHANGED <<waiting, swapped, onFly, flight, sequences, pc, ctx, batch, count,
                   results, raised, snatched>>

ScheduleRunning(r) ==
    /\ RunningTurn /\ r = Head(running)
    /\ ~SkipsOnFly(r)
    /\ CanAppendSlots(r)
    /\ AppendSlots(r)
    /\ decodes' = Append(decodes, r)
    /\ Mark(r, 1)
    /\ running' = Tail(running)
    /\ count' = count + 1
    /\ UNCHANGED <<waiting, swapped, flight, status, len, computed, pc, ctx, reserve,
                   preempted, swappedOut, swappedIn, prefills, raised, snatched>>

(* vLLM's _preempt: recomputing forgets what was computed, swapping keeps  *)
(* it elsewhere; both free the slots.  Which one depends on the options    *)
(* and on the number of sequences of the group.                            *)
Preempt_KeepsComputed(v) ==     \* mutant: recomputing forgets nothing
    /\ slots' = [slots EXCEPT ![v] = 0]
    /\ status' = [status EXCEPT ![v] = "waiting"]
    /\ preempted' = Append(preempted, v)
    /\ UNCHANGED <<computed, swappedOut>>
Preempt(v) ==
    /\ slots' = [slots EXCEPT ![v] = 0]
    /\ \/ /\ "recompute" \in PreemptionModes
          /\ status' = [status EXCEPT ![v] = "waiting"]
          /\ computed' = [computed EXCEPT ![v] = 0]
          /\ preempted' = Append(preempted, v)
          /\ UNCHANGED swappedOut
       \/ /\ "swap" \in PreemptionModes
          /\ status' = [status EXCEPT ![v] = "swapped"]
          /\ swappedOut' = Append(swappedOut, v)
          /\ UNCHANGED <<computed, preempted>>

(* No slot for the head of the queue: the last in the queue gives up its   *)
(* own, whether it is on the fly or not; the head itself if it is alone.   *)
PreemptLast ==
    /\ RunningTurn
    /\ ~SkipsOnFly(Head(running))
    /\ ~CanAppendSlots(Head(running))
    /\ Preempt(Last(running))
    /\ running' = Front(running)
    /\ snatched' = (snatched \/ Last(running) \in onFly)
    /\ UNCHANGED <<waiting, swapped, onFly, flight, len, pc, ctx, batch, count, reserve,
                   swappedIn, decodes, prefills, raised>>

(* There is no swap space for it either: vLLM raises, and the handler      *)
(* around the loop returns nothing, which the caller takes an attribute    *)
(* of.  The head and the last are in no queue by then, and what the loop   *)
(* held of others is dropped: the requests it passed over, preempted or    *)
(* scheduled, the latter with their marks.                                 *)
SwapSpaceRunsOut ==
    /\ MayFail /\ "swap" \in PreemptionModes
    /\ RunningTurn
    /\ ~SkipsOnFly(Head(running))
    /\ ~CanAppendSlots(Head(running))
    /\ running' = IF Len(running) = 1 THEN <<>> ELSE Front(Tail(running))
    /\ pc' = "idle"
    /\ raised' = raised \union {"swap space"}
    /\ batch' = {} /\ reserve' = <<>>
    /\ UNCHANGED <<waiting, swapped, onFly, flight, sequences, ctx, count, results,
                   snatched>>

EndRunning ==
    /\ pc = "running"
    /\ ~RunningTurn
    /\ running' = PutBack(running)
    /\ NextLoop(IF preempted = <<>> /\ swappedOut = <<>> THEN "swapped"
                ELSE IF Chunked THEN "prefills" ELSE "finish")
    /\ UNCHANGED <<waiting, swapped, onFly, flight, sequences, ctx, batch, results,
                   raised, snatched>>

-----------------------------------------------------------------------------
(* _schedule_swapped; it has no limit of its own.                          *)
SwappedTurn == pc = "swapped" /\ swapped # <<>>

SkipSwapped ==
    /\ SwappedTurn
    /\ SkipsOnFly(Head(swapped))
    /\ swapped' = Tail(swapped)
    /\ reserve' = Append(reserve, Head(swapped))
    /\ UNCHANGED <<waiting, running, onFly, flight, sequences, pc, ctx, batch, count,
                   results, raised, snatched>>

SwapIn(r) ==
    /\ SwappedTurn /\ r = Head(swapped)
    /\ ~SkipsOnFly(r)
    /\ len[r] <= Free
    /\ status' = [status EXCEPT ![r] = "running"]
    /\ AppendSlots(r)
    /\ swappedIn' = Append(swappedIn, r)
    /\ Mark(r, 1)
    /\ swapped' = Tail(swapped)
    /\ UNCHANGED <<waiting, running, flight, len, computed, pc, ctx, count, reserve,
                   preempted, swappedOut, decodes, prefills, raised, snatched>>

(* can_swap_in says NEVER: the request is given up.                        *)
DropSwapped ==
    /\ SwappedTurn
    /\ ~SkipsOnFly(Head(swapped))
    /\ len[Head(swapped)] > TotalSlots
    /\ status' = [status EXCEPT ![Head(swapped)] = "ignored"]
    /\ swapped' = Tail(swapped)
    /\ UNCHANGED <<waiting, running, onFly, flight, len, computed, slots, pc, ctx,
                   batch,
                   count, reserve, results, raised, snatched>>

SwappedStops ==
    swapped # <<>> => LET r == Head(swapped)
                      IN  ~SkipsOnFly(r) /\ len[r] > Free /\ len[r] <= TotalSlots

EndSwapped ==
    /\ pc = "swapped"
    /\ SwappedStops
    /\ swapped' = PutBack(swapped)
    /\ NextLoop(IF Chunked THEN "prefills" ELSE "finish")
    /\ UNCHANGED <<waiting, running, onFly, flight, sequences, ctx, batch, results,
                   raised, snatched>>

-----------------------------------------------------------------------------
(* _schedule_prefills.                                                     *)
PrefillTurn == pc = "prefills" /\ waiting # <<>> /\ count < ScheduleLimit

SkipWaiting ==
    /\ PrefillTurn
    /\ SkipsOnFly(Head(waiting))
    /\ waiting' = Tail(waiting)
    /\ reserve' = Append(reserve, Head(waiting))
    /\ UNCHANGED <<running, swapped, onFly, flight, sequences, pc, ctx, batch, count,
                   results, raised, snatched>>

(* "assert len(waiting_seqs) == 1": the sequence is still waiting.  And    *)
(* without chunking "assert num_new_tokens == num_prompt_tokens": nothing  *)
(* of it is computed.                                                      *)
OnePrompt(r) == status[r] = "waiting"
NumNewTokens(r) == len[r] - computed[r]
AssertsHold(r) == OnePrompt(r) /\ (Chunked \/ NumNewTokens(r) = len[r])

SchedulePrefill(r) ==
    /\ PrefillTurn /\ r = Head(waiting)
    /\ ~SkipsOnFly(r)
    /\ AssertsHold(r)
    /\ len[r] <= Free
    /\ slots' = [slots EXCEPT ![r] = len[r]]
    /\ status' = [status EXCEPT ![r] = "running"]
    /\ prefills' = Append(prefills, r)
    /\ Mark(r, NumNewTokens(r))
    /\ waiting' = Tail(waiting)
    /\ count' = count + 1
    /\ UNCHANGED <<running, swapped, flight, len, computed, pc, ctx, reserve, preempted,
                   swappedOut, swappedIn, decodes, raised, snatched>>

(* can_allocate says NEVER: the request is ignored.                        *)
IgnorePrompt ==
    /\ PrefillTurn
    /\ ~SkipsOnFly(Head(waiting))
    /\ AssertsHold(Head(waiting))
    /\ len[Head(waiting)] > TotalSlots
    /\ status' = [status EXCEPT ![Head(waiting)] = "ignored"]
    /\ waiting' = Tail(waiting)
    /\ UNCHANGED <<running, swapped, onFly, flight, len, computed, slots, pc, ctx,
                   batch,
                   count, reserve, results, raised, snatched>>

(* An assertion fails: the exception ends the step, with the queues as     *)
(* they are; what the loops had taken out of them is not put back.         *)
FailAssertion ==
    /\ PrefillTurn
    /\ ~SkipsOnFly(Head(waiting))
    /\ ~AssertsHold(Head(waiting))
    /\ pc' = "idle"
    /\ raised' = raised \union {"assertion"}
    /\ batch' = {} /\ reserve' = <<>>
    /\ UNCHANGED <<queues, onFly, flight, sequences, ctx, count, results, snatched>>

PrefillsStop ==
    waiting # <<>> /\ count < ScheduleLimit =>
        LET r == Head(waiting)
        IN  ~SkipsOnFly(r) /\ AssertsHold(r) /\ len[r] > Free /\ len[r] <= TotalSlots

EndPrefills ==
    /\ pc = "prefills"
    /\ PrefillsStop
    /\ waiting' = PutBack(waiting)
    /\ NextLoop(IF Chunked \/ prefills # <<>> THEN "finish" ELSE "running")
    /\ UNCHANGED <<running, swapped, onFly, flight, sequences, ctx, batch, results,
                   raised, snatched>>

-----------------------------------------------------------------------------
(* The preempted go back to the front of the waiting queue.                *)
Rewaiting == Reverse(preempted) \o waiting

(* The queues take in what the loops moved; the step starts executing, or  *)
(* returns if there is nothing to execute.                                 *)
FinishPass ==
    /\ pc = "finish"
    /\ waiting' = Rewaiting
    /\ running' = IF Chunked THEN running \o swappedIn \o decodes \o prefills
                             ELSE running \o prefills \o decodes \o swappedIn
    /\ swapped' = swapped \o swappedOut
    /\ flight' = [flight EXCEPT ![ctx] = batch]
    /\ pc' = "idle"
    /\ batch' = {}
    /\ UNCHANGED <<onFly, sequences, ctx, count, reserve, results, raised, snatched>>

(* The output of a step: each sequence gets its token, finished ones leave *)
(* the running queue and free their slots, and mark_seq_as_schedule_free   *)
(* lets the others be scheduled again.                                     *)
Outcome(c, r) ==
    LET chunk == (CHOOSE e \in flight[c] : e.req = r).chunk
    IN  [len |-> len[r] + 1, computed |-> computed[r] + chunk]

KeepsMark_None(c) == {}         \* mutant: every mark is removed
KeepsMark_All(c) == onFly       \* mutant: none is
KeepsMark(c) == onFly \ Scheduled(flight[c])

Complete(c) ==
    /\ pc = "idle"
    /\ flight[c] # {}
    /\ LET done == {r \in Scheduled(flight[c]) : status[r] \in Live}
           final == {r \in done : Outcome(c, r).len >= MaxLen}
           freed == {r \in final : r \in ToSet(running)}
       IN  /\ len' = [r \in Requests |-> IF r \in done THEN Outcome(c, r).len ELSE len[r]]
           /\ computed' = [r \in Requests |->
                IF r \in done THEN Outcome(c, r).computed ELSE computed[r]]
           /\ status' = [r \in Requests |-> IF r \in final THEN "finished" ELSE status[r]]
           /\ slots' = [r \in Requests |-> IF r \in freed THEN 0 ELSE slots[r]]
           /\ running' = Without(running, final)
    /\ onFly' = KeepsMark(c)
    /\ flight' = [flight EXCEPT ![c] = {}]
    /\ UNCHANGED <<waiting, swapped, pc, ctx, batch, count, reserve, results, raised,
                   snatched>>

(* Execution raised, or returned nothing: the exception ends the step.     *)
Fail(c) ==
    /\ MayFail
    /\ pc = "idle"
    /\ flight[c] # {}
    /\ flight' = [flight EXCEPT ![c] = {}]
    /\ UNCHANGED <<queues, onFly, sequences, pc, ctx, batch, count, reserve, results,
                   raised, snatched>>

Turn ==
    \/ SkipRunning \/ PreemptLast \/ SwapSpaceRunsOut \/ EndRunning
    \/ SkipSwapped \/ DropSwapped \/ EndSwapped
    \/ SkipWaiting \/ IgnorePrompt \/ FailAssertion \/ EndPrefills
    \/ \E r \in Requests : ScheduleRunning(r) \/ SwapIn(r) \/ SchedulePrefill(r)
    \/ FinishPass

Next ==
    \/ \E r \in Requests : AddRequest(r) \/ Abort(r)
    \/ Turn
    \/ \E c \in Ctxs : BeginPass(c) \/ Complete(c) \/ Fail(c)

Spec == Init /\ [][Next]_vars

(* The engine loop restarts a step as soon as it is done, the scheduler    *)
(* runs to its end, and an execution that does not fail answers.           *)
FairSpec ==
    /\ Spec
    /\ WF_vars(Turn)
    /\ \A c \in Ctxs : SF_vars(BeginPass(c)) /\ SF_vars(Complete(c))

-----------------------------------------------------------------------------
(* Types, and the books of the cache: no slot is given out twice, also     *)
(* when a step brings its output for a request that has been preempted     *)
(* meanwhile and its sequence grows while it holds no slots.               *)
SchedulerTypeOK ==
    /\ waiting \in Seq(Requests) /\ running \in Seq(Requests) /\ swapped \in Seq(Requests)
    /\ onFly \subseteq Requests
    /\ \A c \in Ctxs : Scheduled(flight[c]) \subseteq Requests
    /\ status \in [Requests -> Live \union {"new", "finished", "ignored"}]
    /\ len \in [Requests -> Nat]
    /\ slots \in [Requests -> 0..TotalSlots]
CacheBooks == SchedulerTypeOK /\ Free >= 0

(* A request is in the batch of at most one micro-batch, the one being put *)
(* together included, and once: whatever is preempted, aborted or fails in *)
(* between (scheduler.py:219, :372, :506).                                 *)
NoDoubleFlight ==
    /\ \A c, d \in Ctxs : c # d => Scheduled(flight[c]) \cap Scheduled(flight[d]) = {}
    /\ \A c \in Ctxs : Scheduled(flight[c]) \cap Scheduled(batch) = {}
    /\ \A c \in Ctxs : \A e, f \in flight[c] : e.req = f.req => e = f

(* The scheduler keeps the promise of MicroBatches: a pass gives its       *)
(* micro-batch only requests that no other one is executing, and only when *)
(* it has none (molink_engine.py:89, "the scheduler is only called again   *)
(* when the current batch has completed").                                 *)
Executing == [c \in Ctxs |-> Scheduled(flight[c])]
Promise == INSTANCE MicroBatches WITH executing <- Executing
KeepsPromise == Promise!Spec

(* No request is lost or duplicated between the queues and, during a pass, *)
(* the lists of the loops: none is at two places, or twice at one; one     *)
(* that has not ended is at exactly one, unless an exception has ended a   *)
(* pass; and none that has ended is among the running.                     *)
Copies(r) ==
    LET queued == Occurrences(waiting, r) + Occurrences(running, r)
                  + Occurrences(swapped, r)
        moved == Occurrences(reserve, r) + Occurrences(preempted, r)
                 + Occurrences(swappedOut, r) + Occurrences(swappedIn, r)
                 + Occurrences(decodes, r) + Occurrences(prefills, r)
    IN  IF pc = "idle" THEN queued ELSE queued + moved
OneQueueEach ==
    \A r \in Requests :
        /\ Copies(r) <= 1
        /\ status[r] \in Live /\ raised = {} => Copies(r) = 1
        /\ status[r] \notin Live /\ pc = "idle" => Occurrences(running, r) = 0

(* Until a request is preempted while on the fly (scheduler.py:267), no    *)
(* assertion of _schedule_prefills (:512, :532) ends a pass, a request     *)
(* that has ended is in no queue, and no sequence goes on from tokens      *)
(* whose slots were given to another.  After it, the output of the step    *)
(* comes for a request that is waiting or swapped out.                     *)
EndedAreGone == \A r \in Requests : status[r] \notin Live => Copies(r) = 0
ComputedIsCached ==
    \A r \in Requests : status[r] = "running" => computed[r] <= slots[r]
SoundUntilSnatched ==
    ~snatched => "assertion" \notin raised /\ EndedAreGone /\ ComputedIsCached

(* Every request that is added is finished or ignored in the end.          *)
RequestsEnd ==
    \A r \in Requests : status[r] = "waiting" ~> status[r] \in {"finished", "ignored"}
=============================================================================
