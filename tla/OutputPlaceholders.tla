------------------------- MODULE OutputPlaceholders -------------------------
(***************************************************************************)
(* The placeholder accounting of molinkv1/scheduler.py                     *)
(* (MolinkAsyncScheduler).  With asynchronous scheduling a request enters  *)
(* its next step before the tokens of the last one are known; they are     *)
(* counted as placeholders until the output arrives.  What a step takes,   *)
(* whom it preempts and how many draft tokens a worker accepts is vLLM's   *)
(* doing and left open; the scheduler's own code is in AfterSchedule,      *)
(* PlaceholdersLeft and CachedTokens.  The flag for structured output is   *)
(* left out, and of the call into the block manager only the number of     *)
(* tokens it is given is kept.                                             *)
(***************************************************************************)
EXTENDS Integers, FiniteSetsExt, SequencesExt

CONSTANTS
    AsyncRequests,  \* the requests of v1
    PromptLen,      \* tokens of a prompt
    MaxTokens,      \* bound: tokens a request may generate
    NumSpec,        \* num_spec_tokens: draft tokens per step
    MaxOutstanding  \* steps the engine core keeps in its batch queue

ASSUME OutputPlaceholdersAssumption ==
    /\ PromptLen \in Nat \ {0} /\ MaxTokens \in Nat \ {0}
    /\ NumSpec \in Nat /\ MaxOutstanding \in Nat \ {0}

VARIABLES
    request_status, \* "running", "preempted" or "finished"
    num_tokens,     \* tokens the scheduler knows of
    num_computed_tokens,
    num_output_placeholders,
    spec_token_ids, \* how many draft tokens the next step may verify
    cached,         \* tokens last given to cache_blocks
    batch_queue     \* steps executing, oldest first

request_vars == <<request_status, num_tokens, num_computed_tokens,
                  num_output_placeholders, spec_token_ids, cached>>
async_vars == <<request_vars, batch_queue>>

(* What a step holds for a request: its tokens, the drafts among them, and *)
(* whether the worker samples because it reached the last token it has.    *)
Entry == [tokens : Nat, spec : Nat, samples : BOOLEAN]

Unfinished == {r \in AsyncRequests : request_status[r] # "finished"}

AsyncInit ==
    /\ request_status = [r \in AsyncRequests |-> "preempted"]  \* all in waiting
    /\ num_tokens = [r \in AsyncRequests |-> PromptLen]
    /\ num_computed_tokens = [r \in AsyncRequests |-> 0]
    /\ num_output_placeholders = [r \in AsyncRequests |-> 0]
    /\ spec_token_ids = [r \in AsyncRequests |-> 0]
    /\ cached = [r \in AsyncRequests |-> 0]
    /\ batch_queue = <<>>

-----------------------------------------------------------------------------
(* vLLM's schedule(): a running request goes on with all it has not        *)
(* computed yet, or part of it, unless the tokens under way are certain to *)
(* reach max_tokens; a request out of waiting starts over.                 *)
Outstanding(r) ==
    IF request_status[r] = "running"
    THEN num_tokens[r] + spec_token_ids[r] + num_output_placeholders[r]
         - num_computed_tokens[r]
    ELSE num_tokens[r]

SureToStop(r) ==
    /\ request_status[r] = "running" /\ num_output_placeholders[r] > 0
    /\ num_computed_tokens[r] + 2 - num_output_placeholders[r]
         >= PromptLen + MaxTokens

Known(r) == num_tokens[r] + IF request_status[r] = "running"
                            THEN num_output_placeholders[r] ELSE 0

EntryOf(r, n) ==
    LET computed == n + IF request_status[r] = "running"
                        THEN num_computed_tokens[r] ELSE 0
    IN  [tokens |-> n, spec |-> Max({0, computed - Known(r)}),
         samples |-> computed >= Known(r)]

-----------------------------------------------------------------------------
AfterSchedule_OneEach(step, computed) ==  \* mutant: forgets the drafts
    /\ num_output_placeholders' = [r \in AsyncRequests |->
         num_output_placeholders[r]
         + IF r \in DOMAIN step /\ step[r].samples THEN 1 ELSE 0]
    /\ spec_token_ids' = [r \in AsyncRequests |->
         IF r \in DOMAIN step /\ step[r].samples THEN NumSpec ELSE 0]

(* _update_after_schedule: a request that has computed all its tokens,     *)
(* placeholders and drafts will produce one more, and the accepted drafts. *)
(* schedule() itself emptied spec_token_ids of every request in the step.  *)
AfterSchedule(step, computed) ==
    LET CatchesUp(r) ==
          /\ r \in DOMAIN step
          /\ computed[r] = num_tokens[r] + num_output_placeholders[r]
                            + step[r].spec
    IN  /\ num_output_placeholders' = [r \in AsyncRequests |->
            IF CatchesUp(r) THEN num_output_placeholders[r] + 1 + step[r].spec
            ELSE num_output_placeholders[r]]
        /\ spec_token_ids' = [r \in AsyncRequests |->
            IF CatchesUp(r) THEN NumSpec
            ELSE IF r \in DOMAIN step THEN 0 ELSE spec_token_ids[r]]

(* A step: some requests are preempted to make room, and only if none is   *)
(* may requests be taken from waiting.                                     *)
Schedule(chosen, preempted) ==
    /\ Len(batch_queue) < MaxOutstanding
    /\ Unfinished # {}
    /\ chosen \subseteq {r \in Unfinished : Outstanding(r) > 0 /\ ~SureToStop(r)}
    /\ preempted \subseteq {r \in Unfinished : request_status[r] = "running"} \ chosen
    /\ preempted = {} \/ \A r \in chosen : request_status[r] = "running"
    /\ \E amounts \in [chosen -> 1..(PromptLen + MaxTokens + NumSpec)] :
         /\ \A r \in chosen : amounts[r] =< Outstanding(r)
         /\ LET step == [r \in chosen |-> EntryOf(r, amounts[r])]
                computed == [r \in AsyncRequests |->
                    IF r \in preempted THEN 0
                    ELSE IF r \notin chosen THEN num_computed_tokens[r]
                    ELSE amounts[r] + IF request_status[r] = "running"
                                      THEN num_computed_tokens[r] ELSE 0]
            IN  /\ batch_queue' = Append(batch_queue, step)
                /\ num_computed_tokens' = computed
                /\ AfterSchedule(step, computed)
    /\ request_status' = [r \in AsyncRequests |->
         IF r \in preempted THEN "preempted"
         ELSE IF r \in chosen THEN "running" ELSE request_status[r]]
    /\ UNCHANGED <<num_tokens, cached>>

-----------------------------------------------------------------------------
(* update_from_output takes back the rejected drafts, for computed tokens  *)
(* and placeholders alike, but never below a count that is zero already.   *)
TakeBack(count, rejected) == IF count > 0 THEN count - rejected ELSE count

(* ... and caches what is computed and no placeholder.                     *)
CachedTokens(r, entry, accepted, left) ==
    TakeBack(num_computed_tokens[r], entry.spec - accepted) - left

(* _update_request_with_output: as many placeholders fewer as tokens came. *)
PlaceholdersLeft(r, entry, accepted, new) ==
    TakeBack(num_output_placeholders[r], entry.spec - accepted) - new

(* The oldest step's output arrives.  accepted counts the drafts each      *)
(* request gets, ended the requests that stop at the last of their tokens; *)
(* a request that has finished meanwhile is skipped.                       *)
Update ==
    /\ batch_queue # <<>>
    /\ batch_queue' = Tail(batch_queue)
    /\ LET step == Head(batch_queue)
           answered == {r \in DOMAIN step \cap Unfinished : step[r].samples}
       IN  \E accepted \in [answered -> 0..NumSpec], ended \in SUBSET answered :
             LET New(r) == Min({accepted[r] + 1,
                                PromptLen + MaxTokens - num_tokens[r]})
                 left == [r \in answered |->
                            PlaceholdersLeft(r, step[r], accepted[r], New(r))]
             IN  /\ \A r \in answered : accepted[r] =< step[r].spec
                 /\ num_tokens' = [r \in AsyncRequests |->
                      num_tokens[r] + IF r \in answered THEN New(r) ELSE 0]
                 /\ num_output_placeholders' = [r \in AsyncRequests |->
                      IF r \in answered THEN left[r]
                      ELSE num_output_placeholders[r]]
                 /\ num_computed_tokens' = [r \in AsyncRequests |->
                      IF r \in answered
                      THEN TakeBack(num_computed_tokens[r],
                                    step[r].spec - accepted[r])
                      ELSE num_computed_tokens[r]]
                 /\ cached' = [r \in AsyncRequests |->
                      IF r \in answered /\ request_status[r] = "running"
                      THEN CachedTokens(r, step[r], accepted[r], left[r])
                      ELSE cached[r]]
                 /\ request_status' = [r \in AsyncRequests |->
                      IF /\ r \in answered
                         /\ \/ r \in ended
                            \/ num_tokens'[r] = PromptLen + MaxTokens
                      THEN "finished" ELSE request_status[r]]
    /\ UNCHANGED spec_token_ids

(* The client goes away; steps under way still hold the request.           *)
FinishRequest(r) ==
    /\ r \in Unfinished
    /\ request_status' = [request_status EXCEPT ![r] = "finished"]
    /\ UNCHANGED <<num_tokens, num_computed_tokens, num_output_placeholders,
                   spec_token_ids, cached, batch_queue>>

AsyncNext ==
    \/ \E chosen, preempted \in SUBSET AsyncRequests : Schedule(chosen, preempted)
    \/ Update
    \/ \E r \in AsyncRequests : FinishRequest(r)

AsyncSpec == AsyncInit /\ [][AsyncNext]_async_vars

-----------------------------------------------------------------------------
(* Every count has its type, the placeholders' being what the assertion of *)
(* _update_request_with_output says (scheduler.py:83).                     *)
PlaceholderTypeOK ==
    /\ request_status \in [AsyncRequests -> {"running", "preempted", "finished"}]
    /\ num_tokens \in [AsyncRequests -> PromptLen..(PromptLen + MaxTokens)]
    /\ num_computed_tokens \in [AsyncRequests -> Nat]
    /\ num_output_placeholders \in [AsyncRequests -> Nat]
    /\ spec_token_ids \in [AsyncRequests -> 0..NumSpec]
    /\ cached \in [AsyncRequests -> Nat]
    /\ \A i \in DOMAIN batch_queue :
          batch_queue[i] \in [DOMAIN batch_queue[i] -> Entry]

(* The tokens that the steps under way can bring a request: of each step   *)
(* in which it samples, one and the drafts.                                *)
Brings(step, r) ==
    IF r \in DOMAIN step /\ step[r].samples THEN 1 + step[r].spec ELSE 0
TokensDue(steps, r) == UNION {{i} \X (1..Brings(steps[i], r)) : i \in DOMAIN steps}
Due(r) == Cardinality(TokensDue(batch_queue, r))
CountsAreDue == \A r \in Unfinished : num_output_placeholders[r] = Due(r)

(* Only tokens that are known are ever cached: a block that held a draft   *)
(* or a placeholder would be shared with another request's prompt.         *)
KnownTokensCached == \A r \in AsyncRequests : cached[r] =< num_tokens[r]

(* An unfinished request's placeholders are exactly the tokens that the    *)
(* steps under way can bring it, through preemption, resumption, partial   *)
(* steps and rejected drafts: none is waited for in vain, and none comes   *)
(* that was not counted (the assertion at scheduler.py:83 never fails).    *)
(* And nothing but known tokens is cached.                                 *)
PlaceholdersAreDue == PlaceholderTypeOK /\ CountsAreDue /\ KnownTokensCached
=============================================================================
