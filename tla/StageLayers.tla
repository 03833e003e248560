---------------------------- MODULE StageLayers ----------------------------
(***************************************************************************)
(* What a v1 node derives from its --molink-start-layer and                *)
(* --molink-end-layer: molinkv1/parallel_state.py.  The globals of that     *)
(* module are written once per process, by init_molink_parallel_state, and  *)
(* read by every forward step through the patched PP group.                *)
(***************************************************************************)
EXTENDS Integers

ToEnd == -1

(* _MOLINK_IS_FIRST_STAGE and _MOLINK_IS_LAST_STAGE as both callers leave   *)
(* them: neither passes num_hidden_layers, so an end layer equal to the    *)
(* model's layer count does not make a node the last stage; only -1 does.  *)
IsFirstStage(range) == range.start = 0

IsLastStage(range) == range.end = ToEnd

-----------------------------------------------------------------------------
PPIndices_Inclusive(range, num_hidden_layers) ==  \* mutant: end inclusive
    [start |-> range.start,
     end |-> IF range.end = ToEnd THEN num_hidden_layers ELSE range.end + 1]

PPIndices_Clamped(range, num_hidden_layers) ==  \* mutant: -1 is not special
    [start |-> range.start,
     end |-> IF range.end > num_hidden_layers \/ range.end =< range.start
             THEN num_hidden_layers ELSE range.end]

(* get_molink_pp_indices, which replaces vLLM's get_pp_indices: the layers  *)
(* start..end-1 that a node builds.  Out-of-range bounds are cut, and a    *)
(* range that is then empty becomes the whole model.                       *)
PPIndices(range, num_hidden_layers) ==
    LET start == IF range.start < 0 THEN 0 ELSE range.start
        end == IF range.end = ToEnd \/ range.end > num_hidden_layers
               THEN num_hidden_layers ELSE range.end
    IN  IF start >= end THEN [start |-> 0, end |-> num_hidden_layers]
        ELSE [start |-> start, end |-> end]
=============================================================================
