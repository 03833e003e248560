------------------------- MODULE MCSchedulers ------------------------------
(***************************************************************************)
(* Three set-ups of the v0 scheduler, and v1's scheduler, in one run: the  *)
(* initial state chooses one.  The cache has the same slots in all three.  *)
(*                                                                         *)
(*   "storm"   what the constants say: two micro-batches, not enough slots *)
(*             for three sequences of full length, chunked prefill, steps  *)
(*             that fail and clients that abort                            *)
(*   "tight"   one micro-batch, whole prompts, sequences that get longer   *)
(*             than the cache                                              *)
(*   "roomy"   two micro-batches, whole prompts, sequences so short that   *)
(*             there are slots for everybody                               *)
(*   "placeholders"   v1's asynchronous scheduler (OutputPlaceholders),    *)
(*             two requests, one draft token, two steps outstanding        *)
(***************************************************************************)
EXTENDS MolinkScheduler, OutputPlaceholders

CONSTANTS c1, c2

VARIABLE setup

all_vars == <<setup, vars, async_vars>>

Tight == INSTANCE MolinkScheduler WITH
    Ctxs <- {c1}, MaxLen <- 8, ScheduleLimit <- 2,
    Chunked <- FALSE, MayFail <- FALSE, MayAbort <- FALSE

Roomy == INSTANCE MolinkScheduler WITH
    MaxLen <- 3, ScheduleLimit <- 1, PreemptionModes <- {"recompute"},
    Chunked <- FALSE, MayFail <- FALSE, MayAbort <- FALSE

-----------------------------------------------------------------------------
MCInit ==
    /\ setup \in {"storm", "tight", "roomy", "placeholders"}
    /\ Init /\ AsyncInit
    /\ setup \in {"tight", "placeholders"} => ctx = c1

In(name, A) == setup = name /\ A /\ UNCHANGED <<setup, async_vars>>

MCNext ==
    \/ In("storm", Next) \/ In("tight", Tight!Next) \/ In("roomy", Roomy!Next)
    \/ setup = "placeholders" /\ AsyncNext /\ UNCHANGED <<setup, vars>>

(* The fairness of MolinkScheduler's FairSpec, for the set-ups in which    *)
(* requests are sure to end.                                               *)
MCFairness ==
    /\ WF_all_vars(In("tight", Tight!Turn) \/ In("roomy", Roomy!Turn))
    /\ \A c \in Ctxs :
         /\ SF_all_vars(In("tight", c = c1 /\ Tight!BeginPass(c))
                        \/ In("roomy", Roomy!BeginPass(c)))
         /\ SF_all_vars(In("tight", c = c1 /\ Tight!Complete(c))
                        \/ In("roomy", Roomy!Complete(c)))

MCSpec == MCInit /\ [][MCNext]_all_vars /\ MCFairness

-----------------------------------------------------------------------------
(* The other properties hold in every set-up and are checked as            *)
(* MolinkScheduler and OutputPlaceholders have them.                       *)

(* Every request ends, where no step fails and no assertion does: none is  *)
(* starved, swapped out for ever, or left marked as on the fly.  With one  *)
(* micro-batch or slots for everybody none is preempted on the fly either. *)
AllEnd == setup \in {"tight", "roomy"} => RequestsEnd /\ []~snatched
=============================================================================
