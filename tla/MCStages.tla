------------------------------ MODULE MCStages ------------------------------
(***************************************************************************)
(* What the stages of a pipeline are, checked in one run: how v1's head    *)
(* puts its nodes in order, and what a v0 node computes.  The parts have   *)
(* nothing to do with each other: the initial state chooses one, and the   *)
(* variables of the others stay as they start.                             *)
(*                                                                         *)
(*   "rejoins"   a head and three workers that join and re-join with       *)
(*               bounds drawn from small sets: every order, ties, starts   *)
(*               below the head's, empty and overlapping ranges            *)
(*               (LaunchedLayers)                                          *)
(*   "ranges"    two workers join once, with any bounds: negative,         *)
(*               inverted and too large ones too                           *)
(*   "split"     a model divided among up to three nodes (ModelSplit):     *)
(*               every architecture with the ways its head may be tied,    *)
(*               complete and damaged checkpoints, quantised or not        *)
(*   "vision"    up to three images and videos of one and of two frames,   *)
(*               square and oblong, merged two by two (VisionItems)        *)
(*   "budget"    largest pictures of one and of six merged patches         *)
(*               (VideoBudget)                                             *)
(***************************************************************************)
EXTENDS LaunchedLayers, ModelSplit, VideoBudget

CONSTANTS h, w1, w2, w3

VARIABLES
    part,
    prompt, kind, slices, filled        \* of VisionItems, which shares phase

vision_vars == <<prompt, kind, slices, filled>>
all_vars == <<part, topology_vars, vars, vision_vars, budget_vars, phase>>

Vision == INSTANCE VisionItems WITH
    Grids <- {<<1, 2, 2>>, <<1, 2, 4>>, <<2, 4, 2>>}, MaxItems <- 3

MCStarts == {-1, 0, 1, 2, 4}
MCEnds == {-2, -1, 1, 2, 4, 5}
FewStarts == 0..2
FewEnds == {-1, 2}

SmallPictures == {<<2, 2>>, <<4, 6>>}

-----------------------------------------------------------------------------
Either == {"LlamaForCausalLM", "Qwen2ForCausalLM", "Qwen3ForCausalLM", "GPT2LMHeadModel",
           "FalconForCausalLM", "BaiChuanForCausalLM", "QWenLMHeadModel",
           "Qwen2MoeForCausalLM", "Qwen3MoeForCausalLM", "MixtralForCausalLM",
           "DeepseekForCausalLM", "MambaForCausalLM", "Qwen2VLForConditionalGeneration"}
Tied == {"BloomForCausalLM", "GemmaForCausalLM", "Gemma2ForCausalLM", "CohereForCausalLM",
         "RWForCausalLM"}
Untied == {"MistralForCausalLM", "Phi3ForCausalLM", "GlmForCausalLM", "PhiForCausalLM",
           "BaichuanForCausalLM", "DeepseekV2ForCausalLM", "DeepseekV3ForCausalLM",
           "ChatGLMModel", "OPTForCausalLM"}

AllModels ==
    [arch : Either \union Tied, tied : {TRUE}] \union
    [arch : Either \union Untied, tied : {FALSE}]

-----------------------------------------------------------------------------
NoSplit ==
    /\ model = 0 /\ hole = 0 /\ chain = <<>> /\ status = 0
    /\ got = 0 /\ wire = 0 /\ used = 0 /\ logits = 0
NoVision == prompt = 0 /\ kind = 0 /\ slices = 0 /\ filled = 0
NoBudget == grid = 0 /\ seqLen = 0 /\ mmCounts = 0 /\ numFrames = 0 /\ dummy = 0

MCInit ==
    \/ /\ part = "rejoins" /\ NoSplit /\ NoVision /\ NoBudget /\ phase = "unused"
       /\ \E first \in FewStarts, last \in FewEnds : TopologyInit(first, last)
    \/ /\ part = "ranges" /\ NoSplit /\ NoVision /\ NoBudget /\ phase = "unused"
       /\ \E first \in Starts, last \in Ends : TopologyInit(first, last)
    \/ /\ TopologyInit(0, ToEnd)
       /\ \/ part = "split" /\ Init /\ NoVision /\ NoBudget /\ phase = "unused"
          \/ part = "vision" /\ Vision!Init /\ NoSplit /\ NoBudget
          \/ part = "budget" /\ BudgetInit /\ NoSplit /\ NoVision

JoinsIn(name, A) ==
    part = name /\ A /\ UNCHANGED <<part, vars, vision_vars, budget_vars, phase>>

Rejoin ==
    \E n \in Nodes, first \in FewStarts, last \in FewEnds : JoinPipeline(n, first, last)
JoinOnce ==
    \E n \in {w1, w2} \ Members(node_info), first \in Starts, last \in Ends :
        JoinPipeline(n, first, last)

SplitNext ==
    /\ part = "split" /\ Next
    /\ UNCHANGED <<part, topology_vars, vision_vars, budget_vars, phase>>
VisionNext ==
    part = "vision" /\ Vision!Next /\ UNCHANGED <<part, topology_vars, vars, budget_vars>>
MakeBudget ==
    part = "budget" /\ BudgetNext /\ UNCHANGED <<part, topology_vars, vars, vision_vars>>

MCNext ==
    \/ JoinsIn("rejoins", Rejoin) \/ JoinsIn("ranges", JoinOnce)
    \/ SplitNext \/ VisionNext \/ MakeBudget

MCSpec == MCInit /\ [][MCNext]_all_vars

-----------------------------------------------------------------------------
(* The properties of the parts, each for its own behaviours.  Those of the *)
(* topology hold in every part, and that of the budget, DummyVideosFit,    *)
(* speaks only of dummies that are made; they are checked as their modules *)
(* have them.                                                              *)

(* A divided model computes what the whole one does.                       *)
DivisionComposes == part = "split" => SplitComposes

(* What a stage reads, it has loaded, even from a damaged checkpoint if    *)
(* the check can see the damage; and a complete one loads on every stage.  *)
ReadsWhatItLoaded ==
    part = "split" => UsedWeightsLoaded /\ CompleteCheckpointLoads

(* Every placeholder gets the row of its own item: no prompt is refused    *)
(* because its counts differ, pixel rows are cut at the items' borders,    *)
(* and the embeddings are put where they belong.                           *)
RowsReachTheirPlaceholders ==
    part = "vision" =>
        /\ Vision!CountsAlwaysAgree
        /\ Vision!PixelSlicesAreItems
        /\ Vision!RowsReachTheirPlaceholders

(* Patches that are merged are neighbours, and what attends to each other  *)
(* is a frame.                                                             *)
MergedPatchesAreNeighbours ==
    part = "vision" => Vision!MergedPatchesAreNeighbours /\ Vision!WindowsAreFrames
=============================================================================
