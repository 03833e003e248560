----------------------------- MODULE ModelSplit -----------------------------
(***************************************************************************)
(* A model served by a chain of nodes: each one builds the modules of its  *)
(* range, loads its share of the checkpoint, and runs its part of the      *)
(* forward pass when the tensors of the node before it arrive.             *)
(***************************************************************************)
EXTENDS Checkpoints

CONSTANTS
    Models,         \* the [arch, tied] to be served
    Quantizations,  \* model_config.quantization, "None" for none
    Formats,        \* load_config.load_format
    Holes,          \* names of entries a damaged checkpoint may lack, or "none"
    MaxStages       \* the longest chain

ASSUME ModelSplitAssumption ==
    /\ \A m \in Models : m.arch \in DOMAIN ModelRegistry /\ m.tied \in BOOLEAN
    /\ MaxStages \in Nat \ {0}

VARIABLES
    model,          \* what is served: [arch, tied, quantization, format]
    hole,           \* the entry missing in the checkpoint
    chain,          \* the stages' ranges of layers, in order
    status,         \* of each stage: "new", "built", "loaded" or "failed"
    got,            \* of each stage: the <<parameter, shard>>s loaded
    wire,           \* the tensors each stage was sent
    used,           \* of each stage: the parameters its forward pass read
    logits          \* what the last stage computed

vars == <<model, hole, chain, status, got, wire, used, logits>>

Nothing == [h |-> NoTensor, r |-> NoTensor]
Stages == DOMAIN chain
WholeModel == [start |-> 0, end |-> NumLayers - 1]

(* serving_layers as the nodes are started with: each goes on after the    *)
(* one before it.                                                          *)
Chains ==
    {c \in UNION {[1..n -> Bounds] : n \in 1..MaxStages} :
        /\ c[1].start = 0
        /\ c[Len(c)].end = NumLayers - 1
        /\ \A k \in 1..Len(c) - 1 : c[k + 1].start = c[k].end + 1}

Init ==
    /\ \E m \in Models, q \in Quantizations, f \in Formats :
          model = [arch |-> m.arch, tied |-> m.tied, quantization |-> q, format |-> f]
    /\ hole \in Holes
    /\ chain \in Chains
    /\ status = [s \in DOMAIN chain |-> "new"]
    /\ got = [s \in DOMAIN chain |-> {}]
    /\ wire = [s \in DOMAIN chain |-> Nothing]
    /\ used = [s \in DOMAIN chain |-> {}]
    /\ logits = NoTensor

-----------------------------------------------------------------------------
(* _initialize_model: the class is found, imported and constructed, or the *)
(* node does not come up.                                                  *)
Build(s) ==
    /\ status[s] = "new"
    /\ status' = [status EXCEPT ![s] =
          IF InitializeModel(model.arch, model.quantization) THEN "built" ELSE "failed"]
    /\ UNCHANGED <<model, hole, chain, got, wire, used, logits>>

Params(b) ==
    {<<Top, n>> : n \in {k \in DOMAIN Place(model, b) \ {"head", "shared_with"} :
                           Place(model, b)[k] = "here"}}
    \union UNION {{<<i, n>> : n \in LayerParams(model, i)} : i \in MakeLayers(b)}

Entries == {e \in Checkpoint(model) : e[2] # hole}
Routed(b) == {LoadWeight(model, b, e) : e \in Entries}
Loaded(b) == {r.into : r \in {q \in Routed(b) : q.load = "ok"}}

(* MolinkDefaultModelLoader refuses parameters nothing was loaded into,    *)
(* comparing names, when the model is not quantised; the other loaders     *)
(* leave it at that.                                                       *)
LoadedNames(b) == {t[1] : t \in Loaded(b)}
Strict == model.format = "auto" /\ model.quantization = "None"
PassesStrictCheck_Never(b) == TRUE     \* mutant: nothing is compared
PassesStrictCheck(b) == Strict => Params(b) \subseteq LoadedNames(b)

LoadFromCheckpoint(s) ==
    /\ status[s] = "built"
    /\ model.format # "dummy"
    /\ status' = [status EXCEPT ![s] =
          IF KeyError \notin Routed(chain[s]) /\ PassesStrictCheck(chain[s])
          THEN "loaded" ELSE "failed"]
    /\ got' = [got EXCEPT ![s] = Loaded(chain[s])]
    /\ UNCHANGED <<model, hole, chain, wire, used, logits>>

(* MolinkDummyModelLoader: every parameter gets random values.             *)
LoadDummy(s) ==
    /\ status[s] = "built"
    /\ model.format = "dummy"
    /\ status' = [status EXCEPT ![s] = "loaded"]
    /\ got' = [got EXCEPT ![s] = {<<p, Whole>> : p \in Params(chain[s])}]
    /\ UNCHANGED <<model, hole, chain, wire, used, logits>>

-----------------------------------------------------------------------------
(* compute_logits reads the head, or what it is tied to.                   *)
HeadParam(b) ==
    LET place == Place(model, b)
    IN  IF place[place.head] \in {"skipped", "shared"} THEN place.shared_with ELSE place.head

ComputeLogits(b, hidden) == Apply(Top, HeadParam(b), hidden)

Arrived(s) == s = 1 \/ wire[s] # Nothing

RunMiddle(s) ==
    /\ status[s] = "loaded"
    /\ Arrived(s)
    /\ s # Len(chain)
    /\ wire[s + 1] = Nothing
    /\ LET out == Forward(model, chain[s], wire[s])
       IN  /\ wire' = [wire EXCEPT ![s + 1] = OnTheWire(out)]
           /\ used' = [used EXCEPT ![s] = out.h.w \union out.r.w]
    /\ UNCHANGED <<model, hole, chain, status, got, logits>>

RunLast(s) ==
    /\ status[s] = "loaded"
    /\ Arrived(s)
    /\ s = Len(chain)
    /\ logits = NoTensor
    /\ LET out == ComputeLogits(chain[s], Forward(model, chain[s], wire[s]).h)
       IN  /\ logits' = out
           /\ used' = [used EXCEPT ![s] = out.w]
    /\ UNCHANGED <<model, hole, chain, status, got, wire>>

Next ==
    \E s \in Stages :
        Build(s) \/ LoadFromCheckpoint(s) \/ LoadDummy(s) \/ RunMiddle(s) \/ RunLast(s)

Spec == Init /\ [][Next]_vars

-----------------------------------------------------------------------------
(* However the layers are divided, the chain computes what one node with   *)
(* the whole model computes: the tensors that cross a node boundary carry  *)
(* everything the layers after it depend on (llama.py:369, and the same    *)
(* in every model).                                                        *)
SplitComposes ==
    logits # NoTensor =>
        logits.t = ComputeLogits(WholeModel, Forward(model, WholeModel, Nothing).h).t

(* Does the checkpoint lack a part of a merged parameter?                  *)
LacksAPart ==
    \E e \in Checkpoint(model) :
        LET routed == LoadWeight(model, WholeModel, e)
        IN  e[2] = hole /\ routed.load = "ok" /\ routed.into[2] # Whole

(* What a node's forward pass reads has been loaded on that node, all its  *)
(* parts: conditional embeddings, tied heads and layers that differ by     *)
(* their index are built and filled on the same nodes that use them.  If   *)
(* the checkpoint is damaged, a node that would read what is missing does  *)
(* not come up, provided that the check is made (loader.py:84) and that    *)
(* not just some parts of a parameter are missing, which it cannot see.    *)
UsedWeightsLoaded ==
    \A s \in Stages : used[s] # {} /\ (hole = "none" \/ (Strict /\ ~LacksAPart)) =>
        \A p \in used[s] : Initialised(got[s], p)

(* A complete checkpoint of a model whose class can be constructed loads   *)
(* on every stage, however the layers are divided: no entry is refused,    *)
(* and the check for uninitialised parameters (loader.py:85) does not      *)
(* mistake what belongs on another node for something missing.             *)
CompleteCheckpointLoads ==
    hole = "none" /\ InitializeModel(model.arch, model.quantization) =>
        \A s \in Stages : status[s] # "failed"
=============================================================================
