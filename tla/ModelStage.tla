----------------------------- MODULE ModelStage -----------------------------
(***************************************************************************)
(* What every model of molink/model_executor/models has in common: which    *)
(* modules a node builds for its range of layers, how a checkpoint entry is *)
(* routed to a parameter, and how one node's forward pass is run between    *)
(* the tensors it receives and the tensors it sends on.                     *)
(*                                                                         *)
(* A tensor is a record: t is the symbolic term of the operations that      *)
(* produced it, w the set of parameters this node used in producing it.     *)
(* Two runs compute the same tensor exactly when the terms are equal.       *)
(***************************************************************************)
EXTENDS Integers, Sequences, FiniteSets, SequencesExt

CONSTANT NumLayers      \* config.num_hidden_layers

ASSUME NumLayersAssumption == NumLayers \in Nat \ {0}

Top == -1           \* the "layer" of a module outside the layer list

(* The range a node is started with: serving_layers = [start, end].        *)
Bounds == {b \in [start : 0..NumLayers - 1, end : 0..NumLayers - 1] :
               b.start <= b.end}

IsFirstRank(b) == b.start = 0
IsLastRank(b) == b.end = NumLayers - 1

-----------------------------------------------------------------------------
(* get_pp_indices closes the range for vLLM, whose right end is open.      *)
GetPPIndices(b) == <<b.start, b.end + 1>>

(* make_layers: a PPMissingLayer stands in for every layer outside the     *)
(* range.                                                                  *)
MakeLayers(b) == GetPPIndices(b)[1]..GetPPIndices(b)[2] - 1
IsMissingLayer(b, i) == i \in (0..NumLayers - 1) \ MakeLayers(b)

-----------------------------------------------------------------------------
(* Tensors.                                                                *)
NoTensor == [t |-> [op |-> "None", at |-> Top, args |-> <<>>], w |-> {}]
Input(name) == [t |-> [op |-> name, at |-> Top, args |-> <<>>], w |-> {}]

(* A module with parameters, applied to one tensor.                        *)
Apply(i, mod, v) ==
    [t |-> [op |-> mod, at |-> i, args |-> <<v.t>>], w |-> v.w \union {<<i, mod>>}]

(* A function without parameters, applied to several.                      *)
Fn(f, vs) ==
    [t |-> [op |-> f, at |-> Top, args |-> [k \in DOMAIN vs |-> vs[k].t]],
     w |-> UNION {vs[k].w : k \in DOMAIN vs}]

Add(u, v) == Fn("+", <<u, v>>)

(* A pair of tensors is what a layer passes on: h, the hidden states, and  *)
(* r, the residual, or NoTensor where a model carries none.  A fused norm  *)
(* first adds the residual in, and keeps the sum as the next residual.     *)
FusedNorm(i, mod, x) ==
    LET sum == Add(x.h, x.r)
    IN  [h |-> Apply(i, mod, sum), r |-> sum]

(* "if residual is None": only the first layer of the model starts one.    *)
FirstNorm(i, mod, x) ==
    IF x.r = NoTensor
    THEN [h |-> Apply(i, mod, x.h), r |-> x.h]
    ELSE FusedNorm(i, mod, x)

(* IntermediateTensors: what reaches the next node are values alone.       *)
OnTheWire_HiddenOnly(x) ==      \* mutant: the residual is not sent
    [h |-> [x.h EXCEPT !.w = {}], r |-> NoTensor]
OnTheWire(x) == [h |-> [x.h EXCEPT !.w = {}], r |-> [x.r EXCEPT !.w = {}]]

(* The blocks nearly every model is made of.                               *)
GatedMLP(i, v, act) ==
    Apply(i, "down_proj", Fn(act, <<Apply(i, "gate_up_proj", v)>>))

RopeAttention(i, v) ==
    Apply(i, "o_proj", Fn("attn", <<Fn("rope", <<Apply(i, "qkv_proj", v)>>)>>))

PreNormLayer(i, x, Attention(_, _), MLP(_, _)) ==
    LET a == FirstNorm(i, "input_layernorm", x)
        m == FusedNorm(i, "post_attention_layernorm",
                       [h |-> Attention(i, a.h), r |-> a.r])
    IN  [h |-> MLP(i, m.h), r |-> m.r]

(* The forward pass of a node: the first rank embeds, every other one      *)
(* takes the tensors it was sent; the layers of the node's range run in    *)
(* order; the last rank applies the final norm, every other one sends on.  *)
RunStage(b, x, embedded, Layer(_, _), Final(_)) ==
    LET entering == IF IsFirstRank(b) THEN [h |-> embedded, r |-> NoTensor] ELSE x
        layers == [k \in 1..Cardinality(MakeLayers(b)) |-> GetPPIndices(b)[1] + k - 1]
        left == FoldLeft(LAMBDA y, i : Layer(i, y), entering, layers)
    IN  IF IsLastRank(b) THEN [h |-> Final(left), r |-> NoTensor] ELSE left

Tokens == Input("input_ids")

(* The norm after the last layer, for models that carry a residual and for *)
(* those whose hidden states already contain it.                           *)
NormWithResidual(x) == FusedNorm(Top, "norm", x).h
PlainLayer(h) == [h |-> h, r |-> NoTensor]

-----------------------------------------------------------------------------
(* Loading.  A checkpoint entry is <<layer, name>>.  A merged parameter is *)
(* filled shard by shard; a table maps the names that go into a shard, and *)
(* every other name is a parameter of its own.                             *)
QKVGateUp ==
    [q_proj |-> <<"qkv_proj", "q">>, k_proj |-> <<"qkv_proj", "k">>,
     v_proj |-> <<"qkv_proj", "v">>, gate_proj |-> <<"gate_up_proj", "0">>,
     up_proj |-> <<"gate_up_proj", "1">>]

Whole == "whole"
Shard(table, name) == IF name \in DOMAIN table THEN table[name] ELSE <<name, Whole>>

Nowhere == [load |-> "skip", into |-> <<>>]
KeyError == [load |-> "KeyError", into |-> <<>>]
Into(p, shard) == [load |-> "ok", into |-> <<p, shard>>]

(* The body of a load_weights loop: an entry of a layer the node does not  *)
(* have is passed over, any other one must name a parameter.               *)
LayerEntry(b, params, table, e) ==
    LET target == Shard(table, e[2])
    IN  CASE IsMissingLayer(b, e[1]) -> Nowhere
          [] e[1] \in MakeLayers(b) /\ target[1] \in params ->
                Into(<<e[1], target[1]>>, target[2])
          [] OTHER -> KeyError

(* Where a node has a module outside the layers: here; missing, as a       *)
(* PPMissingLayer; or, for an output head tied to the embedding, shared    *)
(* with it, or shared and skipped by the loader.                           *)
TopEntry(place, e) ==
    CASE e[2] \notin DOMAIN place -> KeyError
      [] e[2] \in DOMAIN place /\ place[e[2]] = "here" -> Into(e, Whole)
      [] e[2] \in DOMAIN place /\ place[e[2]] = "shared" ->
            Into(<<Top, place.shared_with>>, Whole)
      [] OTHER -> Nowhere

LoadEntry(b, place, params, table, e) ==
    IF e[1] = Top THEN TopEntry(place, e) ELSE LayerEntry(b, params, table, e)

HereIf(condition) == IF condition THEN "here" ELSE "missing"

(* A model that builds its embedding, final norm and head on every node.   *)
OnEveryNode(embed, norm, lm_head) ==
    embed :> "here" @@ norm :> "here" @@
    [lm_head |-> lm_head, head |-> "lm_head", shared_with |-> embed]
=============================================================================
