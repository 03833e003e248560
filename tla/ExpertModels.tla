---------------------------- MODULE ExpertModels ----------------------------
(***************************************************************************)
(* The models with expert layers, with a state-space mixer instead of      *)
(* attention, and with a vision tower in front of the language model.      *)
(***************************************************************************)
EXTENDS ModelStage

(* FusedMoE: the projections of all experts are two parameters.  Two       *)
(* experts stand for any number of them.                                   *)
FusedExperts(i, v, router) ==
    Apply(i, "experts.w2",
          Fn("silu_and_mul", <<Apply(i, "experts.w13", Fn("topk", <<v, router>>))>>))
FusedParams == {"experts.w13", "experts.w2"}
ExpertProjections ==
    "experts.0.gate_proj" :> <<"experts.w13", "0.w1">> @@
    "experts.0.up_proj" :> <<"experts.w13", "0.w3">> @@
    "experts.0.down_proj" :> <<"experts.w2", "0.w2">> @@
    "experts.1.gate_proj" :> <<"experts.w13", "1.w1">> @@
    "experts.1.up_proj" :> <<"experts.w13", "1.w3">> @@
    "experts.1.down_proj" :> <<"experts.w2", "1.w2">>

AttentionParams == {"input_layernorm", "qkv_proj", "o_proj", "post_attention_layernorm"}

GatedExpert(i, v, gate_up, down) ==
    Apply(i, down, Fn("silu_and_mul", <<Apply(i, gate_up, v)>>))

-----------------------------------------------------------------------------
(* qwen2_moe.py: a layer is sparse by its index in the whole model, with a *)
(* shared expert next to the routed ones.                                  *)
DecoderSparseStep == 2
Qwen2MoeIsSparse(i) == (i + 1) % DecoderSparseStep = 0

Qwen2MoeSparseMoeBlock(i, v) ==
    LET shared == GatedExpert(i, v, "shared_expert.gate_up_proj", "shared_expert.down_proj")
        weight == Fn("sigmoid", <<Apply(i, "shared_expert_gate", v)>>)
    IN  Add(FusedExperts(i, v, Apply(i, "gate", v)), Fn("*", <<weight, shared>>))
Qwen2MoeMLP(i, v) == GatedMLP(i, v, "silu_and_mul")
Qwen2MoeAttention(i, v) == RopeAttention(i, v)
Qwen2MoeDecoderLayer(i, x) ==
    PreNormLayer(i, x, Qwen2MoeAttention,
                 LAMBDA j, v : IF Qwen2MoeIsSparse(j) THEN Qwen2MoeSparseMoeBlock(j, v)
                                                      ELSE Qwen2MoeMLP(j, v))
Qwen2MoeLayerParams(i) ==
    AttentionParams \union
    IF Qwen2MoeIsSparse(i)
    THEN FusedParams \union {"gate", "shared_expert.gate_up_proj",
                             "shared_expert.down_proj", "shared_expert_gate"}
    ELSE {"gate_up_proj", "down_proj"}
Qwen2MoePlace == [embed_tokens |-> "here", norm |-> "here"]
Qwen2MoeHead(tied) ==
    [lm_head |-> IF tied THEN "shared" ELSE "here",
     head |-> "lm_head", shared_with |-> "embed_tokens"]
Qwen2MoeForward(b, x) ==
    RunStage(b, x, Apply(Top, "embed_tokens", Tokens), Qwen2MoeDecoderLayer,
             NormWithResidual)

SharedExpertShards ==
    "shared_expert.gate_proj" :> <<"shared_expert.gate_up_proj", "0">> @@
    "shared_expert.up_proj" :> <<"shared_expert.gate_up_proj", "1">>
Qwen2MoeStacked == QKVGateUp @@ SharedExpertShards @@ ExpertProjections
Qwen2MoeLoad(b, tied, e) ==
    IF e[2] = "rotary_emb.inv_freq"
    THEN Nowhere
    ELSE LoadEntry(b, Qwen2MoePlace @@ Qwen2MoeHead(tied), Qwen2MoeLayerParams(e[1]),
                   Qwen2MoeStacked, e)

-----------------------------------------------------------------------------
(* qwen3_moe.py: queries and keys are normalised, no expert is shared.     *)
Qwen3MoeIsSparse(i) == (i + 1) % DecoderSparseStep = 0
Qwen3MoeSparseMoeBlock(i, v) == FusedExperts(i, v, Apply(i, "gate", v))
Qwen3MoeMLP(i, v) == GatedMLP(i, v, "silu_and_mul")
Qwen3MoeAttention(i, v) ==
    LET qkv == Apply(i, "qkv_proj", v)
        rotated == Fn("rope", <<Apply(i, "q_norm", qkv), Apply(i, "k_norm", qkv)>>)
    IN  Apply(i, "o_proj", Fn("attn", <<rotated, qkv>>))
Qwen3MoeDecoderLayer(i, x) ==
    PreNormLayer(i, x, Qwen3MoeAttention,
                 LAMBDA j, v : IF Qwen3MoeIsSparse(j) THEN Qwen3MoeSparseMoeBlock(j, v)
                                                      ELSE Qwen3MoeMLP(j, v))
Qwen3MoeLayerParams(i) ==
    AttentionParams \union {"q_norm", "k_norm"} \union
    IF Qwen3MoeIsSparse(i) THEN FusedParams \union {"gate"}
                           ELSE {"gate_up_proj", "down_proj"}
Qwen3MoePlace == [embed_tokens |-> "here", norm |-> "here"]
Qwen3MoeHead(tied) ==
    [lm_head |-> IF tied THEN "shared" ELSE "here",
     head |-> "lm_head", shared_with |-> "embed_tokens"]
Qwen3MoeForward(b, x) ==
    RunStage(b, x, Apply(Top, "embed_tokens", Tokens), Qwen3MoeDecoderLayer,
             NormWithResidual)
Qwen3MoeLoad(b, tied, e) ==
    IF e[2] = "rotary_emb.inv_freq"
    THEN Nowhere
    ELSE LoadEntry(b, Qwen3MoePlace @@ Qwen3MoeHead(tied), Qwen3MoeLayerParams(e[1]),
                   QKVGateUp @@ ExpertProjections, e)

-----------------------------------------------------------------------------
(* mixtral.py: every layer is sparse; w1, w2, w3 are gate, down, up.       *)
MixtralMoE(i, v) == FusedExperts(i, v, Apply(i, "gate", v))
MixtralAttention(i, v) == RopeAttention(i, v)
MixtralDecoderLayer(i, x) == PreNormLayer(i, x, MixtralAttention, MixtralMoE)
MixtralLayerParams == AttentionParams \union FusedParams \union {"gate"}
MixtralPlace == [embed_tokens |-> "here", norm |-> "here"]
MixtralHead(tied) ==
    [lm_head |-> IF tied THEN "shared" ELSE "here",
     head |-> "lm_head", shared_with |-> "embed_tokens"]
MixtralForward(b, x) ==
    RunStage(b, x, Apply(Top, "embed_tokens", Tokens), MixtralDecoderLayer,
             NormWithResidual)
MixtralExperts ==
    "experts.0.w1" :> <<"experts.w13", "0.w1">> @@
    "experts.0.w3" :> <<"experts.w13", "0.w3">> @@
    "experts.0.w2" :> <<"experts.w2", "0.w2">> @@
    "experts.1.w1" :> <<"experts.w13", "1.w1">> @@
    "experts.1.w3" :> <<"experts.w13", "1.w3">> @@
    "experts.1.w2" :> <<"experts.w2", "1.w2">>
MixtralLoad(b, tied, e) ==
    IF e[2] = "rotary_emb.inv_freq"
    THEN Nowhere
    ELSE LoadEntry(b, MixtralPlace @@ MixtralHead(tied), MixtralLayerParams,
                   QKVGateUp @@ MixtralExperts, e)

-----------------------------------------------------------------------------
(* deepseek.py: the experts are modules of their own whose weights are     *)
(* views of two packed tensors; the first layers are dense.                *)
FirstKDenseReplace == 1
DeepseekIsSparse(i) == i >= FirstKDenseReplace
DeepseekMLP(i, v) == GatedMLP(i, v, "silu_and_mul")
DeepseekMoE(i, v) ==
    LET shared == GatedExpert(i, v, "shared_experts.gate_up_proj", "shared_experts.down_proj")
        routed == Fn("topk", <<v, Apply(i, "gate", v)>>)
        expert == [k \in 1..2 |->
                     GatedExpert(i, routed,
                         <<"experts.0.gate_up_proj", "experts.1.gate_up_proj">>[k],
                         <<"experts.0.down_proj", "experts.1.down_proj">>[k])]
    IN  Fn("all_reduce", <<Add(Add(expert[1], expert[2]), shared)>>)
DeepseekAttention(i, v) == RopeAttention(i, v)
DeepseekDecoderLayer(i, x) ==
    PreNormLayer(i, x, DeepseekAttention,
                 LAMBDA j, v : IF DeepseekIsSparse(j) THEN DeepseekMoE(j, v)
                                                      ELSE DeepseekMLP(j, v))
DeepseekLayerParams(i) ==
    AttentionParams \union
    IF DeepseekIsSparse(i)
    THEN {"gate", "shared_experts.gate_up_proj", "shared_experts.down_proj",
          "experts.0.gate_up_proj", "experts.0.down_proj",
          "experts.1.gate_up_proj", "experts.1.down_proj"}
    ELSE {"gate_up_proj", "down_proj"}
DeepseekPlace == [embed_tokens |-> "here", norm |-> "here"]
DeepseekHead(tied) ==
    [lm_head |-> IF tied THEN "shared" ELSE "here",
     head |-> "lm_head", shared_with |-> "embed_tokens"]
DeepseekForward(b, x) ==
    RunStage(b, x, Apply(Top, "embed_tokens", Tokens), DeepseekDecoderLayer,
             NormWithResidual)
SharedExpertsShards ==
    "shared_experts.gate_proj" :> <<"shared_experts.gate_up_proj", "0">> @@
    "shared_experts.up_proj" :> <<"shared_experts.gate_up_proj", "1">>
DeepseekStacked ==
    QKVGateUp @@ SharedExpertsShards @@
    "experts.0.gate_proj" :> <<"experts.0.gate_up_proj", "0">> @@
    "experts.0.up_proj" :> <<"experts.0.gate_up_proj", "1">> @@
    "experts.1.gate_proj" :> <<"experts.1.gate_up_proj", "0">> @@
    "experts.1.up_proj" :> <<"experts.1.gate_up_proj", "1">>
DeepseekLoad(b, tied, e) ==
    IF e[2] = "rotary_emb.inv_freq"
    THEN Nowhere
    ELSE LoadEntry(b, DeepseekPlace @@ DeepseekHead(tied), DeepseekLayerParams(e[1]),
                   DeepseekStacked, e)

-----------------------------------------------------------------------------
(* deepseek_v2.py, which also serves V3: latent attention, and in half     *)
(* precision a scaling that keeps norms' inputs small: the residual is     *)
(* scaled once, on layer 0 of the whole model.                             *)
DeepseekV2IsSparse(i) == i >= FirstKDenseReplace
ScaleIf(half, v) == IF half THEN Fn("1/scale", <<v>>) ELSE v
DeepseekV2MLP(i, v) == GatedMLP(i, v, "silu_and_mul")
DeepseekV2MoE(i, v, half) ==
    LET shared == GatedExpert(i, v, "shared_experts.gate_up_proj", "shared_experts.down_proj")
        routed == FusedExperts(i, v, Apply(i, "gate", v))
    IN  IF half THEN Add(routed, Fn("1/scale", <<shared>>))
                ELSE Add(Fn("scale", <<routed>>), shared)
(* Keys and values come from one compressed tensor; without MLA they are   *)
(* expanded and attended to as usual.                                      *)
DeepseekV2Attention(i, v) ==
    LET latent == Apply(i, "kv_a_proj_with_mqa", v)
        kv == Apply(i, "kv_b_proj", Apply(i, "kv_a_layernorm", latent))
    IN  Apply(i, "o_proj", Fn("attn", <<Fn("rope", <<Apply(i, "q_proj", v), latent>>), kv>>))
(* With MLA the attention backend owns the up-projections and the output.  *)
DeepseekV2MLAAttention(i, v) ==
    LET q == Apply(i, "q_b_proj", Apply(i, "q_a_layernorm", Apply(i, "q_a_proj", v)))
        latent == Apply(i, "kv_a_proj_with_mqa", v)
        kv == Apply(i, "kv_b_proj", Apply(i, "kv_a_layernorm", latent))
    IN  Apply(i, "o_proj", Fn("mla_attn", <<q, kv, latent>>))
DeepseekV2DecoderLayer(i, x, mla, half) ==
    LET a == FirstNorm(i, "input_layernorm", x)
        attention == IF mla THEN DeepseekV2MLAAttention(i, a.h)
                            ELSE DeepseekV2Attention(i, a.h)
        m == FusedNorm(i, "post_attention_layernorm",
                       [h |-> ScaleIf(half, attention), r |-> ScaleIf(half /\ i = 0, a.r)])
        out == IF DeepseekV2IsSparse(i) THEN DeepseekV2MoE(i, m.h, half)
               ELSE ScaleIf(half, DeepseekV2MLP(i, m.h))
    IN  [h |-> out, r |-> m.r]
DeepseekV2LayerParams(i, mla) ==
    {"input_layernorm", "kv_a_proj_with_mqa", "kv_a_layernorm", "kv_b_proj",
     "o_proj", "post_attention_layernorm"} \union
    (IF mla THEN {"q_a_proj", "q_a_layernorm", "q_b_proj"} ELSE {"q_proj"}) \union
    (IF DeepseekV2IsSparse(i)
     THEN FusedParams \union {"gate", "shared_experts.gate_up_proj",
                              "shared_experts.down_proj"}
     ELSE {"gate_up_proj", "down_proj"})
DeepseekV2Place(b) ==
    [embed_tokens |-> HereIf(IsFirstRank(b)), norm |-> HereIf(IsLastRank(b))]
DeepseekV2Head(b) ==
    [lm_head |-> HereIf(IsLastRank(b)), head |-> "lm_head", shared_with |-> "embed_tokens"]
DeepseekV2Forward(b, x, mla, half) ==
    RunStage(b, x, Apply(Top, "embed_tokens", Tokens),
             LAMBDA i, y : DeepseekV2DecoderLayer(i, y, mla, half), NormWithResidual)
(* Layers past the last one, a checkpoint's speculative decoder, are not   *)
(* loaded.                                                                 *)
IsSpecLayer(e) == e[1] >= NumLayers
DeepseekV2Load(b, mla, e) ==
    IF e[2] = "rotary_emb.inv_freq" \/ IsSpecLayer(e)
    THEN Nowhere
    ELSE LoadEntry(b, DeepseekV2Place(b) @@ DeepseekV2Head(b),
                   DeepseekV2LayerParams(e[1], mla),
                   [gate_proj |-> QKVGateUp.gate_proj, up_proj |-> QKVGateUp.up_proj]
                   @@ SharedExpertsShards @@ ExpertProjections, e)

-----------------------------------------------------------------------------
(* mamba.py: one norm and a mixer per layer; A_log is loaded as A, and the *)
(* mixer's in_proj, conv1d, A and out_proj stand for its parameters.       *)
MambaMixer(i, v) ==
    Apply(i, "out_proj", Apply(i, "A", Apply(i, "conv1d", Apply(i, "in_proj", v))))
MambaDecoderLayer(i, x) ==
    LET n == FirstNorm(i, "layer_norm", x) IN [h |-> MambaMixer(i, n.h), r |-> n.r]
MambaLayerParams == {"layer_norm", "in_proj", "conv1d", "A", "out_proj"}
MambaPlace == [embeddings |-> "here", norm_f |-> "here"]
MambaHead(tied) ==
    [lm_head |-> IF tied THEN "shared" ELSE "here",
     head |-> "lm_head", shared_with |-> "embeddings"]
MambaForward(b, x) ==
    RunStage(b, x, Apply(Top, "embeddings", Tokens), MambaDecoderLayer,
             LAMBDA y : FusedNorm(Top, "norm_f", y).h)
MambaLoad(b, tied, e) ==
    LET name == IF e[2] = "A_log" THEN "A" ELSE e[2]
    IN  LoadEntry(b, MambaPlace @@ MambaHead(tied), MambaLayerParams, <<>>, <<e[1], name>>)
=============================================================================
