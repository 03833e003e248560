---------------------------- MODULE DenseModels ----------------------------
(***************************************************************************)
(* The dense decoders of molink/model_executor/models.  For each: its      *)
(* blocks and its layer as functions on tensors, the parameters of a layer,*)
(* where the modules outside the layers are built, the forward pass of a   *)
(* node, and where its loader puts a checkpoint entry.                     *)
(***************************************************************************)
EXTENDS ModelStage

-----------------------------------------------------------------------------
(* llama.py, which also serves Mistral checkpoints, Phi-3 and GLM.         *)
LlamaMLP(i, v) == GatedMLP(i, v, "silu_and_mul")
LlamaAttention(i, v) == RopeAttention(i, v)
LlamaDecoderLayer(i, x) == PreNormLayer(i, x, LlamaAttention, LlamaMLP)

LlamaLayerParams ==
    {"input_layernorm", "qkv_proj", "o_proj", "post_attention_layernorm",
     "gate_up_proj", "down_proj"}

LlamaPlace_HeadOnly(b, tied) ==  \* mutant: a tied head without its embedding
    [embed_tokens |-> HereIf(IsFirstRank(b)),
     norm |-> HereIf(IsLastRank(b)),
     lm_head |-> IF tied THEN "skipped" ELSE HereIf(IsLastRank(b)),
     head |-> "lm_head", shared_with |-> "embed_tokens"]

(* The embedding is built where tokens enter, and again on the last rank   *)
(* if the output head is tied to it; lm_head entries are then skipped.     *)
LlamaPlace(b, tied) ==
    [embed_tokens |-> HereIf(IsFirstRank(b) \/ (tied /\ IsLastRank(b))),
     norm |-> HereIf(IsLastRank(b)),
     lm_head |-> IF tied THEN "skipped" ELSE HereIf(IsLastRank(b)),
     head |-> "lm_head", shared_with |-> "embed_tokens"]

LlamaForward(b, x) ==
    RunStage(b, x, Apply(Top, "embed_tokens", Tokens),
             LlamaDecoderLayer, NormWithResidual)

LlamaLoad(b, tied, e) ==
    IF e[2] = "rotary_emb.inv_freq"
    THEN Nowhere
    ELSE LoadEntry(b, LlamaPlace(b, tied), LlamaLayerParams, QKVGateUp, e)

(* Mistral's own checkpoint format: maybe_remap_mistral renames an entry   *)
(* before it is loaded; names that are in the Hugging Face form stay.      *)
MistralMapping ==
    [wq |-> "q_proj", wk |-> "k_proj", wv |-> "v_proj", wo |-> "o_proj",
     attention_norm |-> "input_layernorm", w1 |-> "gate_proj",
     w2 |-> "down_proj", w3 |-> "up_proj",
     ffn_norm |-> "post_attention_layernorm", tok_embeddings |-> "embed_tokens",
     output |-> "lm_head", norm |-> "norm"]

MistralLoad(b, tied, e) ==
    LET name == IF e[2] \in DOMAIN MistralMapping THEN MistralMapping[e[2]] ELSE e[2]
    IN  LlamaLoad(b, tied, <<e[1], name>>)

(* phi3.py: the checkpoint already holds the merged projections, and no    *)
(* shard name is part of theirs.                                           *)
Phi3Load(b, tied, e) == LlamaLoad(b, tied, e)

(* glm.py: attention biases are built for all four projections, and taken  *)
(* out of o_proj again on the layers this node has.                        *)
GlmLayerParams == LlamaLayerParams \union {"qkv_proj.bias"}
GlmAttention(i, v) ==
    Apply(i, "o_proj",
          Fn("attn", <<Fn("half_rope", <<Apply(i, "qkv_proj.bias", Apply(i, "qkv_proj", v))>>)>>))
GlmDecoderLayer(i, x) == PreNormLayer(i, x, GlmAttention, LlamaMLP)
GlmForward(b, x) ==
    RunStage(b, x, Apply(Top, "embed_tokens", Tokens), GlmDecoderLayer, NormWithResidual)
GlmBiases ==
    [bq \in {"q_proj.bias", "k_proj.bias", "v_proj.bias"} |-> <<"qkv_proj.bias", bq>>]
GlmLoad(b, tied, e) ==
    LoadEntry(b, LlamaPlace(b, tied), GlmLayerParams, QKVGateUp @@ GlmBiases, e)

-----------------------------------------------------------------------------
(* qwen2.py and qwen3.py; Qwen3Model is a Qwen2Model with another layer.   *)
Qwen2MLP(i, v) == GatedMLP(i, v, "silu_and_mul")
Qwen2Attention(i, v) == RopeAttention(i, v)
Qwen2DecoderLayer(i, x) == PreNormLayer(i, x, Qwen2Attention, Qwen2MLP)
Qwen2LayerParams ==
    {"input_layernorm", "qkv_proj", "o_proj", "post_attention_layernorm",
     "gate_up_proj", "down_proj"}

Qwen2Place(b, tied) ==
    [embed_tokens |-> HereIf(IsFirstRank(b) \/ (tied /\ IsLastRank(b))),
     norm |-> HereIf(IsLastRank(b))]
Qwen2Head(b, tied) ==
    [lm_head |-> IF tied THEN "skipped" ELSE HereIf(IsLastRank(b)),
     head |-> "lm_head", shared_with |-> "embed_tokens"]

Qwen2Forward(b, x) ==
    RunStage(b, x, Apply(Top, "embed_tokens", Tokens),
             Qwen2DecoderLayer, NormWithResidual)

Qwen2Load(b, tied, e) ==
    IF e[2] = "rotary_emb.inv_freq"
    THEN Nowhere
    ELSE LoadEntry(b, Qwen2Place(b, tied) @@ Qwen2Head(b, tied),
                   Qwen2LayerParams, QKVGateUp, e)

(* Qwen3 normalises queries and keys head by head before the rotation.     *)
Qwen3Attention(i, v) ==
    LET qkv == Apply(i, "qkv_proj", v)
        rotated == Fn("rope", <<Apply(i, "q_norm", qkv), Apply(i, "k_norm", qkv)>>)
    IN  Apply(i, "o_proj", Fn("attn", <<rotated, qkv>>))
Qwen3DecoderLayer(i, x) == PreNormLayer(i, x, Qwen3Attention, Qwen2MLP)
Qwen3LayerParams == Qwen2LayerParams \union {"q_norm", "k_norm"}
Qwen3Head(b, tied) ==
    [lm_head |-> IF tied THEN "skipped" ELSE HereIf(IsLastRank(b)),
     head |-> "lm_head", shared_with |-> "embed_tokens"]
Qwen3Forward(b, x) ==
    RunStage(b, x, Apply(Top, "embed_tokens", Tokens),
             Qwen3DecoderLayer, NormWithResidual)
Qwen3Load(b, tied, e) ==
    IF e[2] = "rotary_emb.inv_freq"
    THEN Nowhere
    ELSE LoadEntry(b, Qwen2Place(b, tied) @@ Qwen3Head(b, tied),
                   Qwen3LayerParams, QKVGateUp, e)

-----------------------------------------------------------------------------
(* bloom.py: no residual travels; embedding, its norm and the final norm   *)
(* are built on every node.                                                *)
BloomAttention(i, v) ==
    Apply(i, "dense", Fn("alibi_attn", <<Apply(i, "query_key_value", v)>>))
BloomMLP(i, v) ==
    Apply(i, "dense_4h_to_h", Fn("gelu", <<Apply(i, "dense_h_to_4h", v)>>))
BloomBlock(i, x) ==
    LET attended == Add(BloomAttention(i, Apply(i, "input_layernorm", x.h)), x.h)
    IN  PlainLayer(Add(BloomMLP(i, Apply(i, "post_attention_layernorm", attended)),
                       attended))
BloomLayerParams ==
    {"input_layernorm", "query_key_value", "dense", "post_attention_layernorm",
     "dense_h_to_4h", "dense_4h_to_h"}
BloomPlace ==
    [word_embeddings |-> "here", word_embeddings_layernorm |-> "here",
     ln_f |-> "here", lm_head |-> "skipped",
     head |-> "lm_head", shared_with |-> "word_embeddings"]
BloomEmbed ==
    Apply(Top, "word_embeddings_layernorm", Apply(Top, "word_embeddings", Tokens))
BloomForward(b, x) ==
    RunStage(b, x, BloomEmbed, BloomBlock, LAMBDA y : Apply(Top, "ln_f", y.h))
(* The fused projection is only transposed: no entry is merged.            *)
BloomLoad(b, e) == LoadEntry(b, BloomPlace, BloomLayerParams, <<>>, e)

-----------------------------------------------------------------------------
(* gpt2.py: position embeddings are added on the first rank only.          *)
GPT2Attention(i, v) ==
    Apply(i, "attn.c_proj", Fn("attn", <<Apply(i, "attn.c_attn", v)>>))
GPT2MLP(i, v) ==
    Apply(i, "mlp.c_proj", Fn("act", <<Apply(i, "mlp.c_fc", v)>>))
GPT2Block(i, x) ==
    LET attended == Add(GPT2Attention(i, Apply(i, "ln_1", x.h)), x.h)
    IN  PlainLayer(Add(attended, GPT2MLP(i, Apply(i, "ln_2", attended))))
GPT2LayerParams ==
    {"ln_1", "attn.c_attn", "attn.c_proj", "ln_2", "mlp.c_fc", "mlp.c_proj"}
GPT2Place(tied) ==
    [wte |-> "here", wpe |-> "here", ln_f |-> "here",
     lm_head |-> IF tied THEN "shared" ELSE "here",
     head |-> "lm_head", shared_with |-> "wte"]
GPT2Forward(b, x) ==
    RunStage(b, x, Add(Apply(Top, "wte", Tokens), Apply(Top, "wpe", Input("position_ids"))),
             GPT2Block, LAMBDA y : Apply(Top, "ln_f", y.h))
(* ".attn.bias" entries are attention masks, not parameters.               *)
GPT2Load(b, tied, e) ==
    IF e[2] \in {"attn.bias", "attn.masked_bias"}
    THEN Nowhere
    ELSE LoadEntry(b, GPT2Place(tied), GPT2LayerParams, <<>>, e)
-----------------------------------------------------------------------------
(* qwen2_vl.py: the vision tower is built on every node, in front of a     *)
(* Qwen2 language model; only where tokens enter is it run, and its rows   *)
(* take the places of the placeholders among the token embeddings.         *)
Qwen2VisionMLP(v) ==
    Apply(Top, "visual.mlp.fc2", Fn("quick_gelu", <<Apply(Top, "visual.mlp.fc1", v)>>))
Qwen2VisionAttention(v) ==
    Apply(Top, "visual.attn.proj",
          Fn("window_attn", <<Fn("rope_2d", <<Apply(Top, "visual.attn.qkv", v)>>)>>))
Qwen2VisionBlock(v) ==
    LET attended == Add(v, Qwen2VisionAttention(Apply(Top, "visual.norm1", v)))
    IN  Add(attended, Qwen2VisionMLP(Apply(Top, "visual.norm2", attended)))
Qwen2VisionPatchMerger(v) ==
    Apply(Top, "visual.merger.mlp.2",
          Fn("gelu", <<Apply(Top, "visual.merger.mlp.0", Apply(Top, "visual.merger.ln_q", v))>>))
Qwen2VisionTransformer(pixels) ==
    Qwen2VisionPatchMerger(Qwen2VisionBlock(Apply(Top, "visual.patch_embed", pixels)))
VisualParams ==
    {"visual.patch_embed", "visual.norm1", "visual.attn.qkv", "visual.attn.proj",
     "visual.norm2", "visual.mlp.fc1", "visual.mlp.fc2", "visual.merger.ln_q",
     "visual.merger.mlp.0", "visual.merger.mlp.2"}
Qwen2VLEmbed ==
    Fn("merge_multimodal_embeddings",
       <<Apply(Top, "embed_tokens", Tokens), Qwen2VisionTransformer(Input("pixel_values"))>>)
Qwen2VLForward(b, x) ==
    RunStage(b, x, Qwen2VLEmbed, Qwen2DecoderLayer, NormWithResidual)
Qwen2VLPlace(b, tied) ==
    [p \in VisualParams |-> "here"] @@ Qwen2Place(b, tied) @@ Qwen2Head(b, tied)
Qwen2VLLoad(b, tied, e) ==
    IF e[2] \in VisualParams THEN Into(e, Whole) ELSE Qwen2Load(b, tied, e)
=============================================================================
