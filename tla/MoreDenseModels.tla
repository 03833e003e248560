-------------------------- MODULE MoreDenseModels ---------------------------
(***************************************************************************)
(* The dense decoders whose layers differ from the Llama shape: parallel   *)
(* blocks, extra norms, other positions, heads on every node.              *)
(***************************************************************************)
EXTENDS ModelStage

(* gemma.py and gemma2.py scale the embedding where tokens enter, have no  *)
(* output head of their own and skip the entries of one.                   *)
GemmaMLP(i, v) == GatedMLP(i, v, "gelu_and_mul")
GemmaAttention(i, v) == RopeAttention(i, v)
GemmaDecoderLayer(i, x) == PreNormLayer(i, x, GemmaAttention, GemmaMLP)
GemmaLayerParams ==
    {"input_layernorm", "qkv_proj", "o_proj", "post_attention_layernorm",
     "gate_up_proj", "down_proj"}
GemmaPlace == OnEveryNode("embed_tokens", "norm", "skipped")
GemmaForward(b, x) ==
    RunStage(b, x, Fn("normalizer", <<Apply(Top, "embed_tokens", Tokens)>>),
             GemmaDecoderLayer, NormWithResidual)
GemmaLoad(b, e) == LoadEntry(b, GemmaPlace, GemmaLayerParams, QKVGateUp, e)

Gemma2MLP(i, v) == GatedMLP(i, v, "gelu_and_mul")
Gemma2Attention(i, v) == RopeAttention(i, v)
(* Four norms: attention and MLP outputs are normalised before they join.  *)
Gemma2DecoderLayer(i, x) ==
    LET a == FirstNorm(i, "input_layernorm", x)
        attended == Apply(i, "post_attention_layernorm", Gemma2Attention(i, a.h))
        m == FusedNorm(i, "pre_feedforward_layernorm", [h |-> attended, r |-> a.r])
    IN  [h |-> Apply(i, "post_feedforward_layernorm", Gemma2MLP(i, m.h)), r |-> m.r]
Gemma2LayerParams ==
    {"input_layernorm", "qkv_proj", "o_proj", "post_attention_layernorm",
     "pre_feedforward_layernorm", "gate_up_proj", "down_proj",
     "post_feedforward_layernorm"}
Gemma2Place == OnEveryNode("embed_tokens", "norm", "skipped")
Gemma2Forward(b, x) ==
    RunStage(b, x, Fn("normalizer", <<Apply(Top, "embed_tokens", Tokens)>>),
             Gemma2DecoderLayer, NormWithResidual)
Gemma2Load(b, e) == LoadEntry(b, Gemma2Place, Gemma2LayerParams, QKVGateUp, e)

-----------------------------------------------------------------------------
(* commandr.py: attention and MLP read the same norm and join in one sum.  *)
(* The residual is sent along with it, and no layer reads it.              *)
CohereMLP(i, v) == GatedMLP(i, v, "silu_and_mul")
CohereAttention(i, v) ==
    LET qkv == Apply(i, "qkv_proj", v)
        rotated == Fn("rope", <<Apply(i, "q_norm", qkv), Apply(i, "k_norm", qkv)>>)
    IN  Apply(i, "o_proj", Fn("attn", <<rotated, qkv>>))
CohereDecoderLayer(i, x) ==
    LET n == Apply(i, "input_layernorm", x.h)
    IN  [h |-> Add(Add(x.h, CohereAttention(i, n)), CohereMLP(i, n)), r |-> x.h]
CohereLayerParams ==
    {"input_layernorm", "qkv_proj", "q_norm", "k_norm", "o_proj", "gate_up_proj",
     "down_proj"}
CoherePlace == OnEveryNode("embed_tokens", "norm", "skipped")
CohereForward(b, x) ==
    RunStage(b, x, Apply(Top, "embed_tokens", Tokens), CohereDecoderLayer,
             LAMBDA y : Apply(Top, "norm", y.h))
CohereLoad(b, e) ==
    IF e[2] = "rotary_emb.inv_freq"
    THEN Nowhere
    ELSE LoadEntry(b, CoherePlace, CohereLayerParams, QKVGateUp, e)

-----------------------------------------------------------------------------
(* phi.py: a parallel block as well, without a residual.                   *)
PhiAttention(i, v) ==
    Apply(i, "dense", Fn("attn", <<Fn("rope", <<Apply(i, "qkv_proj", v)>>)>>))
PhiMLP(i, v) == Apply(i, "fc2", Fn("act", <<Apply(i, "fc1", v)>>))
PhiLayer(i, x) ==
    LET n == Apply(i, "input_layernorm", x.h)
    IN  PlainLayer(Add(Add(PhiAttention(i, n), PhiMLP(i, n)), x.h))
PhiLayerParams == {"input_layernorm", "qkv_proj", "dense", "fc1", "fc2"}
PhiPlace == OnEveryNode("embed_tokens", "final_layernorm", "here")
PhiForward(b, x) ==
    RunStage(b, x, Apply(Top, "embed_tokens", Tokens), PhiLayer,
             LAMBDA y : Apply(Top, "final_layernorm", y.h))
PhiLoad(b, e) ==
    IF e[2] = "rotary_emb.inv_freq"
    THEN Nowhere
    ELSE LoadEntry(b, PhiPlace, PhiLayerParams,
                   [q_proj |-> <<"qkv_proj", "q">>, k_proj |-> <<"qkv_proj", "k">>,
                    v_proj |-> <<"qkv_proj", "v">>], e)

-----------------------------------------------------------------------------
(* falcon.py: style tells the generations apart.  "new" has two norms over *)
(* a parallel block, "parallel" one, "sequential" adds the attention to    *)
(* the residual before the second norm.                                    *)
FalconAttention(i, v, style) ==
    LET qkv == Apply(i, "query_key_value", v)
    IN  Apply(i, "dense",
              IF style = "sequential" THEN Fn("alibi_attn", <<qkv>>)
                                      ELSE Fn("attn", <<Fn("rope", <<qkv>>)>>))
FalconMLP(i, v) ==
    Apply(i, "dense_4h_to_h", Fn("gelu", <<Apply(i, "dense_h_to_4h", v)>>))
FalconDecoderLayer(i, x, style) ==
    LET attention == FalconAttention(i, Apply(i, IF style = "new" THEN "ln_attn"
                                                 ELSE "input_layernorm", x.h), style)
        attended == Add(x.h, attention)
        normed == Apply(i, IF style = "new" THEN "ln_mlp" ELSE "input_layernorm", x.h)
    IN  PlainLayer(
          IF style = "sequential"
          THEN Add(FalconMLP(i, Apply(i, "post_attention_layernorm", attended)), attended)
          ELSE Add(Fn("all_reduce", <<Add(FalconMLP(i, normed), attention)>>), x.h))
FalconLayerParams(style) ==
    {"query_key_value", "dense", "dense_h_to_4h", "dense_4h_to_h"} \union
    CASE style = "new" -> {"ln_attn", "ln_mlp"}
      [] style = "parallel" -> {"input_layernorm"}
      [] OTHER -> {"input_layernorm", "post_attention_layernorm"}
FalconPlace == [word_embeddings |-> "here", ln_f |-> "here"]
FalconHead(tied) ==
    [lm_head |-> IF tied THEN "skipped" ELSE "here",
     head |-> "lm_head", shared_with |-> "word_embeddings"]
FalconForward(b, x, style) ==
    RunStage(b, x, Apply(Top, "word_embeddings", Tokens),
             LAMBDA i, y : FalconDecoderLayer(i, y, style),
             LAMBDA y : Apply(Top, "ln_f", y.h))
(* The fused projection is only permuted: no entry is merged.              *)
FalconLoad(b, tied, style, e) ==
    LoadEntry(b, FalconPlace @@ FalconHead(tied), FalconLayerParams(style), <<>>, e)

-----------------------------------------------------------------------------
(* baichuan.py: positions are rotations or ALiBi slopes, by model size; a  *)
(* tied head is the embedding's tensor under a second name.                *)
BaiChuanMLP(i, v) == GatedMLP(i, v, "silu_and_mul")
BaiChuanAttention(i, v, position) ==
    LET qkv == Apply(i, "W_pack", v)
    IN  Apply(i, "o_proj",
              IF position = "ALIBI" THEN Fn("alibi_attn", <<qkv>>)
                                    ELSE Fn("attn", <<Fn("rope", <<qkv>>)>>))
BaiChuanDecoderLayer(i, x, position) ==
    PreNormLayer(i, x, LAMBDA j, v : BaiChuanAttention(j, v, position), BaiChuanMLP)
BaiChuanLayerParams ==
    {"input_layernorm", "W_pack", "o_proj", "post_attention_layernorm",
     "gate_up_proj", "down_proj"}
BaiChuanPlace(tied) ==
    OnEveryNode("embed_tokens", "norm", IF tied THEN "shared" ELSE "here")
BaiChuanForward(b, x, position) ==
    RunStage(b, x, Apply(Top, "embed_tokens", Tokens),
             LAMBDA i, y : BaiChuanDecoderLayer(i, y, position), NormWithResidual)
BaiChuanLoad(b, tied, e) ==
    IF e[2] = "rotary_emb.inv_freq"
    THEN Nowhere
    ELSE LoadEntry(b, BaiChuanPlace(tied), BaiChuanLayerParams,
                   [gate_proj |-> <<"gate_up_proj", "0">>,
                    up_proj |-> <<"gate_up_proj", "1">>], e)

-----------------------------------------------------------------------------
(* qwen.py, the first generation: w2 is the gate, w1 the up projection.    *)
QWenMLP(i, v) ==
    Apply(i, "mlp.c_proj", Fn("silu_and_mul", <<Apply(i, "gate_up_proj", v)>>))
QWenAttention(i, v) ==
    Apply(i, "attn.c_proj", Fn("attn", <<Fn("rope", <<Apply(i, "c_attn", v)>>)>>))
QWenBlock(i, x) ==
    LET a == FirstNorm(i, "ln_1", x)
        m == FusedNorm(i, "ln_2", [h |-> QWenAttention(i, a.h), r |-> a.r])
    IN  [h |-> QWenMLP(i, m.h), r |-> m.r]
QWenLayerParams ==
    {"ln_1", "c_attn", "attn.c_proj", "ln_2", "gate_up_proj", "mlp.c_proj"}
QWenPlace == [wte |-> "here", ln_f |-> "here"]
QWenHead(tied) ==
    [lm_head |-> IF tied THEN "shared" ELSE "here",
     head |-> "lm_head", shared_with |-> "wte"]
QWenForward(b, x) ==
    RunStage(b, x, Apply(Top, "wte", Tokens), QWenBlock,
             LAMBDA y : FusedNorm(Top, "ln_f", y).h)
QWenLoad(b, tied, e) ==
    IF e[2] = "rotary_emb.inv_freq"
    THEN Nowhere
    ELSE LoadEntry(b, QWenPlace @@ QWenHead(tied), QWenLayerParams,
                   [w2 |-> <<"gate_up_proj", "0">>, w1 |-> <<"gate_up_proj", "1">>], e)

-----------------------------------------------------------------------------
(* chatglm.py.  GLMTransformer.__init__ takes vllm_config first, and its   *)
(* only caller passes config, cache_config and quant_config by position.   *)
GLMTransformerParams == <<"vllm_config", "config", "cache_config", "quant_config">>
GLMTransformerArgs == <<"hf_config", "cache_config", "quant_config">>
GLMTransformerBinds ==
    [k \in DOMAIN GLMTransformerArgs |->
        [param |-> GLMTransformerParams[k], value |-> GLMTransformerArgs[k]]]
(* The first statement reads config.post_layer_norm, which only the model's*)
(* own configuration has.                                                  *)
ChatGLMBuilds ==
    \A k \in DOMAIN GLMTransformerBinds :
        GLMTransformerBinds[k].param = "config" => GLMTransformerBinds[k].value = "hf_config"
=============================================================================
