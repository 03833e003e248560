---------------------------- MODULE Checkpoints -----------------------------
(***************************************************************************)
(* The entries of the published checkpoints, which are not part of the     *)
(* repository: the names the loaders in src/ expect to meet, layer by      *)
(* layer.  Two experts stand for any number.                               *)
(***************************************************************************)
EXTENDS ModelCatalog

Norms == {"input_layernorm", "post_attention_layernorm"}
QKV == {"q_proj", "k_proj", "v_proj"}
GateUpDown == {"gate_proj", "up_proj", "down_proj"}
LlamaEntries == Norms \union QKV \union {"o_proj"} \union GateUpDown
Experts ==
    {"experts.0.gate_proj", "experts.0.up_proj", "experts.0.down_proj",
     "experts.1.gate_proj", "experts.1.up_proj", "experts.1.down_proj"}
SharedExpert == {"shared_expert.gate_proj", "shared_expert.up_proj", "shared_expert.down_proj"}
SharedExperts == {"shared_experts.gate_proj", "shared_experts.up_proj", "shared_experts.down_proj"}
FusedBlock ==
    Norms \union {"query_key_value", "dense", "dense_h_to_4h", "dense_4h_to_h"}

(* A sparse layer has experts in the place of the dense projections.       *)
MoeEntries(base, sparse, extra) ==
    IF sparse THEN (base \ GateUpDown) \union {"gate"} \union extra ELSE base

LayerEntries(m, i) ==
    LET file == ModelRegistry[m.arch]
    IN  CASE m.arch = "MistralForCausalLM" ->
               {"wq", "wk", "wv", "wo", "attention_norm", "w1", "w2", "w3", "ffn_norm"}
          [] m.arch = "LlamaForCausalLM" -> LlamaEntries \union {"rotary_emb.inv_freq"}
          [] file \in {"qwen2", "qwen2_vl", "gemma"} -> LlamaEntries
          [] file = "phi3" -> Norms \union {"qkv_proj", "o_proj", "gate_up_proj", "down_proj"}
          [] file = "glm" ->
               LlamaEntries \union {"q_proj.bias", "k_proj.bias", "v_proj.bias"}
          [] file = "qwen3" -> LlamaEntries \union {"q_norm", "k_norm"}
          [] file = "bloom" -> FusedBlock
          [] file = "gpt2" ->
               {"ln_1", "attn.c_attn", "attn.c_proj", "ln_2", "mlp.c_fc", "mlp.c_proj",
                "attn.bias"}
          [] file = "gemma2" ->
               LlamaEntries \union {"pre_feedforward_layernorm", "post_feedforward_layernorm"}
          [] file = "commandr" ->
               (LlamaEntries \ {"post_attention_layernorm"}) \union {"q_norm", "k_norm"}
          [] file = "phi" -> {"input_layernorm", "dense", "fc1", "fc2"} \union QKV
          [] file = "falcon" ->
               (FusedBlock \ Norms) \union
               CASE FalconStyle(m) = "new" -> {"ln_attn", "ln_mlp"}
                 [] FalconStyle(m) = "parallel" -> {"input_layernorm"}
                 [] OTHER -> Norms
          [] file = "baichuan" ->
               Norms \union {"W_pack", "o_proj", "rotary_emb.inv_freq"} \union GateUpDown
          [] file = "qwen" -> {"ln_1", "c_attn", "attn.c_proj", "ln_2", "w1", "w2", "mlp.c_proj"}
          [] file = "qwen2_moe" ->
               MoeEntries(LlamaEntries, Qwen2MoeIsSparse(i),
                          Experts \union SharedExpert \union {"shared_expert_gate"})
          [] file = "qwen3_moe" ->
               MoeEntries(LlamaEntries \union {"q_norm", "k_norm"}, Qwen3MoeIsSparse(i), Experts)
          [] file = "mixtral" ->
               Norms \union QKV \union {"o_proj", "gate", "experts.0.w1", "experts.0.w2",
                   "experts.0.w3", "experts.1.w1", "experts.1.w2", "experts.1.w3"}
          [] file = "deepseek" ->
               MoeEntries(LlamaEntries, DeepseekIsSparse(i), Experts \union SharedExperts)
          [] file = "deepseek_v2" ->
               MoeEntries((LlamaEntries \ QKV) \union
                          {"kv_a_proj_with_mqa", "kv_a_layernorm", "kv_b_proj"} \union
                          (IF IsV3(m) THEN {"q_a_proj", "q_a_layernorm", "q_b_proj"}
                                      ELSE {"q_proj"}),
                          DeepseekV2IsSparse(i), Experts \union SharedExperts)
          [] file = "mamba" -> {"layer_norm", "in_proj", "conv1d", "A_log", "out_proj"}

(* Outside the layers; a tied model's head is its embedding, and most of   *)
(* those checkpoints have no entry for it.                                 *)
TopEntries(m) ==
    LET file == ModelRegistry[m.arch]
        head == IF m.tied THEN {} ELSE {"lm_head"}
    IN  CASE m.arch = "MistralForCausalLM" -> {"tok_embeddings", "norm", "output"}
          [] file = "bloom" -> {"word_embeddings", "word_embeddings_layernorm", "ln_f"}
          [] file = "gpt2" -> {"wte", "wpe", "ln_f"} \union head
          [] file = "phi" -> {"embed_tokens", "final_layernorm"} \union head
          [] file = "falcon" -> {"word_embeddings", "ln_f"} \union head
          [] file = "qwen" -> {"wte", "ln_f"} \union head
          [] file = "mamba" -> {"embeddings", "norm_f"} \union head
          [] file = "qwen2_vl" -> {"embed_tokens", "norm"} \union VisualParams \union head
          [] OTHER -> {"embed_tokens", "norm"} \union head

(* V3 checkpoints hold one more layer, the speculative decoder's.          *)
CheckpointLayers(m) ==
    IF IsV3(m) THEN 0..NumLayers ELSE 0..NumLayers - 1

Checkpoint(m) ==
    {<<Top, n>> : n \in TopEntries(m)} \union
    UNION {{<<i, n>> : n \in LayerEntries(m, i)} : i \in CheckpointLayers(m)}

(* The parts a merged parameter is put together from, where the checkpoint *)
(* does not hold it whole.                                                 *)
Parts(name) ==
    CASE name = "qkv_proj" -> {"q", "k", "v"}
      [] name = "qkv_proj.bias" -> {"q_proj.bias", "k_proj.bias", "v_proj.bias"}
      [] name \in {"gate_up_proj", "shared_expert.gate_up_proj", "shared_experts.gate_up_proj",
                   "experts.0.gate_up_proj", "experts.1.gate_up_proj"} -> {"0", "1"}
      [] name = "experts.w13" -> {"0.w1", "0.w3", "1.w1", "1.w3"}
      [] name = "experts.w2" -> {"0.w2", "1.w2"}
      [] OTHER -> {Whole}

Initialised(got, p) ==
    LET shards == {t[2] : t \in {u \in got : u[1] = p}}
    IN  Whole \in shards \/ Parts(p[2]) \subseteq shards
=============================================================================
