---------------------------- MODULE ModelCatalog ----------------------------
(***************************************************************************)
(* The architectures by name: which module of molink.model_executor.models *)
(* serves each, the choice of a class, and its parts, dispatched.          *)
(***************************************************************************)
EXTENDS DenseModels, MoreDenseModels, ExpertModels

(* registry.py: architecture to module, for every module in the            *)
(* repository, and for two of the many the table names without one.        *)
ModelRegistry ==
    [LlamaForCausalLM |-> "llama", MistralForCausalLM |-> "llama",
     Phi3ForCausalLM |-> "phi3", GlmForCausalLM |-> "glm",
     Qwen2ForCausalLM |-> "qwen2", Qwen3ForCausalLM |-> "qwen3",
     Qwen2VLForConditionalGeneration |-> "qwen2_vl",
     BloomForCausalLM |-> "bloom", GPT2LMHeadModel |-> "gpt2",
     GemmaForCausalLM |-> "gemma", Gemma2ForCausalLM |-> "gemma2",
     CohereForCausalLM |-> "commandr", PhiForCausalLM |-> "phi",
     FalconForCausalLM |-> "falcon", RWForCausalLM |-> "falcon",
     BaiChuanForCausalLM |-> "baichuan", BaichuanForCausalLM |-> "baichuan",
     QWenLMHeadModel |-> "qwen", ChatGLMModel |-> "chatglm",
     Qwen2MoeForCausalLM |-> "qwen2_moe", Qwen3MoeForCausalLM |-> "qwen3_moe",
     MixtralForCausalLM |-> "mixtral", DeepseekForCausalLM |-> "deepseek",
     DeepseekV2ForCausalLM |-> "deepseek_v2", DeepseekV3ForCausalLM |-> "deepseek_v2",
     MambaForCausalLM |-> "mamba",
     QuantMixtralForCausalLM |-> "mixtral_quant", OPTForCausalLM |-> "opt"]

(* The files that are there.                                               *)
ModelFiles ==
    {"llama", "phi3", "glm", "qwen2", "qwen3", "qwen2_vl", "bloom", "gpt2", "gemma",
     "gemma2", "commandr", "phi", "falcon", "baichuan", "qwen", "chatglm",
     "qwen2_moe", "qwen3_moe", "mixtral", "deepseek", "deepseek_v2", "mamba"}

(* Mixtral in a quantisation its module does not support is redirected.    *)
MixtralSupported == {"fp8", "compressed-tensors", "gptq_marlin", "awq_marlin"}
GetModelArchitecture(arch, quantization) ==
    IF arch = "MixtralForCausalLM" /\ quantization \notin MixtralSupported \union {"None"}
    THEN "QuantMixtralForCausalLM"
    ELSE arch

(* Constructing the class: its module is imported, and __init__ runs.      *)
InitializeModel(arch, quantization) ==
    LET file == ModelRegistry[GetModelArchitecture(arch, quantization)]
    IN  file \in ModelFiles /\ (file = "chatglm" => ChatGLMBuilds)

-----------------------------------------------------------------------------
(* One node's forward pass, the parameters of a layer, where the other     *)
(* modules are, and the loader, of a model [arch, tied].                   *)
FalconStyle(m) ==
    CASE m.arch = "RWForCausalLM" -> "sequential"
      [] m.tied -> "parallel"
      [] OTHER -> "new"
BaichuanPosition(m) == IF m.arch = "BaichuanForCausalLM" THEN "ALIBI" ELSE "ROPE"
IsV3(m) == m.arch = "DeepseekV3ForCausalLM"

Forward(m, b, x) ==
    LET file == ModelRegistry[m.arch]
    IN  CASE file \in {"llama", "phi3"} -> LlamaForward(b, x)
          [] file = "glm" -> GlmForward(b, x)
          [] file = "qwen2" -> Qwen2Forward(b, x)
          [] file = "qwen3" -> Qwen3Forward(b, x)
          [] file = "qwen2_vl" -> Qwen2VLForward(b, x)
          [] file = "bloom" -> BloomForward(b, x)
          [] file = "gpt2" -> GPT2Forward(b, x)
          [] file = "gemma" -> GemmaForward(b, x)
          [] file = "gemma2" -> Gemma2Forward(b, x)
          [] file = "commandr" -> CohereForward(b, x)
          [] file = "phi" -> PhiForward(b, x)
          [] file = "falcon" -> FalconForward(b, x, FalconStyle(m))
          [] file = "baichuan" -> BaiChuanForward(b, x, BaichuanPosition(m))
          [] file = "qwen" -> QWenForward(b, x)
          [] file = "qwen2_moe" -> Qwen2MoeForward(b, x)
          [] file = "qwen3_moe" -> Qwen3MoeForward(b, x)
          [] file = "mixtral" -> MixtralForward(b, x)
          [] file = "deepseek" -> DeepseekForward(b, x)
          [] file = "deepseek_v2" -> DeepseekV2Forward(b, x, IsV3(m), ~IsV3(m))
          [] file = "mamba" -> MambaForward(b, x)

LayerParams(m, i) ==
    LET file == ModelRegistry[m.arch]
    IN  CASE file \in {"llama", "phi3"} -> LlamaLayerParams
          [] file = "glm" -> GlmLayerParams
          [] file \in {"qwen2", "qwen2_vl"} -> Qwen2LayerParams
          [] file = "qwen3" -> Qwen3LayerParams
          [] file = "bloom" -> BloomLayerParams
          [] file = "gpt2" -> GPT2LayerParams
          [] file = "gemma" -> GemmaLayerParams
          [] file = "gemma2" -> Gemma2LayerParams
          [] file = "commandr" -> CohereLayerParams
          [] file = "phi" -> PhiLayerParams
          [] file = "falcon" -> FalconLayerParams(FalconStyle(m))
          [] file = "baichuan" -> BaiChuanLayerParams
          [] file = "qwen" -> QWenLayerParams
          [] file = "qwen2_moe" -> Qwen2MoeLayerParams(i)
          [] file = "qwen3_moe" -> Qwen3MoeLayerParams(i)
          [] file = "mixtral" -> MixtralLayerParams
          [] file = "deepseek" -> DeepseekLayerParams(i)
          [] file = "deepseek_v2" -> DeepseekV2LayerParams(i, IsV3(m))
          [] file = "mamba" -> MambaLayerParams

Place(m, b) ==
    LET file == ModelRegistry[m.arch]
    IN  CASE file \in {"llama", "phi3", "glm"} -> LlamaPlace(b, m.tied)
          [] file = "qwen2" -> Qwen2Place(b, m.tied) @@ Qwen2Head(b, m.tied)
          [] file = "qwen3" -> Qwen2Place(b, m.tied) @@ Qwen3Head(b, m.tied)
          [] file = "qwen2_vl" -> Qwen2VLPlace(b, m.tied)
          [] file = "bloom" -> BloomPlace
          [] file = "gpt2" -> GPT2Place(m.tied)
          [] file = "gemma" -> GemmaPlace
          [] file = "gemma2" -> Gemma2Place
          [] file = "commandr" -> CoherePlace
          [] file = "phi" -> PhiPlace
          [] file = "falcon" -> FalconPlace @@ FalconHead(m.tied)
          [] file = "baichuan" -> BaiChuanPlace(m.tied)
          [] file = "qwen" -> QWenPlace @@ QWenHead(m.tied)
          [] file = "qwen2_moe" -> Qwen2MoePlace @@ Qwen2MoeHead(m.tied)
          [] file = "qwen3_moe" -> Qwen3MoePlace @@ Qwen3MoeHead(m.tied)
          [] file = "mixtral" -> MixtralPlace @@ MixtralHead(m.tied)
          [] file = "deepseek" -> DeepseekPlace @@ DeepseekHead(m.tied)
          [] file = "deepseek_v2" -> DeepseekV2Place(b) @@ DeepseekV2Head(b)
          [] file = "mamba" -> MambaPlace @@ MambaHead(m.tied)

LoadWeight(m, b, e) ==
    LET file == ModelRegistry[m.arch]
    IN  CASE m.arch = "MistralForCausalLM" -> MistralLoad(b, m.tied, e)
          [] m.arch = "LlamaForCausalLM" -> LlamaLoad(b, m.tied, e)
          [] file = "phi3" -> Phi3Load(b, m.tied, e)
          [] file = "glm" -> GlmLoad(b, m.tied, e)
          [] file = "qwen2" -> Qwen2Load(b, m.tied, e)
          [] file = "qwen3" -> Qwen3Load(b, m.tied, e)
          [] file = "qwen2_vl" -> Qwen2VLLoad(b, m.tied, e)
          [] file = "bloom" -> BloomLoad(b, e)
          [] file = "gpt2" -> GPT2Load(b, m.tied, e)
          [] file = "gemma" -> GemmaLoad(b, e)
          [] file = "gemma2" -> Gemma2Load(b, e)
          [] file = "commandr" -> CohereLoad(b, e)
          [] file = "phi" -> PhiLoad(b, e)
          [] file = "falcon" -> FalconLoad(b, m.tied, FalconStyle(m), e)
          [] file = "baichuan" -> BaiChuanLoad(b, m.tied, e)
          [] file = "qwen" -> QWenLoad(b, m.tied, e)
          [] file = "qwen2_moe" -> Qwen2MoeLoad(b, m.tied, e)
          [] file = "qwen3_moe" -> Qwen3MoeLoad(b, m.tied, e)
          [] file = "mixtral" -> MixtralLoad(b, m.tied, e)
          [] file = "deepseek" -> DeepseekLoad(b, m.tied, e)
          [] file = "deepseek_v2" -> DeepseekV2Load(b, IsV3(m), e)
          [] file = "mamba" -> MambaLoad(b, m.tied, e)
=============================================================================
