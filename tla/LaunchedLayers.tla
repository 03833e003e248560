--------------------------- MODULE LaunchedLayers ---------------------------
(***************************************************************************)
(* Which layers a batch passes on its way through a v1 pipeline: the nodes  *)
(* join in any order, the head sorts them by start layer, and each builds  *)
(* the layers that get_molink_pp_indices makes of the launch arguments it  *)
(* registered with.  Nothing compares the ranges of two nodes, here or in  *)
(* the code.                                                               *)
(***************************************************************************)
EXTENDS PipelineTopology, StageLayers

CONSTANT NumHiddenLayers        \* num_hidden_layers

ASSUME NumHiddenLayersAssumption == NumHiddenLayers \in Nat \ {0}

-----------------------------------------------------------------------------
Layers == 0..(NumHiddenLayers - 1)

(* What a node was launched with.                                          *)
LaunchOf(n) == node_pool[CHOOSE i \in DOMAIN node_pool : node_pool[i].ip = n]

(* What the arguments say: "inclusive" and "exclusive", -1 "for last".     *)
Meant(range) ==
    {l \in Layers : range.start =< l /\ (range.end = ToEnd \/ l < range.end)}

BuiltRange(range) == PPIndices(range, NumHiddenLayers)
Built(range) == BuiltRange(range).start..(BuiltRange(range).end - 1)

(* The layers of the listed nodes, each node's in ascending order.         *)
Passed ==
    LET list == ServerList(node_info)
        Run(n) == LET range == BuiltRange(LaunchOf(n))
                  IN  [k \in 1..(range.end - range.start) |-> range.start + k - 1]
        upto[k \in 0..Len(list)] ==
            IF k = 0 THEN <<>> ELSE upto[k - 1] \o Run(list[k])
    IN  upto[Len(list)]

(* Every member means some layers, no two the same, and together all.      *)
Partitions ==
    LET pool == node_pool
    IN  /\ \A i \in DOMAIN pool : Meant(pool[i]) # {}
        /\ \A i, j \in DOMAIN pool :
              i # j => Meant(pool[i]) \cap Meant(pool[j]) = {}
        /\ UNION {Meant(pool[i]) : i \in DOMAIN pool} = Layers

(* Embedding happens on the first node of the list and nowhere else, and   *)
(* sampling on the last one.                                               *)
EndsAreMarked ==
    LET list == ServerList(node_info)
    IN  \A k \in DOMAIN list :
            /\ IsFirstStage(LaunchOf(list[k])) <=> k = 1
            /\ IsLastStage(LaunchOf(list[k])) <=> k = Len(list)

(* If the launch arguments divide the model among the members, in whatever *)
(* order and however often they joined, a batch passes every layer once    *)
(* and in order; and the ends of the pipeline are marked, provided that    *)
(* the first range starts at 0 and the last one is open-ended.             *)
EveryLayerInOrder ==
    Partitions =>
        /\ Passed = [k \in 1..NumHiddenLayers |-> k - 1]
        /\ \/ \E i \in DOMAIN node_pool : node_pool[i].start < 0
           \/ \A i \in DOMAIN node_pool : node_pool[i].end # ToEnd
           \/ EndsAreMarked

(* A node never builds fewer layers than its arguments mean, and more only *)
(* if they mean none: then, and only then, it takes the whole model.       *)
EmptyRangeTakesAll ==
    \A i \in DOMAIN node_pool :
        LET range == node_pool[i]
        IN  Built(range) = IF Meant(range) = {} THEN Layers ELSE Meant(range)
=============================================================================
