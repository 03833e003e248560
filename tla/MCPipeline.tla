----------------------------- MODULE MCPipeline -----------------------------
(* A head and two workers of a model whose layers are cut at 1 and 2.      *)
EXTENDS MolinkPipeline, TLC
CONSTANTS h, w1, w2

MCStarts == 0..2
MCEnds == {-1, 1, 2, 3}

Bounds(first, last) == [start |-> first, end |-> last]

(* As documented: consecutive ranges, the last one open-ended.             *)
Documented == h :> Bounds(0, 1) @@ w1 :> Bounds(1, 2) @@ w2 :> Bounds(2, -1)
(* The head serves "to the end" although workers join.                     *)
OpenHead == h :> Bounds(0, -1) @@ w1 :> Bounds(1, 2) @@ w2 :> Bounds(2, -1)
(* Both workers were left with the default end layer.                      *)
OpenMiddle == h :> Bounds(0, 1) @@ w1 :> Bounds(1, -1) @@ w2 :> Bounds(2, -1)
(* The last range names the layer count of a three-layer model.            *)
ClosedEnd == h :> Bounds(0, 1) @@ w1 :> Bounds(1, 2) @@ w2 :> Bounds(2, 3)

DocumentedOnly == {Documented}
WithMistakes == {Documented, OpenHead, OpenMiddle}
ClosedEndOnly == {ClosedEnd}
(* The default bounds, with no other node around.                          *)
HeadOnly == {h :> Bounds(0, -1)}

BatchSymmetry == Permutations(Batches)
=============================================================================
