---------------------------- MODULE VisionItems -----------------------------
(***************************************************************************)
(* Images and videos on their way into a Qwen2-VL prompt (qwen2_vl.py):    *)
(* the processor replaces each item by a run of placeholders and cuts the  *)
(* batch's tensors into items; the model glues the items together, runs    *)
(* the vision tower, and puts its rows in the place of the placeholders.   *)
(*                                                                         *)
(* A row of a tensor is <<item, k>>: the k-th of its item.  The item is    *)
(* its place in the prompt.                                                *)
(***************************************************************************)
EXTENDS Integers, Sequences, FiniteSets, SequencesExt

CONSTANTS
    Grids,      \* the <<t, h, w>> an item may have, in patches; MergeSize divides h and w
    MergeSize,  \* spatial_merge_size
    MaxItems    \* bound: images and videos in a prompt

VARIABLES
    prompt,     \* the items: [modality, grid]
    kind,       \* of each modality: "pixels", or "embeds" computed elsewhere
    slices,     \* of each item: the rows the field configuration cut out
    filled,     \* the prompt's placeholders, with the rows put there
    phase

vars == <<prompt, kind, slices, filled, phase>>

Modalities == {"image", "video"}
Area == MergeSize * MergeSize
Prod(g) == g[1] * g[2] * g[3]
ItemsOf(modality) ==
    SelectSeq([i \in DOMAIN prompt |-> i], LAMBDA i : prompt[i].modality = modality)
Rows(i, n) == [k \in 1..n |-> <<i, k - 1>>]
Glue(rowsOf(_), items) == FlattenSeq([j \in DOMAIN items |-> rowsOf(items[j])])

(* Pixel tensors have a row per patch, embeddings one per merged patch.    *)
RowCount(i) ==
    IF kind[prompt[i].modality] = "pixels" THEN Prod(prompt[i].grid)
                                           ELSE Prod(prompt[i].grid) \div Area
OwnRows(i) == Rows(i, RowCount(i))
Tensor(modality) == Glue(OwnRows, ItemsOf(modality))

Init ==
    /\ prompt \in UNION {[1..n -> [modality : Modalities, grid : Grids]] : n \in 1..MaxItems}
    /\ kind \in [Modalities -> {"pixels", "embeds"}]
    /\ slices = [i \in DOMAIN prompt |-> <<>>]
    /\ filled = <<>>
    /\ phase = "asked"

-----------------------------------------------------------------------------
(* _get_prompt_updates: as many placeholders as the item has merged patches*)
NumPlaceholders(i) == Prod(prompt[i].grid) \div Area
Placeholders ==
    FlattenSeq([i \in DOMAIN prompt |-> Rows(i, NumPlaceholders(i))])

(* _qwen2vl_field_config: both kinds of tensor are cut by grid_thw.prod(). *)
SliceStart(modality, j) ==
    FoldLeft(LAMBDA n, i : n + Prod(prompt[i].grid), 0, SubSeq(ItemsOf(modality), 1, j - 1))
FlatFromSizes(modality, j) ==
    LET from == SliceStart(modality, j)
        to == from + Prod(prompt[ItemsOf(modality)[j]].grid)
    IN  SubSeq(Tensor(modality), from + 1, IF to < Len(Tensor(modality)) THEN to
                                           ELSE Len(Tensor(modality)))

Process ==
    /\ phase = "asked"
    /\ filled' = [p \in DOMAIN Placeholders |-> [at |-> Placeholders[p], row |-> {}]]
    /\ slices' = [i \in DOMAIN prompt |->
          LET m == prompt[i].modality
              j == CHOOSE k \in DOMAIN ItemsOf(m) : ItemsOf(m)[k] = i
          IN  FlatFromSizes(m, j)]
    /\ phase' = "processed"
    /\ UNCHANGED <<prompt, kind>>

-----------------------------------------------------------------------------
(* _validate_and_reshape_mm_tensor: the items' slices are one tensor again.*)
Batch(modality) == Glue(LAMBDA i : slices[i], ItemsOf(modality))

(* Qwen2VisionPatchMerger: Area consecutive rows become one.               *)
Tower_Strided(rows) ==      \* mutant: rows far apart become one
    LET n == Len(rows) \div Area
    IN  [j \in 1..n |-> {<<rows[j + n * k][1], rows[j + n * k][2] \div Area>> : k \in 0..Area - 1}]
Tower(rows) ==
    [j \in 1..(Len(rows) \div Area) |->
        {<<rows[k][1], rows[k][2] \div Area>> : k \in (j - 1) * Area + 1..j * Area}]

(* _process_image_input, _process_video_input.                             *)
Embeddings(modality) ==
    IF kind[modality] = "pixels" THEN Tower(Batch(modality))
    ELSE [j \in DOMAIN Batch(modality) |-> {Batch(modality)[j]}]
SplitSizes(modality) ==
    FoldLeft(LAMBDA n, i : n + ((Prod(prompt[i].grid) \div MergeSize) \div MergeSize), 0,
             ItemsOf(modality))

(* merge_multimodal_embeddings: the rows fill the placeholders of one      *)
(* token in order; the counts must agree.                                  *)
PlacesOf(modality) ==
    SelectSeq([p \in DOMAIN filled |-> p],
              LAMBDA p : prompt[filled[p].at[1]].modality = modality)
CountsAgree(modality) ==
    /\ Len(Embeddings(modality)) = SplitSizes(modality)
    /\ Len(Embeddings(modality)) = Len(PlacesOf(modality))
Merged(modality) ==
    [p \in DOMAIN filled |->
        LET mine == {j \in DOMAIN PlacesOf(modality) : PlacesOf(modality)[j] = p}
        IN  IF mine = {} THEN filled[p]
            ELSE [filled[p] EXCEPT !.row = Embeddings(modality)[CHOOSE j \in mine : TRUE]]]

(* get_input_embeddings_v0: the images, if any, and then the videos.       *)
MergeModality(modality, after) ==
    /\ filled' = IF CountsAgree(modality) THEN Merged(modality) ELSE filled
    /\ phase' = IF CountsAgree(modality) THEN after ELSE "error"
    /\ UNCHANGED <<prompt, kind, slices>>

MergeImages == phase = "processed" /\ MergeModality("image", "images merged")
MergeVideos == phase = "images merged" /\ MergeModality("video", "merged")

Next == Process \/ MergeImages \/ MergeVideos
Spec == Init /\ [][Next]_vars

-----------------------------------------------------------------------------
(* rot_pos_emb: a frame's positions, reshaped to (h/m, m, w/m, m), permuted*)
(* to (0, 2, 1, 3) and flattened, so that a block's patches are adjacent.  *)
PosIds_RowMajor(g, k) ==            \* mutant: not permuted
    LET n == k % (g[2] * g[3]) IN <<n \div g[3], n % g[3]>>
PosIds(g, k) ==
    LET n == k % (g[2] * g[3])
        block == n \div Area
        inner == n % Area
        across == g[3] \div MergeSize
    IN  <<(block \div across) * MergeSize + (inner \div MergeSize),
          (block % across) * MergeSize + (inner % MergeSize)>>

(* cu_seqlens: attention windows of h * w rows, one for every frame.       *)
WindowSizes(modality) ==
    FlattenSeq([j \in DOMAIN ItemsOf(modality) |->
        LET g == prompt[ItemsOf(modality)[j]].grid IN [t \in 1..g[1] |-> g[2] * g[3]]])
CuSeqlens(modality) ==
    [n \in 1..Len(WindowSizes(modality)) + 1 |->
        FoldLeft(LAMBDA a, b : a + b, 0, SubSeq(WindowSizes(modality), 1, n - 1))]

-----------------------------------------------------------------------------
(* Whatever the order of images and videos in the prompt, every            *)
(* placeholder gets the row of its own item and place, and only that one   *)
(* (qwen2_vl.py:1303).                                                     *)
RowsReachTheirPlaceholders ==
    phase = "merged" =>
        \A p \in DOMAIN filled : filled[p].row = {filled[p].at}

(* The number of placeholders the processor writes agrees with the number  *)
(* of rows the model computes: no prompt is refused.                       *)
CountsAlwaysAgree == phase # "error"

(* Pixel rows are cut at the items' borders.                               *)
PixelSlicesAreItems ==
    phase # "asked" =>
        \A i \in DOMAIN prompt :
            kind[prompt[i].modality] = "pixels" => slices[i] = OwnRows(i)

(* The patches that are merged into one row are a square of neighbours in  *)
(* the image, as their positions are computed (qwen2_vl.py:595).           *)
MergedPatchesAreNeighbours ==
    \A i \in DOMAIN prompt : \A j \in 0..(Prod(prompt[i].grid) \div Area) - 1 :
        LET g == prompt[i].grid
            square == {PosIds(g, k) : k \in j * Area..(j + 1) * Area - 1}
            corner == PosIds(g, j * Area)
        IN  square = (corner[1]..corner[1] + MergeSize - 1)
                         \X (corner[2]..corner[2] + MergeSize - 1)

(* No attention window reaches over the border of an item or of a frame    *)
(* (qwen2_vl.py:642).                                                      *)
WindowsAreFrames ==
    \A m \in Modalities : kind[m] = "pixels" =>
        \A n \in 1..Len(CuSeqlens(m)) - 1 :
            Cardinality({<<Tensor(m)[r][1],
                           Tensor(m)[r][2] \div (prompt[Tensor(m)[r][1]].grid[2]
                                                 * prompt[Tensor(m)[r][1]].grid[3])>> :
                         r \in CuSeqlens(m)[n] + 1..CuSeqlens(m)[n + 1]}) = 1
=============================================================================
