----------------------------- MODULE VideoBudget ----------------------------
(***************************************************************************)
(* How many frames the dummy videos of Qwen2-VL's memory profiling have    *)
(* (qwen2_vl.py, Qwen2VLProcessingInfo): as many as the context holds next *)
(* to the largest images, found by trying one frame more each time.        *)
(*                                                                         *)
(* smart_resize is abstracted to the size it gives the largest picture.    *)
(***************************************************************************)
EXTENDS Integers, FiniteSetsExt

CONSTANTS
    PictureGrids,       \* <<h, w>> in patches of the largest picture
    MergeSize,          \* spatial_merge_size
    TemporalPatchSize,  \* temporal_patch_size
    MaxFramesPerVideo,  \* _MAX_FRAMES_PER_VIDEO
    SeqLens,            \* context lengths
    MaxCount            \* most images, and most videos, in a prompt

(* smart_resize makes both sides multiples of patch_size * merge_size.     *)
ASSUME VideoBudgetAssumption ==
    /\ MergeSize \in Nat \ {0} /\ TemporalPatchSize \in Nat \ {0}
    /\ MaxFramesPerVideo \in Nat \ {0} /\ MaxCount \in Nat
    /\ SeqLens \subseteq Nat
    /\ \A g \in PictureGrids : \A side \in {g[1], g[2]} :
          side \in Nat \ {0} /\ side % MergeSize = 0

VARIABLES
    grid,       \* the largest picture
    seqLen,     \* seq_len
    mmCounts,   \* mm_counts
    numFrames,  \* the loop's num_frames
    dummy,      \* frames of each dummy video, 0 before they are known
    phase

budget_vars == <<grid, seqLen, mmCounts, numFrames, dummy>>

(* _get_vision_info: frames are padded to whole temporal patches.          *)
GridT(frames) ==
    Max({(frames + (frames % TemporalPatchSize)) \div TemporalPatchSize, 1})
NumVisionTokens(frames) ==
    (GridT(frames) * grid[1] * grid[2]) \div (MergeSize * MergeSize)

MaxImageTokens == NumVisionTokens(1)

(* What is left for videos: seq_len - max_image_tokens; it may be negative.*)
ForVideos == seqLen - MaxImageTokens * mmCounts.image

BudgetInit ==
    /\ grid \in PictureGrids
    /\ seqLen \in SeqLens
    /\ mmCounts \in [{"image", "video"} -> 0..MaxCount]
    /\ numFrames = 0
    /\ dummy = 0
    /\ phase = "counting"

(* A turn of _get_max_video_frames.                                        *)
OneMoreFits == NumVisionTokens(numFrames + 1) <= ForVideos

CountOneMore ==
    /\ phase = "counting"
    /\ OneMoreFits
    /\ numFrames' = numFrames + 1
    /\ UNCHANGED <<grid, seqLen, mmCounts, dummy, phase>>

(* The loop ends; get_num_frames_with_most_features shares the frames out, *)
(* and get_dummy_mm_data makes the videos.                                 *)
FramesPerVideo_NotShared ==     \* mutant: every video gets all the frames
    Max({Min({numFrames, MaxFramesPerVideo}), 1})
FramesPerVideo ==
    Max({Min({numFrames \div Max({mmCounts.video, 1}), MaxFramesPerVideo}), 1})

MakeDummies ==
    /\ phase = "counting"
    /\ ~OneMoreFits
    /\ dummy' = FramesPerVideo
    /\ phase' = "made"
    /\ UNCHANGED <<grid, seqLen, mmCounts, numFrames>>

BudgetNext == CountOneMore \/ MakeDummies
BudgetSpec == BudgetInit /\ [][BudgetNext]_<<budget_vars, phase>>

-----------------------------------------------------------------------------
VideoTokens == mmCounts.video * NumVisionTokens(dummy)
OneFrame == NumVisionTokens(1)

(* The number of frames found is the largest that fits: padding makes the  *)
(* count of tokens a staircase, and the loop stops at its last step and    *)
(* not before it (qwen2_vl.py:918).                                        *)
FramesAreTheMost ==
    phase = "made" =>
        /\ numFrames > 0 => NumVisionTokens(numFrames) <= ForVideos
        /\ \A n \in numFrames + 1..numFrames + 2 * TemporalPatchSize :
              NumVisionTokens(n) > ForVideos

(* The dummy videos stay within the context up to one padded temporal      *)
(* patch each, unless not even one frame of each fits: sharing frames out  *)
(* before padding costs at most that (qwen2_vl.py:943).                    *)
DummyVideosNearlyFit ==
    phase = "made" /\ mmCounts.video > 0 /\ numFrames >= mmCounts.video =>
        VideoTokens + MaxImageTokens * mmCounts.image <= seqLen + mmCounts.video * OneFrame

(* A single dummy video fits next to the images whenever one frame does.   *)
OneDummyVideoFits ==
    phase = "made" /\ mmCounts.video = 1 =>
        LET images == MaxImageTokens * mmCounts.image
        IN  OneFrame + images <= seqLen => VideoTokens + images <= seqLen

(* The dummy videos have as many frames as fit, and stay within the        *)
(* context up to their padding, or exactly if there is only one.           *)
DummyVideosFit == FramesAreTheMost /\ DummyVideosNearlyFit /\ OneDummyVideoFits
=============================================================================
