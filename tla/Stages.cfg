SPECIFICATION MCSpec
CONSTANTS
    h = h
    w1 = w1
    w2 = w2
    w3 = w3
    Nodes = {h, w1, w2, w3}
    HeadNode = h
    Starts <- MCStarts
    Ends <- MCEnds
    NumHiddenLayers = 4
    NumLayers = 4
    MaxStages = 3
    Models <- AllModels
    Quantizations = {"None", "awq"}
    Formats = {"auto", "dummy"}
    Holes = {"none", "o_proj", "q_proj", "lm_head"}
    PictureGrids <- SmallPictures
    MergeSize = 2
    TemporalPatchSize = 2
    MaxFramesPerVideo = 6
    SeqLens = {0, 3, 7, 20, 33}
    MaxCount = 3
INVARIANTS
    TopologyTypeOK
    StoresAgree
    ServerListSound
    HeadLeads
    EveryLayerInOrder
    EmptyRangeTakesAll
    DivisionComposes
    ReadsWhatItLoaded
    RowsReachTheirPlaceholders
    MergedPatchesAreNeighbours
    DummyVideosFit
PROPERTIES
    JoinKeepsOrder
CHECK_DEADLOCK FALSE
