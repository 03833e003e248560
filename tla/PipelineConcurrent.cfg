SPECIFICATION Spec
CONSTANTS
    h = h
    w1 = w1
    w2 = w2
    Nodes = {h, w1, w2}
    HeadNode = h
    Starts <- MCStarts
    Ends <- MCEnds
    Batches = {b1, b2, b3}
    NoBatch = NoBatch
    Layouts <- WithMistakes
    MaxInFlight = 3
    QueueCap = 1
    MaxFaults = 1
INVARIANTS
    TypeOK
    ExactlyOnePlace
    StagesInOrder
    TriggersMatchBatches
    SlotHoldsRunningBatch
SYMMETRY BatchSymmetry
CHECK_DEADLOCK FALSE
