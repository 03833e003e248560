SPECIFICATION FairSpec
CONSTANTS
    h = h
    w1 = w1
    w2 = w2
    Nodes = {h, w1, w2}
    HeadNode = h
    Starts <- MCStarts
    Ends <- MCEnds
    Batches = {b1, b2}
    NoBatch = NoBatch
    Layouts <- DocumentedOnly
    MaxInFlight = 2
    QueueCap = 100
    MaxFaults = 0
PROPERTIES
    EveryBatchAnswered
CHECK_DEADLOCK FALSE
