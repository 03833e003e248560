SPECIFICATION Spec
CONSTANTS
    h = h
    w1 = w1
    w2 = w2
    Nodes = {h}
    HeadNode = h
    Starts <- MCStarts
    Ends <- MCEnds
    Batches = {b1}
    NoBatch = NoBatch
    Layouts <- HeadOnly
    MaxInFlight = 1
    QueueCap = 100
    MaxFaults = 0
INVARIANTS
    SingleNodeWorks
CHECK_DEADLOCK FALSE
