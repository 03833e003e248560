SPECIFICATION Spec
CONSTANTS
    h = h
    w1 = w1
    w2 = w2
    Nodes = {h, w1, w2}
    HeadNode = h
    Starts <- MCStarts
    Ends <- MCEnds
    Batches = {b1}
    NoBatch = NoBatch
    Layouts <- DocumentedOnly
    MaxInFlight = 1
    QueueCap = 100
    MaxFaults = 0
PROPERTIES
    TensorsPrecedeTrigger
CHECK_DEADLOCK FALSE
