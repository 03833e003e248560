SPECIFICATION MCSpec
CONSTANTS
    h = h
    w1 = w1
    w2 = w2
    w3 = w3
    VEs = {v1, v2}
    Engines = {v1, v2}
    Workers = {p1, p2}
    MaxSteps = 4
    N = 3
    MaxRounds = 4
    StartsComplete = TRUE
    MayUnlist = FALSE
    MayLose = FALSE
    MaxControls = 2
    Nodes = {h, w1, w2, w3}
    HeadNode = h
    HostOf <- TwoHosts
    StartPort <- Ports
    MaxCrashes = 2
    Registered = {s1, s2}
INVARIANTS
    BatchHasCompleted
    PathFollowsList
    SameSteps
    AddressesHold
PROPERTIES
    StepsEnd
    AliveAreSeen
    StepsComplete
CHECK_DEADLOCK FALSE
