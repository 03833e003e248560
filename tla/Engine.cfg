SPECIFICATION MCSpec
CONSTANTS
    Requests = {r1, r2}
    MaxBatchNum = 2
    Steps = 2
    Profiled = 3
    MaxLatency = 3
    MaxCandidate = 6
    Overhead = 1
    WireLatency = 2
    WirePerRow = 1
    MaxRequests = 13
INVARIANTS
    RequestsHavePlaces
    MarksAreExecuted
    PlanSound
PROPERTIES
    RequestsAnswered
CHECK_DEADLOCK FALSE
