SPECIFICATION SwarmSpec
CONSTANTS
    N = 3
    Engines = {v1}
    MaxRounds = 1
    StartsComplete = TRUE
    MayUnlist = TRUE
    MayLose = FALSE
INVARIANTS
    WholeModelRuns
CHECK_DEADLOCK FALSE
