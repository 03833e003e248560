SPECIFICATION MCSpec
CONSTANTS
    c1 = c1
    c2 = c2
    Requests = {r1, r2, r3}
    AsyncRequests = {r1, r2}
    PromptLen = 2
    MaxTokens = 3
    NumSpec = 1
    MaxOutstanding = 2
    Ctxs = {c1, c2}
    Prompt = 1
    MaxLen = 4
    TotalSlots = 6
    ScheduleLimit = 1
    Chunked = TRUE
    PreemptionModes = {"recompute", "swap"}
    MayFail = TRUE
    MayAbort = TRUE
INVARIANTS
    CacheBooks
    NoDoubleFlight
    OneQueueEach
    SoundUntilSnatched
    PlaceholdersAreDue
PROPERTIES
    KeepsPromise
    AllEnd
CHECK_DEADLOCK FALSE
