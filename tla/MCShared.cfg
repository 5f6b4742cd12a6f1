SPECIFICATION MCSpec
CONSTANTS
    Threads = {t1, t2}
    Rate = 1
    Capacity = 2
    Amounts = {1, 2}
    Cost = 1
    Calls = 3
    LastCall = 1
    Horizon = 1
    Retries = 3
    BaseDelay = 1
    LastDirect = 1
    ClockEnd = 50
    Emitters = {e1, e2}
    Parts = {1, 2}
    FlushEvery = {1, 2}
    Events = 2
    EmitterKills = 1
    AggKills = 2
    Poisons = {{}, {1}}
    Raises = 1
    SaveErrors = 1
    Corrupt = Corrupt
    None = None
INVARIANTS
    SharedTypeOK
    RateLimited
    BackoffRespected
    LogCountedOnce
PROPERTIES
    DrawsFromBucket
    InvokeReturns
    LinesGetCounted
CHECK_DEADLOCK FALSE
