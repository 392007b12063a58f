CONSTANTS
    Events = {e1, e2}
    Oversize = {e1}
    Publishers = {p1, p2}
    BatchSize = 2
    MaxRemembered = 1
    MaxFaults = 1
    Jobs = {j1}
    QueueWorkers = {w1}
    InlineCallers = {c1}
    MaxAttempts = 2
    MaxConcurrency = 2
    MaxTroubles = 2
    RangeLength = 1
    BackfillWorkers = {b1, b2}
    MaxQueueAttempts = 2
    MaxSubmits = 2
    MaxStops = 1
    Datasets = {d1, d2}
    DatasetLength = 2
    Runners = {r1, r2}
    database = database
    audit = audit
    broker = broker
    Critical = {database, audit}
    Unprobed = {audit}
    NonCritical = {broker}
    ProbeOrder <- MCProbeOrder
    successRate = successRate
    latency = latency
    SloOrder <- MCSloOrder
    RateSlos = {successRate}
    Windows <- MCWindows
    ErrorNum = 1
    ErrorDen = 10
    LatencyTarget = 1
    Reporters = {reporter}
    RecoverySuccesses = 2
    MaxReports = 2
    MaxAlertFaults = 1
SPECIFICATION ServicesSpec
INVARIANTS
    DuplicatesNeedAFault
    FencedResults
    TraceWellFormed
    ReturnedTraceIsWhole
    CompletedMeansComplete
    NoCandleSkipped
    AlertLifecycle
PROPERTIES
    ImplementsDurableLog
    ImplementsAttemptLedger
    HaltNeedsFreshProbes
    EveryEventConfirmed
    EveryExecutionEnds
    EveryBackfillEnds
    HaltEnds
CHECK_DEADLOCK FALSE
