CONSTANTS
    Candles = {c1, c2, c3}
    Cycles = {t1, t2}
    RequestedNotional = 2
    MaxGross = 3
    MaxPositions = 2
    MaxTradingFaults = 1
    Experiments = {x1}
    Confirming = {x1}
    Callers = {k1, k2}
    ShadowAgents = {a1, a2, a3}
    Scores = {1, 3, 5}
    Votes = {0, 200}
    BuyThreshold = 110
    SellThreshold = 90
    CapNum = 2
    CapDen = 5
    MinEligible = 3
    EventTimes = {1, 2, 3}
    MaxConsensusFaults = 1
    CampaignLengths = {3, 4, 5}
    OrderListLimit = 2
    OrdersBefore = 1
    MaxDisturbances = 3
    Venues = {v1, v2}
    LastPeriod = 3
    RestoreLimit = 3
    MaxEvaluationFaults = 1
    Bundles = {b1}
    Audits = {u1}
    ReleaseCallers = {q1, q2}
    LastHour = 2
    Expiries = {2}
    Validity = 1
    MaxDecisions = 1
    MaxReleaseFaults = 1
SPECIFICATION DecisionsSpec
SYMMETRY Interchangeable
INVARIANTS
    ExposureWithinLimits
    ProfitCountedOnce
    OneDecisionPerCandle
    BooksAgree
    VetoNeedsActivation
    WeightsCapped
    PassedMeansUntouched
    QuietCampaignPasses
    SettledHistoryIsDurable
    AuthorizationIsBacked
PROPERTIES
    RestartKeepsExperiment
    OutcomesAreFinal
CHECK_DEADLOCK FALSE
