SPECIFICATION FairSpec
CONSTANTS
    Device = {"d1"}
    Kind = {"k1"}
    Source = {"s1", "s2"}
    Content = {"a"}
    WellFormed = {"a"}
    Incarnation = {1}
    IncarnationModulus = 3
    MaxGeneration = 2
    Retirements = {}
    Ticks = {0, 2}
    Expiries = {1}
    Rank = {0, 1}
    OperatorRank = 1
    InitialSources <- LateSource
    UpsertPolicies <- LatePolicies
    LimitChoices <- TinyLimits
    RequireConfiguredSource = TRUE
    RefuseUntrusted = TRUE
    ConservativeFence = FALSE
    RetentionHorizon = 1
    MaxFutureSkew = 2
    DefaultMaxAge = 1
    MaxEpoch = 3
    MaxBoot = 2
    MaxAccepted = 3
    MaxResolved = 0
INVARIANTS
    StreamAccounting
    EvictionAccounting
    BudgetRespected
PROPERTIES
    NeverDiscardsCurrent
    ClockNeverBehind
    AdmissionEnds
