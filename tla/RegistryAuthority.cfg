SPECIFICATION Spec
CONSTANTS
    Device = {"d1"}
    Kind = {"k1"}
    Source = {"s1", "s2"}
    Content = {"a"}
    WellFormed = {"a"}
    Incarnation = {1}
    IncarnationModulus = 3
    MaxGeneration = 2
    Retirements = {}
    Ticks = {0}
    Expiries = {}
    Rank = {0, 1, 2}
    OperatorRank = 2
    InitialSources <- EqualSources
    UpsertPolicies <- NoUpserts
    LimitChoices <- TightLimits
    RequireConfiguredSource = TRUE
    RefuseUntrusted = TRUE
    ConservativeFence = TRUE
    RetentionHorizon = 0
    MaxFutureSkew = 0
    DefaultMaxAge = 0
    MaxEpoch = 2
    MaxBoot = 2
    MaxAccepted = 3
    MaxResolved = 0
INVARIANTS
    AuthorityIsPolicy
