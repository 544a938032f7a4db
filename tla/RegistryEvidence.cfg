SPECIFICATION Spec
CONSTANTS
    Device = {"d1"}
    Kind = {"k1"}
    Source = {"s1", "s2"}
    Content = {"a", "b", "bad"}
    WellFormed = {"a", "b"}
    Incarnation = {2}
    IncarnationModulus = 5
    MaxGeneration = 2
    Retirements = {2}
    Ticks = {0}
    Expiries = {}
    Rank = {0, 1}
    OperatorRank = 1
    InitialSources <- EqualSources
    UpsertPolicies <- NoUpserts
    LimitChoices <- TightLimits
    RequireConfiguredSource = TRUE
    RefuseUntrusted = TRUE
    ConservativeFence = TRUE
    RetentionHorizon = 0
    MaxFutureSkew = 0
    DefaultMaxAge = 0
    MaxEpoch = 2
    MaxBoot = 2
    MaxAccepted = 3
    MaxResolved = 1
INVARIANTS
    TypeOK
    ConflictTableExact
    EvidenceIsAttributed
    OneFactPerGeneration
    RejectedIsDominated
    TombstoneFences
    FreshIncarnation
PROPERTIES
    NoRevival
    RestartResurrectsNothing
