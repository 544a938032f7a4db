SPECIFICATION DecisionSpec
SYMMETRY Interchangeable
CONSTANTS
    Device = {"d1"}
    Kind = {"k1"}
    Source = {s1, s2}
    Content = {"a", "b"}
    WellFormed = {"a", "b"}
    Incarnation = {1}
    IncarnationModulus = 2
    MaxGeneration = 2
    Retirements = {2}
    Ticks = {0}
    Expiries = {}
    Rank = {0}
    OperatorRank = 0
    InitialSources <- EqualSources
    UpsertPolicies <- NoUpserts
    LimitChoices <- OneDecision
    RequireConfiguredSource = TRUE
    RefuseUntrusted = TRUE
    ConservativeFence = TRUE
    RetentionHorizon = 0
    MaxFutureSkew = 0
    DefaultMaxAge = 0
    MaxEpoch = 2
    MaxBoot = 1
    MaxAccepted = 3
    MaxResolved = 1
    Verdict <- MeetsOnlyA
    Ages = {0}
    MaxRuleGeneration = 2
INVARIANTS
    ResolutionSettles
    DecisionOrderExact
    QueryAgreesWithEvaluate
