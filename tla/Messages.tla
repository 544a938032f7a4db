------------------------------ MODULE Messages ------------------------------
(***************************************************************************)
(* The types the store and the wire carry: one layout for each pair of     *)
(* encode and decode in src/src/codec.cpp and src/src/protocol.cpp, its    *)
(* fields in the order they are written.                                   *)
(***************************************************************************)
EXTENDS Codec

NameId == Text(kMaxNameLength, "name")
Kind == Among(CapabilityKind)
SourceKind == Among(1 .. 5)
AuthorityRank == Among(0 .. 5)
SourceTrustState == Among(1 .. 3)
EvidenceLifecycle == Among(1 .. 3)
EvidenceState == Among(1 .. 8)
DecisionKind == Among(1 .. 4)
BootPolicy == Among({1, 2})
ClockMode == Among({1, 2})

Entries(of) == List(of, kMaxCollectionEntries, Free)
Numbers(n) == [i \in 1 .. n |-> Number]

-----------------------------------------------------------------------------
(* Identities *)

DeviceIdentity == Record(<<NameId, NameId, Among(0 .. kMaxDeviceUnitIndex), Optional(NameId)>>, Free)
DeviceIncarnationRef == Record(<<DeviceIdentity, Positive>>, Free)
SourceIncarnation == Record(<<NameId, Number>>, Free)
EvidenceKey == Record(<<DeviceIncarnationRef, Kind, NameId>>, Free)
EvidenceId == Digest
DecisionId == Digest
ConflictId == Digest

-----------------------------------------------------------------------------
(* Capability values *)

Qualifier == Text(kMaxSemVerQualifierLength, Free)
SemVer == Record([i \in 1 .. 3 |-> Among(0 .. MaxComponent)] \o <<Qualifier, Qualifier>>, "version")
Unit == Record(<<Number, Among(0 .. 2), Number>>, "unit")
LimitValue == Record(<<Among(DOMAIN kLimits), Unit, Number>>, "limit")
LimitRequirement == LimitValue
FeatureSet == List(Among(DOMAIN kFeatures), kMaxFeaturesPerRecord, "codes")
LimitSet == List(LimitValue, kMaxLimitsPerRecord, "limit codes")
RequiredLimits == List(LimitRequirement, kMaxLimitsPerRecord, "limit codes")

-----------------------------------------------------------------------------
(* The state of a registry *)

CapabilityEvidence ==
    Record(<<EvidenceKey, SourceIncarnation, SemVer, FeatureSet, LimitSet,
             Optional(SemVer), Number, Optional(SemVer), Number,
             Number, Optional(Number), Positive, AuthorityRank>> \o Numbers(3), "evidence")
StoredEvidence ==
    Record(<<CapabilityEvidence, EvidenceLifecycle, Reason, Number, Optional(Number), Reason>>, "stored")
RetirementRecord == Record(<<EvidenceKey, Positive, Number, Reason, Number, Number, AuthorityRank>>, Free)
ConflictGroup ==
    Record(<<ConflictId, DeviceIncarnationRef, Kind, AuthorityRank, Entries(EvidenceId),
             Entries(Number), Number, Number>>, "conflict")
ConflictResolution ==
    Record(<<Digest, ConflictId, EvidenceId, Entries(EvidenceId), NameId, Number, Number>>, Free)
EvictionEntry == Record(<<EvidenceId, EvidenceKey, Number, EvidenceState, Reason, Number>>, Free)

SourcePolicy == Record(<<NameId, SourceKind, AuthorityRank, SourceTrustState, Number, Boolean>>, Free)
RegistryLimits == Record(Numbers(15), Free)
RegistryPolicy ==
    Record(<<Entries(SourcePolicy), Boolean, Boolean, BootPolicy, ClockMode>> \o Numbers(3)
           \o <<RegistryLimits, Number, Text(MaxText, Free)>>, Free)
RegistryCounters == Record(Numbers(13), Free)
DeviceIncarnationEntry == Record(<<DeviceIdentity, Number, Entries(Number)>>, Free)

RegistryState ==
    Record(<<Among({kStoreFormatVersion}), RegistryPolicy>> \o Numbers(6)
           \o <<Positive, Entries(DeviceIncarnationEntry), Entries(StoredEvidence),
                Entries(RetirementRecord), Entries(ConflictGroup), Entries(ConflictResolution),
                Entries(EvictionEntry), RegistryCounters>>, "state")

-----------------------------------------------------------------------------
(* Requests *)

AdmissionRequest ==
    Record(<<DeviceIncarnationRef, Kind, SourceIncarnation, SemVer, FeatureSet, LimitSet,
             Optional(SemVer), Number, Optional(SemVer), Number,
             Number, Optional(Number), Positive>>, "admission")
RetirementRequest == Record(<<DeviceIncarnationRef, Kind, NameId, Positive, Number, Reason>>, Free)
CapabilityRequirement ==
    Record(<<DeviceIncarnationRef, Kind, SemVer, Optional(SemVer), FeatureSet, RequiredLimits,
             Optional(SemVer), Optional(Number), Optional(SemVer), Optional(Number), Number>>,
           "requirement")
NowRequest == Record(<<Number>>, Free)
QueryRequest == Record(<<DeviceIncarnationRef, Kind, Number, Boolean, Number>>, Free)
EvaluateRequest == Record(<<CapabilityRequirement, Number>>, Free)
ExplainRequest == Record(<<DecisionId>>, Free)
ExportRequest == Record([i \in 1 .. 5 |-> Boolean] \o Numbers(3), Free)
SourceRequest == Record(<<NameId, Number>>, Free)
AuthorityRequest == Record(<<NameId, AuthorityRank, Number>>, Free)
SourcePolicyRequest == Record(<<SourcePolicy, Number>>, Free)
IncarnationRequest == Record(<<DeviceIdentity, Number>>, Free)
ResolveConflictRequest == Record(<<ConflictId, EvidenceId, NameId, Number>>, Free)

-----------------------------------------------------------------------------
(* Responses *)

Reasons == List(Reason, MaxReasons, "reasons")
ResponseEnvelope == Record(<<Reason, Text(MaxText, Free), Text(kMaxFramePayload, Free)>>, Free)
BoolResponse == Record(<<Boolean, Reason>>, Free)
IdResponse == Record(<<Number, Reason>>, Free)
ExportResponse ==
    Record(<<Text(kMaxFramePayload, Free), Digest, Boolean, List(Reason, MaxNotes, Free)>>, Free)
EvictionLedgerResponse == Record(<<Boolean, Entries(EvictionEntry)>>, Free)
EvidenceStateFact ==
    Record(<<EvidenceId, EvidenceLifecycle, EvidenceState, Reason, Number, Number, AuthorityRank,
             Number, SourceIncarnation, SemVer, FeatureSet, LimitSet, Optional(SemVer),
             Optional(SemVer)>>, Free)
QueryResult ==
    Record(<<DecisionKind, DeviceIncarnationRef, Kind, Reasons, Entries(EvidenceStateFact),
             Optional(EvidenceId), Optional(ConflictId)>> \o Numbers(4), Free)
RegistryStats == Record(Numbers(32), Free)
AdmissionOutcome ==
    Record(<<EvidenceId, EvidenceState, Reason, Boolean, Entries(EvidenceId), Entries(EvidenceId),
             Optional(ConflictId), Number, Number>>, Free)
RetirementOutcome ==
    Record(<<EvidenceKey, Number, Reason, Boolean, Entries(EvidenceId), Entries(EvidenceId)>>, Free)
CompatibilityDecision ==
    Record(<<DecisionId, DecisionKind, DeviceIncarnationRef, Kind, CapabilityRequirement, Reasons,
             Entries(EvidenceId), Entries(EvidenceStateFact), Optional(EvidenceId),
             Optional(ConflictId), AuthorityRank>> \o Numbers(4), Free)
Explanation ==
    Record(<<CompatibilityDecision, Boolean, Reason, List(SourcePolicy, MaxReasons, Free),
             Optional(ConflictGroup), Optional(ConflictResolution)>>, Free)

=============================================================================
