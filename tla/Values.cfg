SPECIFICATION Spec
CONSTANTS
    WordBits = 6
    IntMax = 31
    kUnitCodes <- SmallUnits
    DecimalBase = 6
    BinaryBase = 4
    kMaxUnitExponent = 2
    MaxComponent = 10
    MaxComponentDigits = 2
    kMaxSemVerQualifierLength = 3
    MaxVersionText = 9
    CapabilityKind = {1, 2}
    kFeatures <- SmallFeatures
    kLimits <- SmallLimits
    kMaxFeaturesPerRecord = 3
    kMaxLimitsPerRecord = 2
    TokenMax = 127
    kMaxNameLength = 3
    kMaxDeviceUnitIndex = 2
    kMaxCollectionEntries = 2
    MaxReasons = 2
    MaxNotes = 2
    MaxText = 3
    kMaxFramePayload = 3
    ReasonCodes = {0, 1, 2}
    kStoreFormatVersion = 1
    kExportFormatVersion = 2
    max_items = 2
    MaxPolicySources = 2
    MaxRequiredLimits = 2
    DefaultLimits <- FewLimits
INVARIANTS
    BuildsAgree
    UnitsExact
    VersionsSound
    SetsStayReadable
    VerdictsEarned
    EncodingCanonical
    DocumentsCarryValues
    ExportRoundTrips
