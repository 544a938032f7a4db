SPECIFICATION Spec
CONSTANTS
    MaxBoot = 4
    MaxWrites = 5
    CommitBoots = {1}
    ImportBoots = {3}
    Imports = {6}
    BigStates = {TRUE, FALSE}
    Failures = {}
    CompactAfterEntries = 2
    MaxJournalFrames = 4
    MaxJournalEntries = 4
INVARIANTS
    AcknowledgedIsRecoverable
    StoreStaysOpenable
PROPERTIES
    RefinesRegister
CHECK_DEADLOCK FALSE
