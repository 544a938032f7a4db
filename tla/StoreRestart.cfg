SPECIFICATION Spec
CONSTANTS
    MaxBoot = 3
    MaxWrites = 4
    CommitBoots = {1, 2, 3}
    ImportBoots = {}
    Imports = {}
    BigStates = {FALSE}
    Failures = {}
    CompactAfterEntries = 4
    MaxJournalFrames = 4
    MaxJournalEntries = 4
INVARIANTS
    AcknowledgedIsRecoverable
CHECK_DEADLOCK FALSE
