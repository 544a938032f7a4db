SPECIFICATION Spec
CONSTANTS
    MaxBoot = 3
    MaxWrites = 5
    ImportBoots = {}
    Imports = {}
    CommitBoots = {1, 2, 3}
    BigStates = {FALSE}
    Failures = {"write", "sync", "temp", "rename", "truncate"}
    CompactAfterEntries = 3
    MaxJournalFrames = 4
    MaxJournalEntries = 4
PROPERTIES
    OpenIsRepeatable
CHECK_DEADLOCK FALSE
