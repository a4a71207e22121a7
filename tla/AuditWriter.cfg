CONSTANTS
    Transactions <- Three
    IDs <- MCIDs
    Paths = {"audit.log", "other.log"}
    Dirs = {"logs"}
    Formats = {"json"}
    Modes = {"0600"}
    MaxDirectives = 5
SPECIFICATION Spec
INVARIANT IndexedRecordWhole RecordsAsConfigured
CHECK_DEADLOCK FALSE
