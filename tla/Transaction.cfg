SPECIFICATION Spec
CONSTANTS
    M = M
    NoMark = NoMark
    Keep = Keep
    None = None
    Marks <- MCMarks
    WAFs <- MCWAFs
    Chunks = {0, 1, 2}
    MaxLoggings = 1
INVARIANTS InterruptionNeedsEngine ProcessCallsReport AuditFollowsMatches
           OversizedBodyHandled
PROPERTIES WholeChainMatched SkipAfterReachesMark ImplementsContract
