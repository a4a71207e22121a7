SPECIFICATION Spec
CONSTANTS
    Bytes = {a, b}
    Readers = {r1, r2}
    NoFile = NoFile
    Builds <- MCBuilds
    MaxChunk = 2
    MaxBody = 4
INVARIANTS MemoryBounded StoredIsCounted
PROPERTIES ImplementsStream
