SPECIFICATION Spec
CONSTANTS
    Palettes <- MCPalettes
    maxIncludeRecursion = 3
    MaxLines = 6
INVARIANTS NothingLost ChainAsWritten RelativeIncludes
PROPERTIES RemovalsExact DisruptiveResolved
CHECK_DEADLOCK FALSE
