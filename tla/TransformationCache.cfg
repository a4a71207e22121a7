SPECIFICATION CacheSpec
CONSTANTS
    Rules = {r1, r2}
    Names = {lowercase, trim}
    Failing = {trim}
    Requests <- MCRequests
    Origins = {a, b}
    o1 = a
    o2 = b
    k1 = id
    k2 = x
    MaxTransformations = 2
    MaxLists = 4
SYMMETRY Symmetry
INVARIANTS
    CacheTransparent
