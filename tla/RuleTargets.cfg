SPECIFICATION TargetsSpec
CONSTANTS
    Txs = {t1, t2}
    Keys = {a, b, c, d, e}
    k1 = a
    k2 = b
    k3 = c
    k4 = d
    k5 = e
    Negations <- MCNegations
    Fields <- MCFields
    MaxRemovals = 2
    MaxEvaluations = 1
CHECK_DEADLOCK FALSE
PROPERTIES
    ExceptionsApplied
    RuleKeepsExceptions
