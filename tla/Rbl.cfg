SPECIFICATION RblFairSpec
CONSTANT MaxCalls = 3
INVARIANT MatchIsOwnAnswer
PROPERTY EvaluateReturns
CHECK_DEADLOCK FALSE
