SPECIFICATION Spec
CONSTANTS
    Rules <- MCRules
    Groups = 2
    MaxRules = 3
    MaxMatches = 5
INVARIANTS MatchedVarsOfRule ScoreIsSum MatchesRecorded
CHECK_DEADLOCK FALSE
