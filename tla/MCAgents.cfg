CONSTANTS
    MaxTurn = 2
    Dispatchers = {"d1", "d2"}
    Projectors = {"p1"}
    MaxAttempts = 2
    MaxFaults = 2
    MaxRequeues = 1
SPECIFICATION FairSpec
INVARIANTS TypeOK TurnsInOrder RunMatchesTurns TokensMatchResults
PROPERTIES TurnDecided
CHECK_DEADLOCK FALSE
