CONSTANTS
    o1 = o1
    w1 = w1
    w2 = w2
    u1 = u1
    u2 = u2
    Operations = {o1}
    Workers = {w1, w2}
    Users = {u1, u2}
    MaxReconciled = 3
    MaxDefiniteAttempts = 3
    AttemptLimit = 4
SPECIFICATION FairSpec
CHECK_DEADLOCK FALSE
INVARIANTS
    TypeOK
    OutcomesTruthful
    LedgerConsistent
PROPERTIES
    SafeExecute
    ApprovedActionDecided
