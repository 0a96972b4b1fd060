CONSTANTS
    k1 = k1
    k2 = k2
    d1 = d1
    c1 = c1
    c2 = c2
    w1 = w1
    w2 = w2
    Keys = {k1, k2}
    Drafts = {d1}
    Callers = {c1}
    Workers = {w1, w2}
    Maximum = 1
    MaxAttempts = 1
    MaxVersion = 4
    DuplicateCalls = FALSE
SPECIFICATION FairSpec
PROPERTIES
    ReleaseJobsFenced
    TerminalCapacityReturned
