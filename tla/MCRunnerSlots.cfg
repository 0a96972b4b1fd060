CONSTANTS
    Invocations = {"i1", "i2"}
    Accounts = {"a"}
    AccountOf <- MCAccountOf
    Controllers = {"c1"}
    Limits = {1, 2}
    MaxAttempts = 2
    MaxFaults = 1
SPECIFICATION FairSpec
INVARIANTS SlotsCounted
PROPERTIES InvocationDecided
CHECK_DEADLOCK FALSE
