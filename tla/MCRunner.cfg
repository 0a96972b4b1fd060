CONSTANTS
    Invocations = {"i1"}
    Accounts = {"a"}
    AccountOf <- MCAccountOf
    Controllers = {"c1", "c2"}
    Limits = {1, 2}
    MaxAttempts = 2
    MaxFaults = 2
SPECIFICATION FairSpec
INVARIANTS TypeOK SlotsCounted
PROPERTIES ImplementsLifecycle InvocationDecided
CHECK_DEADLOCK FALSE
