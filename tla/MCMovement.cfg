SPECIFICATION FairSpec
CONSTANTS
    w1 = w1
    w2 = w2
    Cells = {"a", "b"}
    Jobs = {"j"}
    Writes = {w1, w2}
    QueuedWrites = {w1, w2}
    AgentWrites = {w2}
    SoftLimit <- MCSoftLimit
    Others <- MCOthers
    OneJobAtATime = TRUE
    MaxMoves = 2
    MaxFaults = 1
    MaxChanges = 1
INVARIANTS
    TypeOK
    OneWritableCell
    FrozenIsDrained
PROPERTIES
    ImplementsPlacement
    PlacementConverges
    AdvanceConverges
CHECK_DEADLOCK FALSE
