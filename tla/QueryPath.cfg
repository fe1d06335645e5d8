SPECIFICATION FairSpec
CONSTANTS
    ops = ops
    desk = desk
    orch = orch
    c1 = c1
    c2 = c2
    Null = Null
    Calls = {c1, c2}
    Queries <- MCQueries
    Offered <- MCOffered
    Scenarios <- MCScenarios
    WriteWords = {"created_at"}
    DefaultLimit = 4
    MaxLimit = 5
    MaxFaults = 1
    PageSize = 3
INVARIANTS
    GateBeforeDatabase
    PlannedPassesGate
    PiiPassesOnlyRenamed
    LogIsFaithful
    DriftHasCause
PROPERTY EveryCallAnswered
CHECK_DEADLOCK FALSE
