SPECIFICATION Spec
CONSTANTS
    Subagents = {booking}
    Answers = {yes}
    Texts = {wait}
    Null = Null
    MaxTurns = 2
    CallsPerTurn = 1
    MaxCrashes = 1
    MaxFaults = 0
INVARIANTS
    OutcomeOnce
CHECK_DEADLOCK FALSE
