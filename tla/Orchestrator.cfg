SPECIFICATION FairSpec
CONSTANTS
    Subagents = {booking}
    Answers = {yes, no}
    Texts = {wait, rebook}
    Null = Null
    MaxTurns = 2
    CallsPerTurn = 2
    MaxCrashes = 1
    MaxFaults = 1
INVARIANTS
    ReturnedDecisionIsRecorded
    AnswersAreFindings
    FindingsOnce
    OutcomesBounded
PROPERTIES
    EndedRunIsSilent
    EveryRunEnds
CHECK_DEADLOCK FALSE
