SPECIFICATION FairSpec
CONSTANTS
    AutoApprover = auto
    Principals = {auto}
    Keys = {}
    Workflows = {w1, w2}
    Null = Null
    Risks = {"low", "high"}
    MaxCrashes = 2
    MaxErrors = 1
CHECK_DEADLOCK FALSE
INVARIANTS OneRowPerTable CheckpointsNameOwnRows SuccessMeansDone
PROPERTIES ExecutionIsFinal EveryWorkflowEnds ImplementsLedger
