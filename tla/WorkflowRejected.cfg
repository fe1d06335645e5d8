SPECIFICATION Spec
CONSTANTS
    human = human
    auto = auto
    agent = agent
    Principals <- MCPrincipals
    Humans <- MCHumans
    AutoApprover = auto
    Keys = {k1}
    Workflows = {w1}
    Null = Null
    Calls = {c1, c2}
    Offered = {"approve_decision", "execute_decision_action", "record_outcome"}
    Risks = {"low", "high"}
    CanPropose <- MCCanPropose
    CanApprove <- MCCanApprove
    CanExecute <- MCCanExecute
    AutoRisks = {"low", "medium"}
    MaxFailures = 0
    MaxCrashes = 1
    MaxErrors = 1
CHECK_DEADLOCK FALSE
PROPERTY WorkflowExecutesOnlyApproved
