SPECIFICATION Spec
CONSTANTS
    human = human
    auto = auto
    agent = agent
    Principals <- MCPrincipals
    Humans <- MCHumans
    AutoApprover = auto
    Keys = {k1}
    Workflows = {}
    Null = Null
    Calls = {c1, c2, c3, c4}
    Offered = {"propose_decision", "approve_decision", "execute_decision_action", "record_outcome"}
    Risks = {"high"}
    CanPropose <- MCCanPropose
    CanApprove <- MCCanApprove
    CanExecute <- MCCanExecute
    AutoRisks = {"low", "medium"}
    MaxFailures = 1
SYMMETRY Interchangeable
CHECK_DEADLOCK FALSE
INVARIANT HighRiskNeedsHuman
