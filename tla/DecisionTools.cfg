SPECIFICATION FairSpec
CONSTANTS
    human = human
    auto = auto
    agent = agent
    Principals <- MCPrincipals
    Humans <- MCHumans
    AutoApprover = auto
    Keys = {k1}
    Workflows = {}
    Null = Null
    Calls = {c1, c2, c3}
    Offered = {"propose_decision", "approve_decision", "execute_decision_action", "execute_action", "record_outcome"}
    Risks = {"low", "high"}
    CanPropose <- MCCanPropose
    CanApprove <- MCCanApprove
    CanExecute <- MCCanExecute
    AutoRisks = {"low", "medium"}
    MaxFailures = 1
CHECK_DEADLOCK FALSE
INVARIANTS TypeOK VoteOnce ApproverRights VoteBeforeEffect StatusHasEvidence PendingVoteIsUnfinished OneOutcomePerKey StatsNeverOvercount HandlersBacked
PROPERTIES ReopenedOnlyByVote VoteLeadsToDecision
