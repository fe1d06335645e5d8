SPECIFICATION FairSpec
CONSTANTS
    r1 = r1
    r2 = r2
    Null = Null
    Requests = {r1, r2}
    Calls = {c1, c2}
    Agents <- MCAgents
    Credential <- MCCredentials
    Deployments <- MCDeployments
    TTL = 2
    MaxTime = 4
    MaxRestarts = 1
INVARIANTS
    RowsCarryOwnIdentity
    ContextsAreKept
PROPERTY EveryContextEnds
CHECK_DEADLOCK FALSE
