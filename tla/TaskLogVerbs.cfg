CONSTANTS
    p1 = p1
    p2 = p2
    a1 = a1
    a2 = a2
    t1 = t1
    t2 = t2
    NoAgent = NoAgent
    NoTask = NoTask
    Agent = {a1, a2}
    Task = {t1}
    Proc = {p1, p2}
    AgentOf <- TwoAgents
    MaxRetries = 2
    MaxEvents = 3
    MaxRestarts = 1
    Calls = {"create", "claim", "cliclaim", "legacyclose", "link", "update"}
    UpdateFlags = {{"claimed_by"}, {"status"}}
SPECIFICATION FairSpec
PROPERTIES RecoverCatchesUp HubComesUp
CHECK_DEADLOCK FALSE
