CONSTANTS
    p1 = p1
    p2 = p2
    a1 = a1
    a2 = a2
    t1 = t1
    t2 = t2
    NoAgent = NoAgent
    NoTask = NoTask
    Agent = {a1, a2}
    Task = {t1}
    Proc = {p1, p2}
    AgentOf <- TwoAgents
    MaxRetries = 2
    MaxEvents = 5
    MaxRestarts = 1
    Calls = {"create", "claim", "reclaim", "handoff", "unclaim", "close"}
    UpdateFlags = {{"claimed_by"}, {"status"}}
SPECIFICATION Spec
INVARIANTS TypeOK ProjectionMatchesStamp ClaimEpochsUnique CASFresh
PROPERTIES ClosedIsFinal EpochNeverDecreases SupersededNeverCloses
CHECK_DEADLOCK FALSE
