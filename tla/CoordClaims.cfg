CONSTANTS
    p1 = p1
    p2 = p2
    p3 = p3
    a1 = a1
    a2 = a2
    a3 = a3
    t1 = t1
    t2 = t2
    f1 = f1
    f2 = f2
    NoAgent = NoAgent
    NoTask = NoTask
    Agent = {a1, a2}
    Proc = {p1, p2}
    AgentOf <- TwoAgents
    ProjectOf <- OneProject
    Task = {t1, t2}
    File = {f1, f2}
    FilesOf <- CrossedFiles
    Calls = {"claim", "reclaim", "handoff", "commit", "close"}
    MaxEpoch = 2
    MaxMishaps = 1
    MaxExits = 1
SPECIFICATION Spec
INVARIANTS
    HoldsAccounted
    
    CommitsExclusive
    NobodyWaits
SYMMETRY SwapPairs
CHECK_DEADLOCK FALSE
