CONSTANTS
    p1 = p1
    p2 = p2
    h1 = h1
    h2 = h2
    s1 = s1
    s2 = s2
    t1 = t1
    t2 = t2
    NoAgent = NoAgent
    NoTask = NoTask
    NoSession = NoSession
    Agent = {s1}
    Task = {t1, t2}
    PlanTask = {t1}
    Proc = {p1, p2}
    Host = {h1, h2}
    HubHost = h1
    HostOf <- OneHost
    Verbs = {"join", "force", "auto", "commit", "close", "closeempty", "fail", "reap", "tasksclose", "cleanup"}
    MaxRetries = 2
    MaxVerbs = 3
    MaxCrashes = 1
    MaxFaults = 1
SPECIFICATION Spec
SYMMETRY ProcSymmetry
INVARIANTS
    TypeOK
    ClaimFenced
    ClaimsReturned
PROPERTIES
    SessionsNeverReplaced
CHECK_DEADLOCK FALSE
