CONSTANTS
    p1 = p1
    p2 = p2
    p3 = p3
    a1 = a1
    a2 = a2
    NoAgent = NoAgent
    Agent = {a1, a2}
    Proc = {p1, p2, p3}
    AgentOf <- SharedSlot
    File = {f1}
    TTL = 1
    HoldTTLMax = 2
    MaxRetries = 2
    MaxTime = 3
    MaxRev = 3
SPECIFICATION Spec
INVARIANTS
    TypeOK
    LeaseIsKept
PROPERTIES
    LeaseSpec
    RenewNeverShortens
CHECK_DEADLOCK FALSE
