SPECIFICATION Spec
CONSTANTS
    Plan = {A, B}
    Slots = 2
    Verb = {v1, v2}
    Worker = {w1, w2}
    None = None
    MaxTasks = 4
    MaxOps = 5
    MaxFaults = 2
SYMMETRY Symmetry
VIEW Relevant
INVARIANTS
    
    ReportedClosed
PROPERTIES
    GuardKeepsOther
    CancelClosesAll
CHECK_DEADLOCK FALSE
