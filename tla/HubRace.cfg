SPECIFICATION Spec
CONSTANTS
    p1 = p1
    p2 = p2
    p3 = p3
    p4 = p4
    p5 = p5
    Pid = {p1, p2, p3}
    NoPid = NoPid
    Verbs = {"join", "foreground"}
    MaxFaults = 0
SYMMETRY PidSymmetry
INVARIANT HubKeepsRepo
CHECK_DEADLOCK FALSE
