SPECIFICATION Spec
CONSTANTS
    p1 = p1
    p2 = p2
    p3 = p3
    p4 = p4
    p5 = p5
    Pid = {p1, p2, p3, p4, p5}
    NoPid = NoPid
    Verbs = {"join", "foreground", "stop", "down", "up", "list", "reap", "reappid"}
    MaxFaults = 2
CONSTRAINT Unmeddled
VIEW Relevant
SYMMETRY PidSymmetry
INVARIANTS
    OneHub
    HubDiscoverable
    AloneSucceeds
CHECK_DEADLOCK FALSE
