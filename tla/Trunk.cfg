SPECIFICATION Spec
CONSTANTS
    Slot = {s1, s2}
    Path = {p1, p2}
    Seeded = {}
    Trunk = Trunk
    Free = Free
    Autosyncs = {TRUE, FALSE}
    MaxCommits = 4
    MaxEdits = 2
    MaxFaults = 1
SYMMETRY Symmetry
INVARIANTS
    ForksExplained
    FanInCollapses
PROPERTY
    FanInKeepsWork
CHECK_DEADLOCK FALSE
