SPECIFICATION ApplySpec
CONSTANTS
    File = {p1, p2}
    Version = {v1}
    Own = {o1}
    None = None
    Quoted = {}
    MaxOwnEdits = 2
    MaxApplies = 2
    MaxKills = 1
PROPERTIES
    AppliedIsTrunk
    ApplyKeepsTracked
    DeletesOnlyTrunkFiles
SYMMETRY Symmetry
CHECK_DEADLOCK FALSE
