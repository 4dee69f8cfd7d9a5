CONSTANTS
    husky = husky
    lefthook = lefthook
    UserHooks <- TwoHooks
    NFiles = 2
    MaxVerbs = 3
    MaxEdits = 1
    MaxFaults = 1
SPECIFICATION Spec
SYMMETRY HookSymmetry
INVARIANTS
    UpConverges
    DownRemovesAll
PROPERTIES
    UserContentKept
    UpIdempotent
CHECK_DEADLOCK FALSE
