SPECIFICATION Spec
CONSTANTS
    p1 = p1
    p2 = p2
    None = None
    Procs = {p1, p2}
    NINODES = 4
    NINODE = 3
    Worlds <- OnlyDirs
    MaxEnts = 4
    MaxCalls = 4
    MaxCrashes = 0
SYMMETRY Perms
INVARIANT
    NeverNoType
CHECK_DEADLOCK FALSE
