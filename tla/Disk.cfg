SPECIFICATION AllSpec
CONSTANTS
    p1 = p1
    p2 = p2
    u1 = u1
    u2 = u2
    None = None
    Procs <- TwoProcs
    NUM = 6
    IDX = 12
    Types = {"IN"}
    Statuses = {0, 1}
    Users <- TwoUsers
    NFILE = 3
    NOFILE = 2
    NPIPE = 2
    MaxOpens = 2
SYMMETRY Perms
INVARIANTS
    DescriptorsOwned
    RefsExact
    ClosedOnce
PROPERTIES
    RequestServed
CHECK_DEADLOCK FALSE
