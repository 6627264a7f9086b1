SPECIFICATION AllSpec
CONSTANTS
    p1 = p1
    p2 = p2
    b1 = b1
    b2 = b2
    b3 = b3
    v0 = v0
    v1 = v1
    q1 = q1
    q2 = q2
    None = None
    Procs = {p1, p2}
    Blocks = {b1, b2, b3}
    Vals = {v0, v1}
    InitDisk <- MCImage
    NBUF = 2
    MaxPinned = 1
SYMMETRY Perms
INVARIANTS
    SleeperHasHolder
    BuffersExact
    NamesCounted
    InodeTableExact
    NoDeadlock
    PanicsOnlyAtDotdot
PROPERTIES
    BufferIsBlock
CHECK_DEADLOCK FALSE
