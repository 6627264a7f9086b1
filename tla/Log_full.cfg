SPECIFICATION Spec
CONSTANTS
    p1 = p1
    p2 = p2
    p3 = p3
    b1 = b1
    b2 = b2
    b3 = b3
    b4 = b4
    b5 = b5
    b6 = b6
    v0 = v0
    v1 = v1
    NoBuf = NoBuf
    Zero = v0
    InitImage <- MCImage
    Procs = {p1, p2, p3}
    Blocks = {b1, b2, b3, b4, b5, b6}
    Vals = {v0}
    MAXOPBLOCKS = 2
    LOGSIZE = 6
    nlog = 6
    OpBlocks = 2
SYMMETRY Perms
INVARIANT
    ReservationSuffices
