SPECIFICATION Spec
CONSTANTS
    r1 = r1
    r2 = r2
    w1 = w1
    w2 = w2
    None = None
    Readers <- TwoReaders
    Writers <- TwoWriters
    Killable <- Everyone
    Bytes = {0}
    PIPESIZE = 2
    UINT = 4
    MaxN = 3
SYMMETRY Perms
INVARIANT
    ReaderSleepsOnEmpty
CHECK_DEADLOCK FALSE
