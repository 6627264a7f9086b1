SPECIFICATION AllSpec
CONSTANTS
    r1 = r1
    w1 = w1
    w2 = w2
    None = None
    Readers <- OneReader
    Writers <- TwoWriters
    Killable <- Procs
    Bytes = {0, 1}
    PIPESIZE = 2
    UINT = 4
    MaxN = 2
SYMMETRY Perms
INVARIANTS
    NoUseAfterFree
    NoLostWakeup
    MemoryExact
    TrapsReturnHome
    LockDiscipline
    FunctionsExact
    ParsesRight
    HeapExact
PROPERTIES
    PipeIsFifo
    OutOfMemorySafe
    SleepsLongEnough
