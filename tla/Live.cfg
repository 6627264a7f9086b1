SPECIFICATION AllSpec
CONSTANTS
    None = None
    NoBuf = NoBuf
    Procs <- ThreeProcs
    Blocks = {1, 2, 3}
    Vals = {0}
    InitImage <- Image
    Zero = 0
    MAXOPBLOCKS = 2
    LOGSIZE = 4
    nlog = 4
    OpBlocks = 1
INVARIANTS
    RunsAsWritten
PROPERTIES
    SleepersWoken
    DiskAnswers
    PromptReturns
