SPECIFICATION AllSpec
CONSTANTS
    c1 = c1
    INPUT_BUF_SIZE = 2
    UART_TX_BUF_SIZE = 2
    UINT = 4
    FIFO = 2
    RFIFO = 1
    Keys = {"x", "nl", "^D", "^H", "^U", "^P"}
    MaxTyped = 2
    MaxWritten = 3
    Reads = {2}
INVARIANTS
    InputEdited
    OutputFifo
PROPERTIES
    OutputDrains
    EveryoneRuns
    OrphansReaped
