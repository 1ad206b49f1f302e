SPECIFICATION Spec
CONSTANTS
    BUFFER_SIZE = 3
    TRANSFER_COUNT = 3
    PIPE_BUF_SIZE = 3
    CpuCounts = {1, 2, 10, 11}
INVARIANTS
    TypeOK
    NoMutualWait
    PagesInPipe
    NoStrayEnd
    NoFalseReport
PROPERTIES
    Completes
