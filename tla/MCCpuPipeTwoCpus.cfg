SPECIFICATION Spec
CONSTANTS
    BUFFER_SIZE = 2
    TRANSFER_COUNT = 2
    PIPE_BUF_SIZE = 2
    CpuCounts = {2}
PROPERTIES
    EndsWithTwoCpus
