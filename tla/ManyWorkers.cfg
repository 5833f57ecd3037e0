SPECIFICATION MemorySpec
CONSTANTS
    ShmemSize = 4096
    StatusArrayOff = 2048
    SemSize = 32
    NWorkers = 65536
    WorkerNos = {0, 2047, 2048, 65535}
    Runner = runner
    Others = {aux}
    Names = {n1}
    InitValues = {1}
    MaxOffset = 160
    MaxLeaks = 0
INVARIANT InSegment
CHECK_DEADLOCK FALSE
