SPECIFICATION Spec
CONSTANTS
    ShmemSize = 130
    StatusArrayOff = 128
    SemSize = 32
    NWorkers = 2
    WorkerNos = {0, 1}
    Runner = runner
    Others = {aux}
    Names = {n1, n2}
    InitValues = {0, 1}
    MaxOffset = 160
    MaxLeaks = 1
    Variables = {v1, v2}
    Codes = {c1}
    MaxRequests = 2
    MaxCalls = 2
INVARIANTS TypeOK NoAliasing ObjectsInTheirArea NothingLostToRefusals CalledIsAlive ScopesBalanced
SYMMETRY NameSymmetry
CHECK_DEADLOCK FALSE
