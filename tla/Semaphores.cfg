SPECIFICATION Spec
CONSTANTS
    Procs = {p1, p2, p3}
    InitValue = 1
    SEM_VALUE_MAX = 2
    MaxPosts = 1
    MaxCrashes = 1
INVARIANTS PermitsConserved
PROPERTIES NoWaitForTheDead WaitersQuit
CHECK_DEADLOCK FALSE
