SPECIFICATION Spec
CONSTANTS
    nworkers = 2
    Clients = {c1, c2}
    Backlog = 2
    MaxRequests = 1
    MaxSets = 2
    MaxInterrupts = 1
INVARIANTS ReplyIsFresh ReplyIsConsistent
PROPERTIES EveryClientAnswered
CHECK_DEADLOCK FALSE
