SPECIFICATION FairSpec
CONSTANTS
    Overseer = overseer
    Monitor = monitor
    NoPid = nopid
    Workers = {w1}
    Auxiliaries = {}
    Strays = {s1}
    AppStatuses = {}
    MaxConnections = 0
    MaxAcceptFailures = 0
    MaxSIGTERM = 1
    MaxSIGINT = 0
    MaxSIGQUIT = 1
    Terminal = FALSE
    MaxFailures = 1
    PipeCapacity = 1
INVARIANTS TypeOK SingleFatalReason
PROPERTIES ImplementsSupervision SupervisionProgress OrphansDie
CHECK_DEADLOCK FALSE
