SPECIFICATION FairSpec
CONSTANTS
    Overseer = overseer
    Monitor = monitor
    NoPid = nopid
    Workers = {w1}
    Auxiliaries = {a1}
    Strays = {}
    AppStatuses = {}
    MaxConnections = 0
    MaxAcceptFailures = 0
    MaxSIGTERM = 0
    MaxSIGINT = 1
    MaxSIGQUIT = 0
    Terminal = TRUE
    MaxFailures = 1
    PipeCapacity = 1
INVARIANTS ExitZeroMeansAllStopped CleanShutdownNeverPanics
PROPERTIES ImplementsSupervision InterruptStopsAll
CHECK_DEADLOCK FALSE
