SPECIFICATION FairSpec
CONSTANTS
    Overseer = overseer
    Monitor = monitor
    NoPid = nopid
    Workers = {w1}
    Auxiliaries = {a1}
    Strays = {}
    AppStatuses = {}
    MaxConnections = 0
    MaxAcceptFailures = 0
    MaxSIGTERM = 0
    MaxSIGINT = 1
    MaxSIGQUIT = 0
    Terminal = FALSE
    MaxFailures = 0
    PipeCapacity = 1
PROPERTIES AuxiliariesLiveWithBackends
CHECK_DEADLOCK FALSE
