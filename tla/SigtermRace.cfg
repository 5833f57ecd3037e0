SPECIFICATION FairAppSpec
CONSTANTS
    Overseer = overseer
    Monitor = monitor
    NoPid = nopid
    Workers = {w1}
    Auxiliaries = {}
    Strays = {}
    AppStatuses = {}
    MaxConnections = 1
    MaxAcceptFailures = 0
    MaxSIGTERM = 1
    MaxSIGINT = 0
    MaxSIGQUIT = 0
    Terminal = FALSE
    MaxFailures = 0
    PipeCapacity = 1
PROPERTIES SigtermEndsWorker
CHECK_DEADLOCK FALSE
