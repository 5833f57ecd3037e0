SPECIFICATION FairSpec
CONSTANTS
    Overseer = overseer
    Monitor = monitor
    NoPid = nopid
    Workers = {w1}
    Auxiliaries = {}
    Strays = {}
    AppStatuses = {"B"}
    MaxConnections = 1
    MaxAcceptFailures = 1
    MaxSIGTERM = 2
    MaxSIGINT = 1
    MaxSIGQUIT = 0
    Terminal = FALSE
    MaxFailures = 0
    PipeCapacity = 1
INVARIANTS GracefulSmartShutdown NoLostWakeup ShutdownSignalsOnlyUnreaped RequestsAccounted
PROPERTIES StopNowCompletes
CHECK_DEADLOCK FALSE
