\* start, stop and join around a service that ends on demand, by itself when
\* one connection exceeds the limit, or with the process.
SPECIFICATION FairSystem
CONSTANTS
    Starter = starter
    Server = server
    Stopper = stopper
    Joiners = {j1, j2}
    Nobody = nobody
    SpuriousWakeups = {starter}
    HandlerGivesUp = TRUE
    HandlerExits = TRUE
    Conn = {c1, c2}
    NoConn = none
    Ports = {http, https}
    Limit = 1
CHECK_DEADLOCK FALSE
INVARIANTS MonitorOutlivesUsers StoppedMeansEnded StartedMeansAttempted
INVARIANTS JoinedMeansGone AttachErrorExplained LInv
INVARIANTS ReturnedMeansSilent OpenMeansStoppable
PROPERTIES StartCompletes WaitingStopReturns JoinCompletes StopSilences
