\* HTTP only: the loop's liveness.  Of the calls that may fail by themselves only
\* setsockopt does, after which the loop goes on with a closed number.
SPECIFICATION FairSpec
CONSTANTS
    FD = {f1, f2, f3}
    NoFd = NoFd
    ListenFds <- OneListener
    Requests = {"keep"}
    HangUp = {"IN", "ERR", "HUP"}
    Faults = {"sockopt"}
    MaxBacklog = 1
    MaxForeign = 0
    MaxConnections = 1
INVARIANTS TypeOK VectorsAligned
PROPERTIES ShutdownCompletes BacklogServed RequestsConsumed FinishedCloses
