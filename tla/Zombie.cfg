\* A reset connection as Linux reports it.
SPECIFICATION FairSpec
CONSTANTS
    FD = {f1, f2}
    NoFd = NoFd
    ListenFds <- OneListener
    Requests = {"keep"}
    HangUp = {"IN", "ERR", "HUP"}
    Faults = {}
    MaxBacklog = 1
    MaxForeign = 0
    MaxConnections = 1
PROPERTIES ResetsCleared
