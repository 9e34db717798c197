\* The end of the handler without stop().
SPECIFICATION Spec
CONSTANTS
    FD = {f1, f2, f3}
    NoFd = NoFd
    ListenFds <- OneListener
    Requests = {"part", "close", "keep"}
    HangUp = {"IN", "ERR", "HUP"}
    Faults = {}
    MaxBacklog = 1
    MaxForeign = 1
    MaxConnections = 1
SYMMETRY Symmetry
INVARIANTS ReturnsOnlyWhenStopped
