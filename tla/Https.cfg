\* HTTP and HTTPS, and every system call may fail.
SPECIFICATION Spec
CONSTANTS
    FD = {f1, f2, f3}
    NoFd = NoFd
    ListenFds <- TwoListeners
    Requests = {"big"}
    HangUp = {"IN", "ERR", "HUP"}
    Faults = {"accept", "sockopt", "recv", "send", "poll", "listener", "bind"}
    MaxBacklog = 1
    MaxForeign = 1
    MaxConnections = 1
SYMMETRY Symmetry
INVARIANTS IInv HeldOnce NewcomersSurvive DrainedOnExit
PROPERTIES StrayCloseOnlyAfterFailure StepsRunOut ImplementsService
