\* The second close of a descriptor after a failed receive.
SPECIFICATION Spec
CONSTANTS
    FD = {f1, f2}
    NoFd = NoFd
    ListenFds <- OneListener
    Requests = {"part", "close", "keep"}
    HangUp = {"IN", "ERR", "HUP"}
    Faults = {}
    MaxBacklog = 1
    MaxForeign = 1
    MaxConnections = 1
PROPERTIES ClearClosesOwnSocket
