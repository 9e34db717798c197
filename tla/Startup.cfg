\* Both servers, three descriptors, three ports that other processes use, too.
SPECIFICATION StartupSpec
CONSTANTS
    FD = {3, 4, 5}
    NoFd = NoFd
    UseSSL = TRUE
    Absent = Absent
    NoConn = NoConn
    VmArgs <- MCVmArgs
    PortNos <- MCPortNos
    Faults = {"ssl", "socket", "setsockopt"}
INVARIANTS ListensAsConfigured
PROPERTIES NoForeignClose StartupImplementsService
