\* stop() against a handler that has just returned by itself.
SPECIFICATION FairSpec
CONSTANTS
    Starter = starter
    Server = server
    Stopper = stopper
    Joiners = {j1, j2}
    Nobody = nobody
    SpuriousWakeups = {}
    HandlerGivesUp = TRUE
    HandlerExits = FALSE
CHECK_DEADLOCK FALSE
PROPERTIES StopReturns
