\* One connection, a buffer of three units, answers of up to three units.
SPECIFICATION FairExchange
CONSTANTS
    Letters = 3
    Room = 3
    BodySize = 2
    NoRequest = NoRequest
    Requests <- MCRequests
    Fallible <- MCFallible
INVARIANTS BufferInBounds KeptAsAsked Fresh
PROPERTIES WholeRequestsAnswered TurnsRunOut RequestsSettled
