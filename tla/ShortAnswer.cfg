\* README.md 27 against an answer that the peer's window cuts short.
SPECIFICATION ExchangeSpec
CONSTANTS
    Letters = 3
    Room = 3
    BodySize = 2
    NoRequest = NoRequest
    Requests <- MCRequests
    Fallible <- MCFallible
PROPERTIES AnswersSentWhole
