\* The reader against every server behaviour, ASCII bodies, handled framings.
CONSTANTS
    LengthHeaders <- MCHeadersHandled
    Widths <- MCWidthsAscii
    MaxBody = 2
    Timeout = 2
    ChunkSize = 4096
    ServerMayAbort = TRUE
    Pending = Pending
    NoResponse = NoResponse
SPECIFICATION Spec
INVARIANTS
    TypeOK
    FramedExactly
    NoTimeoutOnceArrived
PROPERTIES
    ImplementsReadContract
