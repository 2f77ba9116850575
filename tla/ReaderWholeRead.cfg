\* A server that keeps the connection open and sends its response slowly.
CONSTANTS
    LengthHeaders <- MCHeadersHandled
    Widths <- MCWidthsAscii
    MaxBody = 2
    Timeout = 2
    ChunkSize = 4096
    ServerMayAbort = FALSE
    Pending = Pending
    NoResponse = NoResponse
SPECIFICATION Spec
INVARIANT WholeReadBounded
