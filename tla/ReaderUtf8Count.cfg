\* Two-byte body characters counted against a byte-valued Content-Length.
CONSTANTS
    LengthHeaders <- MCHeadersHandled
    Widths <- MCWidthsUtf8
    MaxBody = 2
    Timeout = 2
    ChunkSize = 4096
    ServerMayAbort = FALSE
    Pending = Pending
    NoResponse = NoResponse
SPECIFICATION Spec
INVARIANT NoTimeoutOnceArrived
