\* A response left on the socket by a message whose read did not finish (a timeout, or a negative timeout that makes settimeout raise), read by the next message.
CONSTANTS
    None = None
    NumMessages <- MCNumMessages
    TimeoutSigns <- MCTimeoutSigns
SPECIFICATION Spec
INVARIANT ResponsesMatchRequests
