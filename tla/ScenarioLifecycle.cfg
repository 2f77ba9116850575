\* run() with and without TLS and auto-offline, the Timer racing every step.
CONSTANTS
    None = None
    NumMessages <- MCNumMessages
    TimeoutSigns <- MCTimeoutSigns
SPECIFICATION Spec
INVARIANTS
    TypeOK
    ReleasedOnReturn
    RunOutcome
    ExitZeroOnlyIfAllSucceeded
PROPERTIES
    ProcessExits
