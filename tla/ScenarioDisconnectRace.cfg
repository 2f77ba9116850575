\* The auto-offline timer firing while the main thread disconnects.
CONSTANTS
    None = None
    NumMessages <- MCNumMessages
    TimeoutSigns <- MCTimeoutSignsPositive
SPECIFICATION Spec
INVARIANT DisconnectNeverRaises
