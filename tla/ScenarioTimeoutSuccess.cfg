\* A message whose read times out, or is cut by the auto-offline close.
CONSTANTS
    None = None
    NumMessages <- MCNumMessages
    TimeoutSigns <- MCTimeoutSignsPositive
SPECIFICATION Spec
INVARIANT NoResponseNeverSuccess
