\* A body with two-byte UTF-8 characters.
CONSTANTS
    HeaderNames <- MCNamesExactCase
    Widths <- MCWidthsUtf8
    MaxBody = 2
    ErrorCodes <- MCErrorCodes
    TimeoutsMs <- MCTimeoutsMs
    Supplied = Supplied
    Target = Target
    None = None
SPECIFICATION Spec
INVARIANTS
    LengthHeaderIsByteLength
