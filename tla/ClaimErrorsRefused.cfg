\* Requests without the arguments they need.
CONSTANTS
    Requests <- Bare
    Numeral <- MCNumeral
    MaxValue <- MCMaxValue
    MaxHeaders = 2
    MaxRequests = 2
    BufferSize = 28
    Blank = blank
SPECIFICATION Spec
INVARIANTS ErrorsRefused
CHECK_DEADLOCK FALSE
