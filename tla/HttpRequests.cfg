\* One connection, two requests on it.
CONSTANTS
    Requests <- MCRequests
    Numeral <- MCNumeral
    MaxValue <- MCMaxValue
    MaxHeaders = 2
    MaxRequests = 2
    BufferSize = 28
    Blank = blank
SPECIFICATION Spec
INVARIANTS Understood DroppedForCause NeverStarved
CHECK_DEADLOCK FALSE
