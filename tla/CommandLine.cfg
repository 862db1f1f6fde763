\* imgfscmd; 32 bits are scaled to 100000, 16 bits are as they are.
CONSTANTS
    Lines <- MCLines
    ImageFiles <- MCImageFiles
    Numeral <- MCNumeral
    Width16 = 65536
    Width32 = 100000
SPECIFICATION Spec
INVARIANTS TypeOK AsUsage CreatedAsAsked RoundTrip Closed
PROPERTIES ChangesAsked
