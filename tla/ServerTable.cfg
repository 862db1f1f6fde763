\* imgfs_server: one process keeps the file open over every call.
CONSTANTS
    a = a  b = b  red = red  blue = blue  text = text
    thumb = thumb  Orig = orig
    Blank = blank  NoContent = nocontent
    Ids = {a, b, blank}
    Contents = {red, text}
    Decodable = {red}
    Derived = {thumb}
    MaxFiles = 2
    MaxBlobs = 3
    VersionMod = 2
    Resident = TRUE
SPECIFICATION Spec
SYMMETRY Symmetry
INVARIANTS NothingUnsaved CountBounded OffsetsSound
PROPERTIES Isolation TwinsKept
