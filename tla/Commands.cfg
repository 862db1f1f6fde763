\* imgfscmd: every call opens and closes the file.
CONSTANTS
    a = a  b = b  red = red  blue = blue  text = text
    thumb = thumb  Orig = orig
    Blank = blank  NoContent = nocontent
    Ids = {a, b, blank}
    Contents = {red, blue, text}
    Decodable = {red, blue}
    Derived = {thumb}
    MaxFiles = 3
    MaxBlobs = 3
    VersionMod = 2
    Resident = FALSE
SPECIFICATION Spec
SYMMETRY Symmetry
INVARIANTS TypeOK CountExact SoundContent SharedOriginal LowerTwinValid NothingUnsaved
PROPERTIES ImplementsCatalog
