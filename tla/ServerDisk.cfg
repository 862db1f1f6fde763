\* imgfs_server: the process stops, and another opens the file.
CONSTANTS
    a = a  cat = cat  red = red  blue = blue  text = text
    thumb = thumb  Orig = orig
    Blank = blank  NoContent = nocontent
    Ids = {a, cat}
    CAT_TXT = cat
    Contents = {red, text}
    Decodable = {red}
    Derived = {thumb}
    MaxFiles = 2
    MaxBlobs = 2
    VersionMod = 2
    Resident = TRUE
    MaxFaults = 1
SPECIFICATION DiskSpec
SYMMETRY ServerSymmetry
INVARIANTS AckedStored SlotsSaved
PROPERTIES Uninterrupted
