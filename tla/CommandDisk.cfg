\* imgfscmd: writes that fail, and processes that stop.
CONSTANTS
    a = a  cat = cat  red = red  blue = blue  text = text
    thumb = thumb  Orig = orig
    Blank = blank  NoContent = nocontent
    Ids = {a, cat}
    CAT_TXT = cat
    Contents = {red, blue, text}
    Decodable = {red, blue}
    Derived = {thumb}
    MaxFiles = 3
    MaxBlobs = 3
    VersionMod = 2
    Resident = FALSE
    MaxFaults = 2
SPECIFICATION DiskSpec
SYMMETRY Symmetry
INVARIANTS DiskTypeOK SoundContent SharedOriginal FoundUnderItsName CountDrift AckedStored
PROPERTIES Uninterrupted
