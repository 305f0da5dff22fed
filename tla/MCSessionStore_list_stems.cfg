\* One task: save a session whose key has a ':' and list the keys.
CONSTANTS
    Tasks = {t1}
    Keys <- MCListKeys
    MaxMsgs = 1
    MaxCrashes = 0
    KeyLock = TRUE
    None = None
    NoFile = NoFile
    Empty = Empty
    Corrupt = Corrupt
SYMMETRY MCSymmetry
SPECIFICATION Spec
INVARIANT ListReturnsSessionKeys
