\* A crash between the truncation and the write of a save.
CONSTANTS
    Tasks = {t1, t2}
    Keys <- MCKeys
    MaxMsgs = 2
    MaxCrashes = 1
    KeyLock = TRUE
    None = None
    NoFile = NoFile
    Empty = Empty
    Corrupt = Corrupt
SYMMETRY MCSymmetry
SPECIFICATION Spec
INVARIANT CompletedRoundsDurable
