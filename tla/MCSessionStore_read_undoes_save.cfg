\* Callers do not serialise per key: a get_or_create races a round.
CONSTANTS
    Tasks = {t1, t2}
    Keys <- MCKeys
    MaxMsgs = 2
    MaxCrashes = 0
    KeyLock = FALSE
    None = None
    NoFile = NoFile
    Empty = Empty
    Corrupt = Corrupt
SYMMETRY MCSymmetry
SPECIFICATION Spec
PROPERTY CacheReplacedOnlyBySave
