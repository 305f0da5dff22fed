\* Callers do not serialise per key: two deletes of one session race.
CONSTANTS
    Tasks = {t1, t2}
    Keys <- MCKeys
    MaxMsgs = 2
    MaxCrashes = 0
    KeyLock = FALSE
    None = None
    NoFile = NoFile
    Empty = Empty
    Corrupt = Corrupt
SYMMETRY MCSymmetry
SPECIFICATION Spec
INVARIANT DeleteMissingNotError
