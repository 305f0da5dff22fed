\* Callers serialise per key, no crash: every completed save survives.
CONSTANTS
    Tasks = {t1, t2}
    Keys <- MCKeys
    MaxMsgs = 2
    MaxCrashes = 0
    KeyLock = TRUE
    None = None
    NoFile = NoFile
    Empty = Empty
    Corrupt = Corrupt
SYMMETRY MCSymmetry
SPECIFICATION Spec
INVARIANT CompletedRoundsDurable
