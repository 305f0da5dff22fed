\* Callers serialise per key (the agent loop's discipline); crashes happen.
CONSTANTS
    Tasks = {t1, t2}
    Keys <- MCKeys
    MaxMsgs = 2
    MaxCrashes = 1
    KeyLock = TRUE
    None = None
    NoFile = NoFile
    Empty = Empty
    Corrupt = Corrupt
SYMMETRY MCSymmetry
SPECIFICATION Spec
INVARIANT TypeOK
INVARIANT DiskPrefixOfCache
INVARIANT QuiescentCoherence
