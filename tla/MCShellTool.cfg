CONSTANTS
    Calls = {c1, c2}
    TimeoutVals <- MCTimeoutVals
    Durations <- MCDurations
    ExitCodes <- MCExitCodes
    Signalled = Signalled
    Forever = Forever
    MaxClock <- MCMaxClock
SPECIFICATION FairSpec
INVARIANTS TypeOK ExitNoteFaithful
PROPERTIES EveryCallReturns
CHECK_DEADLOCK FALSE
