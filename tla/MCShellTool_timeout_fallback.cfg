CONSTANTS
    Calls = {c1, c2}
    TimeoutVals <- MCTimeoutVals
    Durations <- MCDurations
    ExitCodes <- MCExitCodes
    Signalled = Signalled
    Forever = Forever
    MaxClock <- MCMaxClock
SPECIFICATION Spec
INVARIANT SuppliedTimeoutHonored
CHECK_DEADLOCK FALSE
