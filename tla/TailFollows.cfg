SPECIFICATION FairSpec
CONSTANTS
    Pollers = {p1, p2}
    MaxRuns = 1
    MaxMinted = 3
    Cap = 2
    MaxFaults = 1
    Unreadable = {2}
    CensusMisses = TRUE
INVARIANT CursorIsBacked
PROPERTIES TailOnlyGrows 
