SPECIFICATION FairSpec
CONSTANTS
    Procs = {p1, p2}
    Deploy = 1
    Confirmations = 1
    Batch = 2
    LastBlock = 4
    MaxReorg = 1
    MaxVersion = 1
    MaxFaults = 1
CHECK_DEADLOCK FALSE
INVARIANT IndexIsChain
PROPERTIES ImplementsLog Follows
