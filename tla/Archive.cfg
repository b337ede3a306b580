SPECIFICATION FairSpec
CONSTANTS
    LastRun = 2
    a1 = a1
    a2 = a2
    Agents = {a1, a2}
    Observations <- MCObservations
    Chunk = 1
    MaxCrashes = 1
CHECK_DEADLOCK FALSE
INVARIANTS RejudgedIsFresh FindingsStand CopyIsARun
PROPERTY DeltasSettle
