SPECIFICATION WatchSpec
CONSTANTS
    Poll = 1
    Late = 1
    Stall = 3
    Grace = 5
    MinSample = 2
    Confirm = 3
    Deadline = 10
    Observes = {TRUE}
    Planned = 4
    OldRows = {0}
    Startup = 3
    MaxGap = 2
    WatchFaults = {"hang"}
    Horizon = 12
CHECK_DEADLOCK FALSE
INVARIANT ObserveStopsNothing
