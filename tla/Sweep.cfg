SPECIFICATION MCSpec
CONSTANTS
    Sessions = {s1, s2}
    Discovered = 2
    Caps = {1, 2}
    MaxAttempts = 2
    Faults = {"rpc", "db", "bad_data", "lost_ack", "disk", "crash", "watchdog"}
    Overlap = TRUE
CHECK_DEADLOCK FALSE
INVARIANT RunIsHonest
PROPERTIES CloseIsExact SessionEnds
