SPECIFICATION Spec
CONSTANTS
    LastWeek = 2
    Catalogs <- MCCatalogs
    Page = 2
    MaxPages = 2
    Servers <- MCServers
    PerHostBudget = 1
    HostConcurrency = 2
    Transfers <- MCTransfers
    Heads <- MCHeads
    Lookback = 3
    WindowBlocks = 3
    Shopper = "shopper"
    Before <- MCBefore
    MaxCrashes = 1
INVARIANTS  RowsAreRight DeltaIsTheWorlds PingIsEarned
CHECK_DEADLOCK FALSE
