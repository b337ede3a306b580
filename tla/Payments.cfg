SPECIFICATION PaymentsSpec
CONSTANTS
    Registered <- MCRegistered
    Sender <- MCSender
    Pinned = 6
    Deploy = 1
    Spells429 = {3}
    MaxLogs = 2
    LogWindowBlocks = 4
    GrowAfter = 2
    MaxRetries = 1
    MaxTrouble = 2
    Owner <- MCOwner
    Wallet <- MCWallet
    Services <- MCServices
    Addresses <- MCAddresses
    Burn = {"zero", "dead"}
    HasCode = {"vault"}
    Transfers <- MCTransfers
    Authorizer <- MCAuthorizer
    Tokens <- MCTokens
    Bases <- MCBases
    TargetsPerQuery = 1
    MaxPasses = 2
    MaxLost = 1
    PassTrouble = 1
CHECK_DEADLOCK FALSE
INVARIANTS ReadIsExact RefusedOnce ScanRowMeansCovered CountedIsEarned
 
