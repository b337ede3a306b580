SPECIFICATION FairSpec
CONSTANTS
    Passes = {p1, p2}
    NAgents = 4
    NUrls = 2
    Raw <- MCRaw
    Archived <- MCArchived
    Responses <- MCResponses
    HostOf <- MCHostOf
    HashRank <- MCHashRank
    Budgets = {1, 2}
    Concurrency = 1
    MaxStarts = 2
CHECK_DEADLOCK FALSE
INVARIANTS LadderKept ProbesKept
PROPERTIES PassSettles PassEnds
