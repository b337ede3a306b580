SPECIFICATION Spec
CONSTANTS
    Workers = {w1, w2, w3}
    Hosts = {h1, h2}
    PerHostCap = 2
    GlobalCap = 1
    HostDelay = 1
    RetryAfters = {1, 3}
    MaxRetryAfter = 2
    TotalTimeout = 2
    MaxRedirects = 1
    MaxRobotsRedirects = 1
SYMMETRY ProberSymmetry
INVARIANTS SlotsApart LoadBounded NobodyWaitsInVain
PROPERTY QuietIsKept
