SPECIFICATION FairSpec
CONSTANTS
    N = 2
    Inf = 1000000
    LagPenalty = 100000
    MaxLag = 1
    Callers = {c1}
    Updaters = {u1}
    NoThread = NoThread
    Heads = {1, 3}
    Latencies = {1}
    RetryAfters = {1}
    MaxClock = 2
    MaxReports = 1
    MaxFlips = 1
INVARIANT ActiveIsBest
INVARIANT NoLaggardHealthy
PROPERTY SettlesOnLiveNode
