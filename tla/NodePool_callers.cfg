SPECIFICATION Spec
CONSTANTS
    N = 3
    Inf = 1000000
    LagPenalty = 100000
    MaxLag = 1
    Callers = {c1, c2}
    Updaters = {}
    NoThread = NoThread
    Heads = {1, 3}
    Latencies = {1, 150}
    RetryAfters = {0, 1, 2}
    MaxClock = 3
    MaxReports = 4
    MaxFlips = 0
INVARIANT CooldownHonoured
PROPERTY RevivedByCooldownOnly
