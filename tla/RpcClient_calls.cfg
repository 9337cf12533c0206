SPECIFICATION FairSpec
CONSTANTS
    N = 3
    Callers = {t1}
    Closers = {t1, t2}
    NumRetries = 1
    NumRetriesCall = 3
    Replies = {"result", "falsy", "http4xx"}
    MaxFlips = 2
    Monitored = FALSE
INVARIANT SteadyNodeServes
INVARIANT OnlyFailedAreDown
PROPERTY CallEnds
