SPECIFICATION FairSpec
CONSTANTS
    N = 2
    Callers = {t1}
    Closers = {t1, t2}
    NumRetries = 0
    NumRetriesCall = 1
    Replies = {"empty", "http429", "error"}
    MaxFlips = 0
    Monitored = TRUE
PROPERTY ClosedCallsEnd
