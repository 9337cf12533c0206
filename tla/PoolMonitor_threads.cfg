SPECIFICATION MonitorFairSpec
CONSTANTS
    Owners = {t1, t2, t3}
    MaxStarts = 4
    Free = Free
INVARIANT OnlyKnownMonitorRuns
INVARIANT StoppedIsGone
PROPERTY StopReturns
