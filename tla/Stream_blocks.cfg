SPECIFICATION StreamSpec
CONSTANTS
    Modes = {"threads", "batch", "single"}
    Starts = {0, 1, 2, 4}
    Stops = {0, 3, 5, 6}
    ThreadNum = 3
    BatchSize = 2
    WaitRep = 1
    FirstHead = 2
    MaxHead = 6
    MaxLag = 2
    MaxRounds = 3
    ThreadCount = 2
    Jobs <- MCJobs
INVARIANTS
    NoGap
    NoReplay
    ReachesStop
    FollowsSteadyNodes
PROPERTIES
    Ends
    KeepsPromise
CHECK_DEADLOCK FALSE
