SPECIFICATION Spec
CONSTANTS
    Callers = {t1, t2}
    Getters = {"get_config", "hardfork"}
    Urls = {"a", "b"}
    RefreshTime = 2
    MaxTime = 2
    MaxReads = 3
    Users = {t1, t2}
    Configs <- MCConfigs
    AllNodes = {"a", "b"}
    MaxUses = 4
    Owners = {t1, t2}
    CacheDuration = 1
    MaxClock = 2
    MaxFetches = 3
    Threads = {t1, t2}
INVARIANTS
    SharedFitsConfig
    UpdateIsFresh
PROPERTIES
    DataIsRecent
    DataOfThisNode
    SharedStays
    CacheIsRecent
CHECK_DEADLOCK FALSE
SYMMETRY Alike
