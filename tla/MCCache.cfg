SPECIFICATION PartsSpec
CONSTANTS
    Cap = 2
    Keys = {k1, k2, k3}
    NoKey = NoKey
    Durations <- MCDurations
    MaxAge = 2
    MaxNow = 3
    MaxPuts = 1
    Downs = {"d1", "d2"}
    Pubs = {"p1"}
    Timers = {"z1"}
    NoUpstream = "none"
    MaxFlips = 2
INVARIANTS
    CacheCoherent
    ForwardFollowsWatchers
PROPERTIES
    IsQueue
    WaitEnds
CHECK_DEADLOCK FALSE
