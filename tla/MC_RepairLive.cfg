\* Nothing happens any more when the devices are connected.
SPECIFICATION FairSpec
CONSTANTS
    Device = {1, 2}
    Caller = {1, 2}
    Id = {1, 2}
    NoId = 0
    Lifetime = 2
    Skew = 0
    Grace = 1
    Budget = 1
    ReplaySkew = 0
    FallbackBudget = 1
    MaxActive = 1
    MaxTombstones = 2
    MaxTime = 1
    LastStart = 1
    MaxFailures = 0
    MaxReloads = 0
PROPERTIES EventuallyConnected
CHECK_DEADLOCK FALSE
