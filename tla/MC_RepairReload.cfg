\* Nothing happens any more when time and attempt ids are used up.
SPECIFICATION Spec
CONSTANTS
    Device = {1, 2}
    Caller = {1}
    Id = {1, 2}
    NoId = 0
    Lifetime = 2
    Skew = 1
    Grace = 1
    Budget = 1
    ReplaySkew = 0
    FallbackBudget = 1
    MaxActive = 1
    MaxTombstones = 2
    MaxTime = 1
    LastStart = 2
    MaxFailures = 0
    MaxReloads = 1
INVARIANTS TakenUpOnce
CHECK_DEADLOCK FALSE
