\* Nothing happens any more when time and attempt ids are used up.
SPECIFICATION TimedSpec
CONSTANTS
    Device = {1, 2}
    Caller = {1, 2}
    Id = {1, 2}
    NoId = 0
    Lifetime = 1
    Skew = 0
    Grace = 0
    Budget = 1
    ReplaySkew = 0
    FallbackBudget = 1
    MaxActive = 1
    MaxTombstones = 1
    MaxTime = 1
    LastStart = 0
    MaxFailures = 1
    MaxReloads = 1
INVARIANTS NeverTakenUpAgain ReserveKept
PROPERTIES AttemptsEnd
CHECK_DEADLOCK FALSE
