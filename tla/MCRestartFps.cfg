SPECIFICATION MCSpec
CONSTANTS
    Addrs = {a1}
    Status = Status
    Rcon = Rcon
    Nothing = Nothing
    Burst = 2
    Period = 3
    StatusPeriod = 1
    GCInterval = 3
    MaxBuckets = 1
    Wrap = 18
    MaxLife = 8
    Packets = {"connect", "status", "rcon"}
    FirstTimes = {13}
    MaxTime = 13
    MaxClients = 2
    SnapshotEntities = 2
    NumEntities = 8
    EntitiesEnd = 26
    TimeEnd = 14
    TimeMargin = 4
    MaxFrame = 3
    Settle = 1
    Clients = {c1}
    NoClient = NoClient
    LowestRate = 2
    DefaultFps = 2
    Second = 2
    MinRates <- RateFloors
    MaxRates <- RateCaps
    MinSnaps <- SnapFloors
    MaxSnaps = {0, 1}
    Fps = {1, 3}
    Wants <- BothWants
PROPERTIES
    AppliesWithinASecond
CHECK_DEADLOCK FALSE
