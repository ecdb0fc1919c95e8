SPECIFICATION MCSpec
CONSTANTS
    Null = Null
    degraded = degraded
    pgdown = pgdown
    apidown = apidown
    i0 = i0
    kOld = kOld
    kNew = kNew
    n1 = n1
    n2 = n2
    u1 = u1
    h1 = h1
    h2 = h2
    o1 = o1
    o2 = o2
    Calls = {h1, h2}
    Keys = {o1, o2}
    Faults = TRUE
    DedupKeys = {degraded, pgdown, apidown}
    SeverityOf <- Severity
    MaxNow = 3
    MaxCount = 4
    Known = {i0}
    ReportKeys = {degraded}
    ProbeKey <- Probed
    Credentials <- Sent
    KeyIds = {kOld, kNew}
    NextKey = kNew
    Tolerance = 1
    NonceRetention = 2
    Thresholds = {1}
    Cooldowns = {2}
    CooldownFloor = 1
    Actors = {u1}
    CoalesceWindow = 1
    OnlineThreshold = 2
    IdleThreshold = 3
    StaleAfter = 1
INVARIANTS
    
    SignalsAreTrue
PROPERTIES
    SettledStays
SYMMETRY Interchangeable
CHECK_DEADLOCK FALSE
