CONSTANTS
    None = None
    Targets <- MCTargets
    ScanLimit = 4
    Cooldown = 3
    RunsPerTick = 1
    RunTicks = 0
    MaxFaults = 1
    MaxAge = 3
SPECIFICATION MonitorSpec
INVARIANTS
    NoticesAreTrue
PROPERTIES
    DisturbancesAreTold
