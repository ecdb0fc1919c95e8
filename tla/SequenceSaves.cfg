SPECIFICATION FairSpec
CONSTANTS
    N = 2
    Definition <- MCDefinition
    Tabs = {t1, t2}
    MaxInFlight = 1
    MaxTries = 2
    Faults = TRUE
    Null = Null

    
PROPERTIES
    
    CompletionIsStored
CHECK_DEADLOCK FALSE
