SPECIFICATION Spec
CONSTANTS
    Scenes <- MCScenes
    Clicks <- MCClicks
    MaxEntries = 1
    MaxHints = 1
    Null = Null
INVARIANTS
    PagesAreSound
    RecordedIsShown
    EngineMatchesLog
CHECK_DEADLOCK FALSE
