SPECIFICATION Spec
CONSTANTS
    Memory = {m1, m2}
    LastRun = 3
    Runner = {w1}
    Modes = {"review"}
    MaxMemories = 2
    DailyCalls = 1
    Backlog = 1
    TooLarge <- TwoAreTooMany
    VersionBound = 1
    SettingsBound = 2
    ActBound = 4
    None = None
CHECK_DEADLOCK FALSE
PROPERTIES
    SweepsSkipAttempted
