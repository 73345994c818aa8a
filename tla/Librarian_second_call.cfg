SPECIFICATION Spec
CONSTANTS
    Memory = {m1}
    LastRun = 1
    Runner = {w1}
    Modes = {"organize"}
    MaxMemories = 1
    DailyCalls = 2
    Backlog = 1
    TooLarge = {}
    VersionBound = 1
    SettingsBound = 1
    ActBound = 2
    None = None
CHECK_DEADLOCK FALSE
PROPERTIES
    NoSecondCall
