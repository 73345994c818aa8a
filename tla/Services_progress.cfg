SPECIFICATION FairSpec
CONSTANTS
    Parts = {"librarian", "backfill", "filing", "custody", "indexing", "sync", "request", "updates"}
    LibrarianMemory = {m1}
    LastRun = 1
    PromptLimit = 1
    Runner = {w1}
    Modes = {"review"}
    MaxMemories = 2
    DailyCalls = 1
    Backlog = 1
    SettingsBound = 2
    VersionBound = 2
    ActBound = 3
    None = None
    LastMemory = 1
    PolicyBound = 2
    ForeignBound = 1
    NoteBatch = 1
    Lineage = {1, 2}
    LastRevision = 1
    Grant = {g1}
    Cleaner = {w1}
    RetentionAges = {1}
    FirstAge = 1
    Horizon = 1
    BatchSize = 1
    Nobody = Nobody
    LastPolicy = 1
    LastTenant = 1
    LastSpace = 1
    DispatchWorker = {w1}
    IndexMemory = {m1}
    IndexRevision = {1}
    IndexGen = {g0, g1}
    DefaultGen = g0
    HttpGen = {}
    ReindexRun = {n1}
    IndexWorker = {w1}
    Scanner = {s1}
    Sourced = {}
    MaxAttempts = 1
    ScanBatch = 1
    PendingLimit = 1
    AttemptBound = 1
    MayRestore = FALSE
    LastItem = 1
    LastSourceRevision = 1
    LastScan = 2
    ChangeBound = 1
    Discussed = {}
    EditBound = 0
    SweepSize = 1
    ScanRunner = {w1}
    Retained = {}
    RequestBound = 2
    LastRelease = 2
    Migrating = {}
    NewSeries = {}
    Connector = {c1, c2}
    Handler = {h1}
    Key = {k1}
    NoKey = NoKey
    WriteMemory = {m1}
    NoMemory = NoMemory
    ExpectedBound = 1
    Caller = {c1}
    Keeper = {k1}
    Session = {s1}
    MaxQueued = 2
    BatchBound = 2
CHECK_DEADLOCK FALSE
PROPERTIES
    BackgroundWorkEnds
    ScansGoOn
    UpdatesGoOn
