SPECIFICATION Spec
CONSTANTS
    Parts = {"librarian", "filing", "custody", "dispatch", "indexing"}
    LibrarianMemory = {m1, m2}
    LastRun = 2
    PromptLimit = 2
    Runner = {w1}
    Modes = {"review"}
    MaxMemories = 2
    DailyCalls = 1
    Backlog = 1
    SettingsBound = 2
    VersionBound = 2
    ActBound = 3
    None = None
    LastMemory = 2
    PolicyBound = 1
    ForeignBound = 1
    NoteBatch = 1
    Lineage = {l1}
    LastRevision = 2
    Grant = {g1, g2}
    Cleaner = {w1, w2}
    RetentionAges = {0, 1, 2}
    FirstAge = 2
    Horizon = 2
    BatchSize = 1
    Nobody = Nobody
    LastPolicy = 2
    LastTenant = 2
    LastSpace = 2
    DispatchWorker = {w1, w2}
    IndexMemory = {m1}
    IndexRevision = {1}
    IndexGen = {g0, g1}
    DefaultGen = g0
    HttpGen = {}
    ReindexRun = {n1}
    IndexWorker = {w1}
    Scanner = {s1}
    Sourced = {}
    MaxAttempts = 1
    ScanBatch = 1
    PendingLimit = 1
    AttemptBound = 1
    MayRestore = FALSE
    LastItem = 2
    LastSourceRevision = 2
    LastScan = 2
    ChangeBound = 1
    Discussed = {2}
    EditBound = 3
    SweepSize = 1
    ScanRunner = {w1, w2}
    Retained = {}
    RequestBound = 2
    LastRelease = 4
    Migrating = {4}
    NewSeries = {}
    Connector = {c1, c2}
    Handler = {h1, h2}
    Key = {k1, k2}
    NoKey = NoKey
    WriteMemory = {m1}
    NoMemory = NoMemory
    ExpectedBound = 1
    Caller = {c1, c2, c3}
    Keeper = {k1}
    Session = {s1}
    MaxQueued = 2
    BatchBound = 2
CHECK_DEADLOCK FALSE
INVARIANTS
    TypeOK
    WithdrawnLeavesNoSuggestion
    ChargedIsRetriedByHand
    NotesFollowRecords
    ForgottenIsGone
    DeadlineHolds
    TurnsAreFair
PROPERTIES
    DecisionsRespectPeople
    NothingComesBack
