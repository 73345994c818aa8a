SPECIFICATION FairSpec
CONSTANTS
    m1 = m1
    Memory = {m1}
    Revision = {1, 2}
    MemoryOf <- OneMemory
    Rank <- Descending2
    Gen = {g0}
    DefaultGen = g0
    HttpGen = {}
    Run = {}
    Worker = {w1, w2}
    Scanner = {}
    Sourced = {m1}
    MaxAttempts = 2
    BatchSize = 1
    PendingLimit = 1
    AttemptBound = 2
    MayRestore = TRUE
    None = None
INVARIANTS
    TypeOK
    NoRevisionLost
    OperationTellsTruth
PROPERTIES
    FinalStatesStand
    AcceptedWorkEnds
