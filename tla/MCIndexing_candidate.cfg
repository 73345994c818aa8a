SPECIFICATION Spec
CONSTANTS
    m1 = m1
    Memory = {m1}
    Revision = {1, 2}
    MemoryOf <- OneMemory
    Rank <- Descending2
    Gen = {g0, g1}
    DefaultGen = g0
    HttpGen = {g1}
    Run = {n1}
    Worker = {w1}
    Scanner = {s1}
    Sourced = {}
    MaxAttempts = 1
    BatchSize = 1
    PendingLimit = 1
    AttemptBound = 1
    MayRestore = TRUE
    None = None
CHECK_DEADLOCK FALSE
INVARIANTS
    CandidateKeepsUp
    DeletionProceeds
PROPERTIES
    PublishesSelectedOnly
    ImplementsSpace
