SPECIFICATION FairSpec
CONSTANTS
    Memory = {m1}
    Request = {r1}
    Reviewer = {r1}
    Publisher = sch
    EventBound = 2
    PolicyBound = 2
    ChangeBound = 3
    TipBound = 1
    MaxBatch = 2
    MaxTries = 2
    None = None
CHECK_DEADLOCK FALSE
INVARIANTS
    TypeOK
    DrainedIsMirrored
    WithdrawnStaysPrivate
    AckIsDecided
    ForgottenLeavesNoText
    PublishedOnce
    LocalReceiptDurable
PROPERTIES
    JournalConverges
