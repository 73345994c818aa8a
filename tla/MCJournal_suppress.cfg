SPECIFICATION Spec
CONSTANTS
    Memory = {m1}
    Request = {r1, r2}
    Reviewer = {r1}
    Publisher = sch
    EventBound = 3
    PolicyBound = 1
    ChangeBound = 4
    TipBound = 0
    MaxBatch = 2
    MaxTries = 1
    None = None
CHECK_DEADLOCK FALSE
INVARIANTS
    WithdrawnIsSuppressed
