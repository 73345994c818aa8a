SPECIFICATION Spec
CONSTANTS
    ScanRunner = {w1}
    Retained = {w1}
    RequestBound = 1
INVARIANTS
    RequestIsHonoured
