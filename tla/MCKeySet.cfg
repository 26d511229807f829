CONSTANTS
    Verification = {v1, v2}
    SigningKey = {k1, k2}
    Interval = 3
    Timeout = 1
SYMMETRY MCSymmetry
SPECIFICATION SpecNoted
INVARIANTS
    HistoryTypeOK
    RefusedAtMostOnce
    OutageKeepsKeys
PROPERTIES
    FetchesKeepDistance
CHECK_DEADLOCK FALSE
