CONSTANTS
    Verification = {v1, v2}
    SigningKey = {k1}
    Interval = 2
    Timeout = 1
SPECIFICATION SpecNoted
INVARIANTS
    SettledKeyAccepted
CHECK_DEADLOCK FALSE
