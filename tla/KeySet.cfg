CONSTANTS
    Verification = {v1, v2}
    SigningKey = {k1, k2}
    Interval = 2
    Timeout = 1
SPECIFICATION FairSpec
PROPERTIES
    PublishedKeyArrives
    EveryVerificationEnds
CHECK_DEADLOCK FALSE
