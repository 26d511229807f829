CONSTANTS
    Issuer = {"github", "gitlab"}
    URL = {"hub", "lab", "elsewhere"}
    Algorithm = {"RS256", "ES256", "HS256"}
    Audience = {"broker", "other"}
    ClaimName = {"sub", "jti", "repository", "protected"}
    Text = {"app", "lib", "true", ""}
    Config <- MCConfig
    Skew = 1
    MaxUnixSeconds = 50
    Tokens <- MCTokens
    Horizon = 13
SPECIFICATION Spec
INVARIANTS
    TypeOK
    AcceptedInForce
    WindowIsBounded
    IdentityIsVouchedFor
    RefusalsAreJustified
CHECK_DEADLOCK FALSE
