CONSTANTS
    MaxLeaves = 3
    IssuerKind <- MCKinds
    Resource <- MCResources
    Caller <- MCCallers
    IdentityClaim <- MCIdentity
    Declared <- MCDeclared
    Chain <- MCChains
    ListOf <- MCLists
    OtherValue <- MCOther
    NameSymbol <- MCNameSymbols
    ClaimName <- MCClaims
    Environment <- CallerAndResource
    Leaves <- ComparisonLeaves
    Named <- MCNamed
    Listed <- MCListed
    Related <- KnownOrAtHome
SPECIFICATION Spec
INVARIANTS
    ConstrainsIsRight
    OnlyListedResources
    StrangersStayAtHome
CHECK_DEADLOCK FALSE
