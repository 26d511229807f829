CONSTANTS
    Key = {"contents", "issues"}
    Catalog <- MCCatalog
    Issuer = {"actions", "gitlab"}
    Caller = {caller}
    Resource = {r1, r2}
    PolicyName = {"p1", "p2", "p3"}
    MaxRepositories = 3
    PolicySets <- MCPolicySets
    Requests <- MCRequests
SPECIFICATION Spec
INVARIANTS
    TypeOK
    GrantIsWhatMatchedSoFar
    GrantsAreSeparate
PROPERTIES
    ImplementsDecision
CHECK_DEADLOCK FALSE
