CONSTANTS
    Key = {"contents", "metadata", "retired"}
    Catalog <- MCCatalog
    Issuer = {"actions", "gitlab"}
    Caller = {"workflow"}
    Resource <- MCResource
    PolicyName = {"write app", "read all", "read lib"}
    MaxRepositories = 2
    PolicySets <- MCPolicySets
    Login = {"acme", "zoo"}
    RepoName = {"app", "lib"}
    Slug = {"acme"}
    Text = {"acme", "zoo", "app", "lib", "?"}
    RequestId = {q1}
    SubjectToken = {"actions token", "gitlab token", "forged token"}
    IdentityOf <- MCIdentityOf
    Forms <- MCAllForms
    Ceilings <- MCCeilings
    ImpliedKeys = {"metadata"}
    NoScope = NoScope
SPECIFICATION FairSpec
INVARIANTS
    TypeOK
    TokensAreEntitled
    StatedScopeIsTrue
PROPERTIES
    EveryRequestEnds
CHECK_DEADLOCK FALSE
