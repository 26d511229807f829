CONSTANTS
    Key = {"contents", "metadata", "retired"}
    Catalog <- MCCatalog
    Issuer = {"actions", "gitlab"}
    Caller = {"workflow"}
    Resource <- MCResource
    PolicyName = {"write app", "read all", "read lib"}
    MaxRepositories = 2
    PolicySets <- MCOnePolicySet
    Login = {"acme"}
    RepoName = {"app", "lib"}
    Slug = {}
    Text = {"acme", "app", "lib", "zoo", "?"}
    RequestId = {q1}
    SubjectToken = {"actions token", "gitlab token", "forged token"}
    IdentityOf <- MCIdentityOf
    Forms <- MCFewForms
    Ceilings <- MCCeilings
    ImpliedKeys = {"metadata"}
    NoScope = NoScope
SPECIFICATION FairSpec
INVARIANTS
    IssuanceAudited
CHECK_DEADLOCK FALSE
