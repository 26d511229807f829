CONSTANTS
    Key = {"contents", "admin", "odd"}
    Catalog <- MCCatalog
    IssuerName = {"github", "lab", "Lab"}
    WellNamed = {"github", "lab"}
    URL = {"https://hub", "https://hub/acme", "https://hub/a/b", "https://lab", "https://LAB"}
    CanonicalURL = {"https://hub", "https://hub/acme", "https://hub/a/b", "https://lab"}
    OnGitHub = {"https://hub", "https://hub/acme", "https://hub/a/b"}
    GitHubIssuerURL = "https://hub"
    EnterpriseURL = {"https://hub/acme"}
    Audience = {"broker"}
    ClaimName = {"repository", "environment", "group", "aud"}
    PlainClaim = {"repository", "environment", "group"}
    GitHubClaims <- MCGitHubClaims
    Algorithm = {"RS256", "ES256", "none"}
    Text = {"acme", ""}
    PolicyName = {"p", "q", "r"}
    Documents <- MCDocuments
    Manifests <- MCManifests
SPECIFICATION FairSpec
INVARIANTS
    ConstructorsNeverRefuse
    CheckedBeforeUse
    IssuersAreSeparate
    SilentIssuersWereNamed
    WrittenIsServed
PROPERTIES
    EveryStartEnds
CHECK_DEADLOCK FALSE
