---------------------------- MODULE Configuration -----------------------------
(***************************************************************************)
(* internal/config: from the document an operator writes to the            *)
(* configuration the broker runs with, or to its refusal.                  *)
(*                                                                         *)
(* A number that may be left out is a set.  A list that is left out is     *)
(* empty; a written empty list, which the schema refuses, does not occur.  *)
(* The empty text is "".                                                   *)
(***************************************************************************)
EXTENDS Authority, Sequences, Functions

CONSTANTS
    IssuerName, WellNamed,  \* names of issuers; those matching the pattern
    URL,                    \* issuer URLs
    CanonicalURL,           \* those that parseIssuerURL accepts
    OnGitHub,               \* those on GitHub's issuer host
    GitHubIssuerURL,        \* the issuer of GitHub Actions
    EnterpriseURL,          \* GitHubIssuerURL with an enterprise slug
    Audience,
    ClaimName, PlainClaim,  \* names of claims; those checkClaimName accepts
    GitHubClaims,           \* the claims of the preset, in order
    Algorithm,              \* what may be written as an algorithm
    Text,                   \* values a claim may be required to have
    PolicyName,
    Documents               \* the documents to consider

\* Each list in its own order, without repetition.
AllDiffer(list) == \A m, n \in DOMAIN list : list[m] = list[n] => m = n

ASSUME NamesAssumption ==
    /\ WellNamed \subseteq IssuerName
    /\ PlainClaim \subseteq ClaimName
    /\ GitHubClaims \in Seq(PlainClaim) /\ GitHubClaims # <<>> /\ AllDiffer(GitHubClaims)

ASSUME URLAssumption ==
    /\ GitHubIssuerURL \in URL /\ EnterpriseURL \subseteq URL /\ "" \notin URL
    /\ CanonicalURL \subseteq URL
    /\ {GitHubIssuerURL} \cup EnterpriseURL \subseteq CanonicalURL \cap OnGitHub

AllowedAlgorithms == {"RS256", "RS384", "RS512", "ES256", "ES384", "ES512",
                      "PS256", "PS384", "PS512", "EdDSA"}
MaxTokenLifetimeLimit == 86400
MaxClockSkewLimit == 300
-----------------------------------------------------------------------------
(* What is written.                                                        *)

\* A number that may be left out.
Optional == {numbers \in SUBSET Int : \A m, n \in numbers : m = n}

RequireMap == UNION {[names -> SUBSET Text] : names \in SUBSET ClaimName}

IssuerEntry == [name : IssuerName, preset : {"", "github", "other"},
                issuer : URL \cup {""}, audience : Audience \cup {""},
                algorithms : Seq(Algorithm), maxTokenLifetimeSeconds : Optional,
                claims : Seq(ClaimName), require : RequireMap]

\* sound: compile accepts the condition for the policy's issuer.
PolicyEntry == [name : PolicyName, issuer : IssuerName \cup {""}, sound : BOOLEAN,
                grant : PermissionMap]

\* legacy: oidc.issuer or oidc.audience are set; serverURL: server.issuer is an
\* absolute https:// URL.
Document == [legacy : BOOLEAN, issuers : Seq(IssuerEntry), clockSkewSeconds : Optional,
             appId : BOOLEAN, keySources : SUBSET {"path", "env"}, serverURL : BOOLEAN,
             maxRepositories : Optional, policies : Seq(PolicyEntry)]

ASSUME DocumentsAssumption == Documents \subseteq Document

IsPreset(iss) == iss.preset = "github"
-----------------------------------------------------------------------------
(* LoadFromBytes.                                                          *)

SingleIssuerShape(doc) ==
    doc.legacy \/ \E n \in DOMAIN doc.policies : doc.policies[n].issuer = ""

\* config.schema.json.
IssuerFitsSchema(iss) ==
    /\ iss.name \in WellNamed
    /\ iss.preset \in {"", "github"}
    /\ iss.audience # ""
    /\ Range(iss.algorithms) \subseteq AllowedAlgorithms
    /\ iss.maxTokenLifetimeSeconds \subseteq 1 .. MaxTokenLifetimeLimit
    /\ AllDiffer(iss.claims)

\* It grants something, and only keys and levels of the catalog.
GrantFitsSchema(grant) ==
    /\ Present(grant) # {}
    /\ \A k \in Present(grant) : ValidKeyLevel(k, grant[k])

\* (Seeded error: nothing is said of the number of repositories.)
FitsSchemaButCap(doc) ==
    /\ doc.issuers # <<>>
    /\ \A n \in DOMAIN doc.issuers : IssuerFitsSchema(doc.issuers[n])
    /\ doc.clockSkewSeconds \subseteq 0 .. MaxClockSkewLimit
    /\ doc.appId
    /\ \A n \in DOMAIN doc.policies : GrantFitsSchema(doc.policies[n].grant)

FitsSchema(doc) ==
    /\ doc.issuers # <<>>
    /\ \A n \in DOMAIN doc.issuers : IssuerFitsSchema(doc.issuers[n])
    /\ doc.clockSkewSeconds \subseteq 0 .. MaxClockSkewLimit
    /\ doc.appId
    /\ \A max \in doc.maxRepositories : max >= 1
    /\ \A n \in DOMAIN doc.policies : GrantFitsSchema(doc.policies[n].grant)

\* A number that is left out decodes to 0, and 0 becomes the default.
OrDefault(number, default) ==
    IF number \subseteq {0} THEN default ELSE CHOOSE n \in number : TRUE

ResolvedIssuer(iss) ==
    [name |-> iss.name, preset |-> iss.preset,
     issuer |-> IF IsPreset(iss) /\ iss.issuer = "" THEN GitHubIssuerURL ELSE iss.issuer,
     audience |-> iss.audience,
     algorithms |-> IF iss.algorithms = <<>> THEN <<"RS256">> ELSE iss.algorithms,
     maxTokenLifetimeSeconds |-> OrDefault(iss.maxTokenLifetimeSeconds, 3600),
     claims |-> IF IsPreset(iss) /\ iss.claims = <<>> THEN GitHubClaims ELSE iss.claims,
     require |-> iss.require]

ApplyDefaults(doc) ==
    [issuers |-> [n \in DOMAIN doc.issuers |-> ResolvedIssuer(doc.issuers[n])],
     clockSkewSeconds |-> OrDefault(doc.clockSkewSeconds, 60),
     appId |-> doc.appId, keySources |-> doc.keySources, serverURL |-> doc.serverURL,
     maxRepositories |-> OrDefault(doc.maxRepositories, 256),
     policies |-> doc.policies]
-----------------------------------------------------------------------------
(* validate.                                                               *)

\* (Seeded error: any entry may be on GitHub's host.)
PlacedAnywhere(iss) ==
    iss.preset = "github" => iss.issuer \in {GitHubIssuerURL} \cup EnterpriseURL

\* A preset is for GitHub's issuers, and they are for nothing else.
PlacedRight(iss) ==
    IF IsPreset(iss)
    THEN iss.issuer \in {GitHubIssuerURL} \cup EnterpriseURL
    ELSE iss.issuer \notin OnGitHub

ClaimsAreRight(iss) ==
    /\ IF IsPreset(iss)
       THEN iss.claims = GitHubClaims
       ELSE iss.claims # <<>> /\ DOMAIN iss.require # {}
    /\ Range(iss.claims) \subseteq PlainClaim /\ AllDiffer(iss.claims)
    /\ DOMAIN iss.require \subseteq PlainClaim
    /\ \A name \in DOMAIN iss.require : iss.require[name] # {} /\ "" \notin iss.require[name]

ValidIssuer(iss) ==
    /\ iss.name \in WellNamed
    /\ iss.preset \in {"", "github"}
    /\ iss.audience # ""
    /\ iss.issuer \in CanonicalURL
    /\ PlacedRight(iss)
    /\ ClaimsAreRight(iss)
    /\ Range(iss.algorithms) \subseteq AllowedAlgorithms
    /\ iss.maxTokenLifetimeSeconds \in 1 .. MaxTokenLifetimeLimit

\* (Seeded error: issuers are told apart by name only.)
NamesDiffer(issuers) ==
    \A m, n \in DOMAIN issuers : issuers[m].name = issuers[n].name => m = n

IssuersDiffer(issuers) ==
    \A m, n \in DOMAIN issuers :
        issuers[m].name = issuers[n].name \/ issuers[m].issuer = issuers[n].issuer => m = n

ValidPolicies(cfg) ==
    /\ \A m, n \in DOMAIN cfg.policies : cfg.policies[m].name = cfg.policies[n].name => m = n
    /\ \A n \in DOMAIN cfg.policies :
          LET p == cfg.policies[n]
          IN  /\ \E i \in DOMAIN cfg.issuers : cfg.issuers[i].name = p.issuer
              /\ \A k \in Present(p.grant) : ValidKey(k) /\ ValidKeyLevel(k, p.grant[k])

Valid(cfg) ==
    /\ cfg.issuers # <<>>
    /\ \A n \in DOMAIN cfg.issuers : ValidIssuer(cfg.issuers[n])
    /\ IssuersDiffer(cfg.issuers)
    /\ cfg.clockSkewSeconds \in 0 .. MaxClockSkewLimit
    /\ cfg.appId
    /\ \E source \in {"path", "env"} : cfg.keySources = {source}
    /\ cfg.serverURL
    /\ ValidPolicies(cfg)
-----------------------------------------------------------------------------
(* What main makes of a configuration.                                     *)

\* (Seeded error: the highest level is taken for the lowest.)
LowestLevel(levels) == CHOOSE l \in levels : \A o \in levels : LevelOrd(l) =< LevelOrd(o)

HighestLevel(levels) == CHOOSE l \in levels : \A o \in levels : LevelOrd(l) >= LevelOrd(o)

GrantedLevels(policies, k) ==
    {policies[n].grant[k] : n \in DOMAIN policies} \cap Level

\* The order of the loop does not matter to the highest level.
AggregateGrantPermissions(policies) ==
    [k \in Key |->
        IF ValidKey(k) /\ GrantedLevels(policies, k) # {}
        THEN HighestLevel(GrantedLevels(policies, k))
        ELSE Absent]

\* (Seeded error: warned only if there is no policy at all.)
SilentIfNoPolicy(cfg) ==
    IF cfg.policies = <<>> THEN {cfg.issuers[n].name : n \in DOMAIN cfg.issuers} ELSE {}

\* The issuers of which Lint warns that their tokens are always denied.
Unreferenced(cfg) ==
    {cfg.issuers[n].name : n \in DOMAIN cfg.issuers}
        \ {cfg.policies[n].issuer : n \in DOMAIN cfg.policies}
=============================================================================
