------------------------------ MODULE MCStartup -------------------------------
(* A good document of two issuers and three policies, and what can be wrong  *)
(* with each part of it.                                                     *)
EXTENDS Startup

MCCatalog == [k \in Key |-> CASE k = "contents" -> {"read", "write"}
                              [] k = "admin" -> {"read", "write", "admin"}
                              [] OTHER -> {}]

MCGrant(contents, admin) ==
    [NoPermissions EXCEPT !["contents"] = contents, !["admin"] = admin]

MCGitHubClaims == <<"repository", "environment">>
MCRequire(name) == [n \in {name} |-> {"acme"}]
MCNothing == [n \in {} |-> {}]

MCPreset ==
    [name |-> "github", preset |-> "github", issuer |-> "", audience |-> "broker",
     algorithms |-> <<>>, maxTokenLifetimeSeconds |-> {}, claims |-> <<>>,
     require |-> MCNothing]
MCOther ==
    [name |-> "lab", preset |-> "", issuer |-> "https://lab", audience |-> "broker",
     algorithms |-> <<"ES256">>, maxTokenLifetimeSeconds |-> {600},
     claims |-> <<"group">>, require |-> MCRequire("group")]

MCIssuerEntries ==
    {MCPreset, MCOther}
    \cup {[i EXCEPT !.name = n] : i \in {MCPreset, MCOther}, n \in IssuerName}
    \cup {[i EXCEPT !.preset = p, !.issuer = u] :
            i \in {MCPreset, MCOther}, p \in {"", "github", "other"}, u \in URL \cup {""}}
    \cup {[i EXCEPT !.audience = ""] : i \in {MCPreset, MCOther}}
    \cup {[i EXCEPT !.algorithms = a] : i \in {MCOther}, a \in {<<>>, <<"RS256", "none">>}}
    \cup {[i EXCEPT !.maxTokenLifetimeSeconds = l] :
            i \in {MCOther}, l \in {{}, {0}, {1}, {86400}, {86401}}}
    \cup {[i EXCEPT !.claims = c] :
            i \in {MCPreset, MCOther},
            c \in {<<>>, <<"group", "group">>, <<"aud">>, MCGitHubClaims}}
    \cup {[i EXCEPT !.require = r] :
            i \in {MCPreset, MCOther},
            r \in {MCNothing, MCRequire("aud"), [n \in {"group"} |-> {}],
                   [n \in {"group"} |-> {"", "acme"}]}}
-----------------------------------------------------------------------------
MCPolicy(name, issuer, contents, admin) ==
    [name |-> name, issuer |-> issuer, sound |-> TRUE, grant |-> MCGrant(contents, admin)]

MCGoodPolicies == <<MCPolicy("p", "github", "write", "absent"),
                    MCPolicy("q", "lab", "read", "read"),
                    MCPolicy("r", "github", "absent", "write")>>

MCPolicyLists ==
    {<<>>, MCGoodPolicies, <<MCPolicy("p", "github", "absent", "absent")>>,
     <<MCPolicy("p", "lab", "read", "admin")>>}
    \cup {[MCGoodPolicies EXCEPT ![2] = p] :
            p \in {MCPolicy("p", "lab", "read", "absent"),
                   MCPolicy("q", "", "read", "absent"),
                   MCPolicy("q", "Lab", "read", "absent"),
                   MCPolicy("q", "lab", "admin", "absent"),
                   [MCPolicy("q", "lab", "read", "absent") EXCEPT !.sound = FALSE]}}

MCDocument ==
    [legacy |-> FALSE, issuers |-> <<MCPreset, MCOther>>, clockSkewSeconds |-> {},
     appId |-> TRUE, keySources |-> {"env"}, serverURL |-> TRUE, maxRepositories |-> {},
     policies |-> MCGoodPolicies]

MCDocuments ==
    {[MCDocument EXCEPT !.issuers = <<i, j>>] : i \in {MCPreset}, j \in MCIssuerEntries}
    \cup {[MCDocument EXCEPT !.issuers = <<i, MCOther>>] : i \in MCIssuerEntries}
    \cup {[MCDocument EXCEPT !.issuers = <<>>], [MCDocument EXCEPT !.legacy = TRUE],
          [MCDocument EXCEPT !.appId = FALSE], [MCDocument EXCEPT !.serverURL = FALSE]}
    \cup {[MCDocument EXCEPT !.policies = p] : p \in MCPolicyLists}
    \cup {[MCDocument EXCEPT !.clockSkewSeconds = s] : s \in {{0}, {1}, {300}, {301}}}
    \cup {[MCDocument EXCEPT !.maxRepositories = s] : s \in {{0}, {1}}}
    \cup {[MCDocument EXCEPT !.keySources = s] : s \in SUBSET {"path", "env"}}

MCManifests == {NoPermissions, MCGrant("write", "read"), MCGrant("write", "write"),
                MCGrant("read", "admin")}
=============================================================================
