--------------------------- MODULE MCTokenExchange ---------------------------
(* Small worlds for the two ways of checking the handlers: one request with *)
(* every kind of form, and requests that overlap.                           *)
EXTENDS TokenExchangeProperties

MCCatalog == [k \in Key |-> CASE k = "contents" -> {"read", "write"}
                              [] k = "metadata" -> {"read"}
                              [] OTHER -> {}]

MCMap(contents, metadata, retired) ==
    [k \in Key |-> CASE k = "contents" -> contents
                     [] k = "metadata" -> metadata
                     [] OTHER -> retired]

\* An installation may have less than is asked for, and may still have a key
\* or a level that the catalog does not know.
MCCeilings == {MCMap("write", "read", Absent), MCMap("read", Unknown, "read")}
-----------------------------------------------------------------------------
MCResource == CanonicalString
MCRepos(names) == {<<"repo", "acme", n>> : n \in names}

MCPolicy(name, matching, failing, grant) ==
    [name |-> name,
     outcome |-> [cr \in Caller \X Resource |->
                     IF cr[2] \in failing THEN "error"
                     ELSE IF cr[2] \in matching THEN "true" ELSE "false"],
     grant |-> grant]

MCContents(level) == MCMap(level, Absent, Absent)

\* For the issuer "actions": one policy that lets only app be written and a
\* second that adds metadata and may fail on lib; for "gitlab": only lib.
MCPolicySet(failing) ==
    [iss \in Issuer |->
        IF iss = "actions"
        THEN <<MCPolicy("write app", MCRepos({"app"}), {}, MCContents("write")),
               MCPolicy("read all", Resource, failing, MCMap("read", "read", Absent))>>
        ELSE <<MCPolicy("read lib", MCRepos({"lib"}), {}, MCContents("read"))>>]

MCPolicySets == {MCPolicySet({}), MCPolicySet(MCRepos({"lib"}))}

MCIdentityOf == [t \in {"actions token", "gitlab token"} |->
    [issuer |-> IF t = "actions token" THEN "actions" ELSE "gitlab",
     caller |-> "workflow"]]
-----------------------------------------------------------------------------
MCString(prefix, head, tail) == [prefix |-> prefix, head |-> head, tail |-> tail]
MCApp == MCString(NoPrefix, "acme", "app")
MCLib == MCString("repo", "acme", "lib")
MCOrg == MCString("org", "acme", NoSlash)
MCEnterprise == MCString("enterprise", "acme", NoSlash)
MCElsewhere == MCString("repo", "zoo", "app")

MCToken(key, level) == [key |-> key, level |-> level]
MCRead == MCToken("contents", "read")
MCWrite == MCToken("contents", "write")
MCMetadata == MCToken("metadata", "read")

MCForm(resources, scope) ==
    [defects |-> {}, token |-> "actions token", resources |-> resources, scope |-> scope]

\* The target lists ParseAll accepts and those it refuses; among the accepted
\* ones a duplicate and one that exceeds the cap.
MCTargets == {<<MCApp>>, <<MCApp, MCLib>>, <<MCApp, MCApp>>, <<MCOrg>>,
              <<MCEnterprise>>, <<MCApp, MCLib, MCApp>>,
              <<>>, <<MCApp, MCElsewhere>>, <<MCApp, MCOrg>>, <<MCOrg, MCOrg>>,
              <<MCString("org", "acme", "app")>>, <<MCString("repo", "acme", "?")>>}

MCScopes == {<<MCRead>>, <<MCWrite>>, <<MCRead, MCWrite>>, <<MCWrite, MCRead>>,
             <<MCMetadata, MCRead>>,
             <<>>, <<MCRead, MCToken("contents", Absent)>>, <<MCToken("retired", "read")>>}

MCDefects == {{"body"}, {"other grant_type"}, {"no subject_token", "other grant_type"}}

\* Every target with every scope, then other tokens and defective forms.
MCAllForms ==
    {MCForm(rs, sc) : rs \in MCTargets, sc \in MCScopes}
        \cup {[MCForm(<<MCLib>>, <<MCRead>>) EXCEPT !.token = t] : t \in SubjectToken}
        \cup {[MCForm(<<MCApp>>, <<MCRead>>) EXCEPT !.token = "gitlab token"]}
        \cup {[MCForm(<<MCApp>>, <<MCRead>>) EXCEPT !.defects = d] : d \in MCDefects}

\* Requests that overlap: allowed, denied by policy for the other repository,
\* and allowed for a whole organization.
MCFewForms == {MCForm(<<MCApp>>, <<MCWrite>>),
               MCForm(<<MCApp, MCLib>>, <<MCWrite>>),
               MCForm(<<MCOrg>>, <<MCMetadata, MCRead>>)}

MCOnePolicySet == {MCPolicySet({})}
==============================================================================
