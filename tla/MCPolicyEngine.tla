--------------------------- MODULE MCPolicyEngine ----------------------------
EXTENDS PolicyEngine

MCCatalog == [k \in Key |-> Level]

MCMap(contents, issues) ==
    [k \in Key |-> IF k = "contents" THEN contents ELSE issues]

\* Two pairs of grants: one needs both policies to cover both keys and lists
\* the lower level of "contents" last; the other overlaps at equal levels.
MCGrants == {<<MCMap("write", Absent), MCMap("read", "read")>>,
             <<MCMap("read", Absent), MCMap("read", "write")>>}

\* Every outcome of two policies on every resource; a second issuer owns a
\* policy that always matches and grants everything.
MCPolicies(outcome1, outcome2, g) ==
    [iss \in Issuer |->
        IF iss = "actions"
        THEN <<[name |-> "p1", outcome |-> outcome1, grant |-> g[1]],
               [name |-> "p2", outcome |-> outcome2, grant |-> g[2]]>>
        ELSE <<[name |-> "p3", outcome |-> [cr \in Caller \X Resource |-> "true"],
                grant |-> MCMap("admin", "admin")]>>]

MCOutcomes == [Caller \X Resource -> Outcome]

MCPolicySets ==
    {MCPolicies(outcome1, outcome2, g) :
        outcome1 \in MCOutcomes, outcome2 \in MCOutcomes, g \in MCGrants}

\* Every list up to the cap, with duplicates, and the lists that exceed it by
\* one only because of a duplicate.  The required scopes are ones decodeScope
\* can return, so never empty.
MCRequired == {MCMap(c, s) : c, s \in {"read", "write", Absent}} \ {NoPermissions}

MCRequests ==
    [issuer : Issuer, caller : Caller,
     resources : UNION {[1 .. n -> Resource] : n \in 1 .. MaxRepositories}
                   \cup {[n \in 1 .. MaxRepositories + 1 |-> r] : r \in Resource},
     required : MCRequired]
==============================================================================
