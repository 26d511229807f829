----------------------------- MODULE MCConditions -----------------------------
(* Callers, resources and operands such that owners begin alike and the       *)
(* pieces of a chain can be put together in misleading ways.                  *)
EXTENDS Comparisons

MCKinds == {[preset |-> TRUE, require |-> FALSE], [preset |-> TRUE, require |-> TRUE],
            [preset |-> FALSE, require |-> TRUE]}

MCClaims == {"repository", "repository_owner", "environment"}

\* The environment of a run is whatever the repository's admins call it.
MCCaller(owner, environment) ==
    [owner |-> owner, name |-> <<"n">>,
     claims |-> [c \in MCClaims |-> CASE c = "repository" -> owner \o <<"/", "n">>
                                      [] c = "repository_owner" -> owner
                                      [] c = "environment" -> environment]]

MCCallers == {MCCaller(<<"a">>, <<>>), MCCaller(<<"x">>, <<"y", "/", "n">>)}

MCRepo(owner) == [prefix |-> "repo:", owner |-> owner, name |-> <<"n">>]
MCOrg(owner) == [prefix |-> "org:", owner |-> owner, name |-> <<>>]

MCResources == {MCRepo(<<"a">>), MCRepo(<<"x">>), MCRepo(<<"x", "y">>), MCOrg(<<"x">>),
                [prefix |-> "enterprise:", owner |-> <<"x">>, name |-> <<>>]}

MCText(t) == [claim |-> "", text |-> t]
MCClaim(c) == [claim |-> c, text |-> <<>>]

MCChains ==
    {<<MCText(<<"repo:", "a", "/", "n">>)>>,
     <<MCText(<<"a", "/", "n">>)>>,
     <<MCClaim("repository")>>,
     <<MCClaim("environment")>>,
     <<MCText(<<"repo:">>), MCClaim("repository")>>,
     <<MCText(<<"repo:">>), MCClaim("repository_owner"), MCText(<<"/", "n">>)>>,
     <<MCText(<<"repo:">>), MCClaim("repository_owner"), MCText(<<"y", "/", "n">>)>>,
     <<MCText(<<"repo:">>), MCClaim("repository_owner"), MCClaim("environment")>>,
     <<MCText(<<"org:">>), MCClaim("repository_owner")>>}

MCLists ==
    {<<>>,
     <<<<MCText(<<"repo:", "a", "/", "n">>)>>>>,
     <<<<MCText(<<"repo:", "a", "/", "n">>)>>, <<MCText(<<"repo:">>), MCClaim("repository")>>>>}

MCDeclared == [iss \in MCKinds |-> IF iss.preset THEN MCClaims ELSE {"repository", "environment"}]

\* Constant expressions, and one that looks at the resource.
MCOther == {[env \in CallerAndResource |-> t] : t \in {"true", "error"}}
           \cup {[env \in CallerAndResource |->
                    IF env[2] = MCRepo(<<"a">>) THEN "false" ELSE "true"]}

MCNameSymbols == {"a", "n", "x", "y"}

MCIdentity == {"repository", "repository_owner"}
MCNamed == NamedIn(Chains)
MCListed == NamedIn(LiteralChains)
=============================================================================
