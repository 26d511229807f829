-------------------------- MODULE MCTokenVerification --------------------------
(* Two issuers that differ in every respect, tokens that are good but for    *)
(* one or two dates, tokens that are in good time but bad otherwise, and     *)
(* tokens that name their issuer or audience twice, in two spellings.        *)
EXTENDS TokenVerification

MCNothing == [name \in ClaimName |-> {}]

MCConfig == [i \in Issuer |->
    IF i = "github"
    THEN [url |-> "hub", audience |-> "broker", algorithms |-> {"RS256"},
          maxTokenLifetime |-> 2, claims |-> {"repository", "protected"},
          require |-> [MCNothing EXCEPT !["repository"] = {"app"}]]
    ELSE [url |-> "lab", audience |-> "other", algorithms |-> {"RS256", "ES256"},
          maxTokenLifetime |-> 1, claims |-> {"repository"},
          require |-> [MCNothing EXCEPT !["protected"] = {"true"}]]]
-----------------------------------------------------------------------------
MCDate(half) == [form |-> "number", sec |-> half \div 2, late |-> half % 2 = 1]
MCNoDate == [form |-> "absent", sec |-> 0, late |-> FALSE]
MCOddDate == [form |-> "other", sec |-> 0, late |-> FALSE]

MCString(text) == [form |-> "string", text |-> text]
MCTrue == [form |-> "boolean", text |-> "true"]
MCAbsent == [form |-> "absent", text |-> ""]
MCLong == [form |-> "long", text |-> ""]
MCNumber == [form |-> "other", text |-> ""]

MCClaims ==
    [name \in ClaimName |-> IF name = "protected" THEN MCTrue ELSE MCString("app")]

MCToken ==
    [sized |-> TRUE, alg |-> "RS256", signer |-> {"github"}, iss |-> "hub",
     aud |-> [form |-> "string", values |-> <<"broker">>],
     folded |-> [iss |-> "hub", aud |-> <<"broker">>],
     exp |-> MCDate(6), iat |-> MCDate(3), nbf |-> MCNoDate, claims |-> MCClaims]

\* Lifetimes of every kind around the limit, and dates around zero.
MCDatedTokens ==
    {[MCToken EXCEPT !.exp = MCDate(e), !.iat = MCDate(i)] :
        e \in 2 .. 9, i \in -1 .. 5}
    \cup {[MCToken EXCEPT !.nbf = d] :
             d \in {MCDate(n) : n \in -1 .. 8} \cup {MCOddDate}}
    \cup {[MCToken EXCEPT !.exp = d] : d \in {MCNoDate, MCOddDate, MCDate(101)}}
    \cup {[MCToken EXCEPT !.iat = d] : d \in {MCNoDate, MCOddDate}}

MCAudiences ==
    {[form |-> f, values |-> v] :
        f \in {"string", "list"}, v \in {<<"broker">>, <<"other">>}}
    \cup {[form |-> "list", values |-> v] :
             v \in {<<>>, <<"broker", "other">>, <<"broker", "broker">>}}
    \cup {[form |-> "other", values |-> <<>>]}

MCRawClaims ==
    {MCString(t) : t \in Text} \cup {MCTrue, MCAbsent, MCLong, MCNumber}

\* Both readings agree.
MCPlain(t, url, aud) ==
    [t EXCEPT !.iss = url, !.aud = aud,
              !.folded = [iss |-> url, aud |-> aud.values]]

\* A payload good for gitlab in every other respect.
MCLabToken ==
    [MCPlain(MCToken, "lab", [form |-> "string", values |-> <<"other">>])
        EXCEPT !.signer = {"gitlab"}, !.exp = MCDate(5)]

MCTwiceNamed ==
    {[t EXCEPT !.iss = u, !.folded.iss = v] :
        t \in {MCToken, MCLabToken}, u \in URL, v \in URL}
    \cup {[MCToken EXCEPT !.aud = d, !.folded.aud = v] :
             d \in MCAudiences,
             v \in {<<>>, <<"broker">>, <<"other">>, <<"broker", "other">>}}

MCStrangeTokens ==
    {MCPlain([MCToken EXCEPT !.alg = a, !.signer = s], u, MCToken.aud) :
        a \in Algorithm, s \in SUBSET Issuer, u \in URL}
    \cup {MCPlain([t EXCEPT !.signer = {i}], u, d) :
             t \in {MCToken, MCLabToken}, i \in Issuer, u \in {"hub", "lab"},
             d \in MCAudiences}
    \cup {[MCToken EXCEPT !.claims[n] = r] : n \in ClaimName, r \in MCRawClaims}
    \cup {[MCToken EXCEPT !.sized = FALSE]}

MCTokens == MCDatedTokens \cup MCStrangeTokens \cup MCTwiceNamed
=============================================================================
