------------------------------ MODULE Comparisons ------------------------------
(***************************************************************************)
(* The leaves of conditions: == and in comparisons of the requested        *)
(* resource and of claims (boundsResource, boundsCaller, callerAnchored,   *)
(* comparedToLiteral of engine.go), and what they say of a caller and a    *)
(* resource.                                                               *)
(*                                                                         *)
(* A string is a sequence of symbols; "repo:", "org:", "enterprise:" and   *)
(* "/" count as one symbol each and are in no owner's or repository's name.*)
(***************************************************************************)
EXTENDS Conditions, SequencesExt

CONSTANTS
    Resource,       \* requested resources
    Caller,         \* callers, by their claims
    IdentityClaim,  \* config.GitHubIdentityClaims
    Declared,       \* for each issuer kind, the claims it declares
    Chain,          \* operands formed with +
    ListOf,         \* lists of such operands
    OtherValue,     \* values that other expressions may have
    NameSymbol,     \* symbols of which names consist
    ClaimName       \* claims a token may have

Prefix == {"repo:", "org:", "enterprise:"}
Symbol == Prefix \cup {"/"} \cup NameSymbol

Name == Seq(NameSymbol)
Text == Seq(Symbol)

\* A part of a chain: a literal, or a claim and no text.
Piece == [claim : ClaimName \cup {""}, text : Text]

ASSUME SymbolAssumption == NameSymbol \cap (Prefix \cup {"/"}) = {}

ASSUME TextsAssumption ==
    /\ Resource \subseteq [prefix : Prefix, owner : Name, name : Name]
    /\ Caller \subseteq [owner : Name, name : Name, claims : [ClaimName -> Text]]
    /\ Chain \subseteq Seq(Piece)
    /\ ListOf \subseteq Seq(Chain)
    /\ "" \notin ClaimName

ResourceString(r) ==
    <<r.prefix>> \o r.owner \o (IF r.prefix = "repo:" THEN <<"/">> \o r.name ELSE <<>>)

(* A caller has the owner and the name of its repository and may lack any  *)
(* claim; GitHub sets repository and repository_owner from them.           *)
NoClaim == <<>>

ASSUME CallerAssumption ==
    \A c \in Caller :
        /\ c.claims["repository"] \in {NoClaim, c.owner \o <<"/">> \o c.name}
        /\ c.claims["repository_owner"] \in {NoClaim, c.owner}

\* What identity claims name is never spelled like a resource.
ASSUME IdentityAssumption ==
    \A c \in Caller, name \in IdentityClaim, r \in Resource :
        c.claims[name] # ResourceString(r)

\* What Conditions calls Environment.
CallerAndResource == Caller \X Resource
-----------------------------------------------------------------------------
(* Operands.  A piece of a chain is a literal or a claim.                  *)

Literal(text) == [claim |-> "", text |-> text]
Claim(name) == [claim |-> name, text |-> <<>>]

RequestResource == [kind |-> "resource", chains |-> <<>>]
RequestResources == [kind |-> "resources", chains |-> <<>>]
ChainOperand == [kind : {"chain"}, chains : {<<ch>> : ch \in Chain}]
ListOperand == [kind : {"list"}, chains : ListOf]
Operand == {RequestResource, RequestResources} \cup ChainOperand \cup ListOperand

PiecesOf(o) == UNION {{ch[n] : n \in DOMAIN ch} : ch \in ToSet(o.chains)}
ClaimsIn(o) == {p.claim : p \in PiecesOf(o)} \ {""}

ReadsCaller(o) == ClaimsIn(o) # {}
ReadsRequest(o) == o.kind \in {"resource", "resources"}
IsResourceRef(o) == ReadsRequest(o)
IsList(o) == o.kind \in {"resources", "list"}

IsStringLiteral(ch) == Len(ch) = 1 /\ ch[1].claim = ""
CallerClaim(o) ==
    IF o.kind = "chain" /\ Len(o.chains[1]) = 1 THEN o.chains[1][1].claim ELSE ""
-----------------------------------------------------------------------------
(* The values of operands.                                                 *)

PieceText(p, caller) == IF p.claim = "" THEN p.text ELSE caller.claims[p.claim]

ChainText(ch, caller) == FlattenSeq([n \in DOMAIN ch |-> PieceText(ch[n], caller)])

\* Reading a claim the token lacks is an error.
Fails(o, env) == \E name \in ClaimsIn(o) : env[1].claims[name] = NoClaim

\* The string, or the strings of a list.
Texts(o, env) ==
    IF ReadsRequest(o)
    THEN <<ResourceString(env[2])>>
    ELSE [n \in DOMAIN o.chains |-> ChainText(o.chains[n], env[1])]

Holds(cmp, env) ==
    IF cmp.op = "=="
    THEN Texts(cmp.left, env) = Texts(cmp.right, env)
    ELSE Texts(cmp.left, env)[1] \in ToSet(Texts(cmp.right, env))

\* Comparisons that the type checker lets through.
Comparison ==
    {cmp \in [op : {"==", "in"}, left : Operand, right : Operand] :
        IF cmp.op = "=="
        THEN IsList(cmp.left) = IsList(cmp.right)
        ELSE ~IsList(cmp.left) /\ IsList(cmp.right)}

ComparisonValue(cmp) ==
    [env \in CallerAndResource |->
        IF Fails(cmp.left, env) \/ Fails(cmp.right, env) THEN "error"
        ELSE IF Holds(cmp, env) THEN "true" ELSE "false"]
-----------------------------------------------------------------------------
(* What the check sees in a comparison.                                    *)

LiteralAt(ch, n) == IF n =< Len(ch) /\ ch[n].claim = "" THEN ch[n].text ELSE <<>>
ClaimAt(ch, n) == IF n =< Len(ch) THEN ch[n].claim ELSE ""

\* (Seeded error: anything may follow the owner.)
AnchoredLoosely(ch) ==
    \/ LiteralAt(ch, 1) = <<"repo:">> /\ ClaimAt(ch, 2) \in {"repository", "repository_owner"}
    \/ LiteralAt(ch, 1) = <<"org:">> /\ ClaimAt(ch, 2) = "repository_owner" /\ Len(ch) = 2

CallerAnchored(ch) ==
    \/ LiteralAt(ch, 1) = <<"repo:">> /\ ClaimAt(ch, 2) = "repository"
    \/ /\ LiteralAt(ch, 1) = <<"repo:">> /\ ClaimAt(ch, 2) = "repository_owner"
       /\ LiteralAt(ch, 3) # <<>> /\ LiteralAt(ch, 3)[1] = "/"
    \/ LiteralAt(ch, 1) = <<"org:">> /\ ClaimAt(ch, 2) = "repository_owner" /\ Len(ch) = 2

BoundsResource(ref, other) == IsResourceRef(ref) /\ ~ReadsRequest(other)

BoundsCaller(ref, other, identity) ==
    IF CallerClaim(ref) # ""
    THEN CallerClaim(ref) \in identity /\ ~ReadsCaller(other)
    ELSE /\ IsResourceRef(ref)
         /\ ~IsResourceRef(other)
         /\ \A ch \in ToSet(other.chains) : CallerAnchored(ch)

(* Either operand may be what is bound.                                    *)
Sides(cmp) == {<<cmp.left, cmp.right>>, <<cmp.right, cmp.left>>}

ResourceIsBound(cmp) == \E s \in Sides(cmp) : BoundsResource(s[1], s[2])

CallerIsBoundBy(cmp, identity) == \E s \in Sides(cmp) : BoundsCaller(s[1], s[2], identity)

\* (Seeded error: any operand that does not read request is as good as a literal.)
ComparedToAnything(cmp) == ResourceIsBound(cmp)

ComparedToLiteral(cmp) ==
    IF cmp.op = "=="
    THEN \E l, r \in {cmp.left, cmp.right} :
            IsResourceRef(l) /\ r.kind = "chain" /\ IsStringLiteral(r.chains[1])
    ELSE /\ IsResourceRef(cmp.left)
         /\ cmp.right.kind = "list"
         /\ \A ch \in ToSet(cmp.right.chains) : IsStringLiteral(ch)

Identity(iss) == IF iss.preset THEN IdentityClaim ELSE {}

Compare(iss, cmp) ==
    [allowed |->
        /\ ClaimsIn(cmp.left) \cup ClaimsIn(cmp.right) \subseteq Declared[iss]
        /\ \/ iss.preset
           \/ ~ReadsRequest(cmp.left) /\ ~ReadsRequest(cmp.right)
           \/ ComparedToLiteral(cmp),
     bindsResource |-> ResourceIsBound(cmp),
     bindsCaller |-> CallerIsBoundBy(cmp, Identity(iss)),
     value |-> ComparisonValue(cmp)]

(* Any other expression does not constrain; it breaks a rule (a forbidden  *)
(* call or ordering, a shadowed variable, caller read otherwise) or not.   *)
Opaque == [allowed : BOOLEAN, bindsResource : {FALSE}, bindsCaller : {FALSE},
           value : OtherValue]

ComparisonLeaves ==
    [iss \in IssuerKind |-> {Compare(iss, cmp) : cmp \in Comparison} \cup Opaque]
-----------------------------------------------------------------------------
(* What the operator has written into some comparison.                     *)

Chains == UNION {ToSet(o.chains) : o \in Operand}
LiteralChains == {ch \in Chains : \A n \in DOMAIN ch : ch[n].claim = ""}

NamedIn(chains) ==
    {env \in CallerAndResource :
        \E ch \in chains : ResourceString(env[2]) = ChainText(ch, env[1])}

\* One of the caller's identity claims is written down.
Known(caller) ==
    \E name \in IdentityClaim :
        \E ch \in LiteralChains : caller.claims[name] = ChainText(ch, caller)

OwnersAgree(caller, r) == r.prefix # "enterprise:" /\ r.owner = caller.owner

KnownOrAtHome ==
    {env \in CallerAndResource : Known(env[1]) \/ OwnersAgree(env[1], env[2])}

(* Conditions is about these expressions and environments.                 *)
ASSUME ComparisonsAssumption ==
    /\ Environment = CallerAndResource
    /\ Leaves = ComparisonLeaves
    /\ Named = NamedIn(Chains)
    /\ Listed = NamedIn(LiteralChains)
    /\ Related = KnownOrAtHome
=============================================================================
