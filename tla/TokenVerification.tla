-------------------------- MODULE TokenVerification --------------------------
(***************************************************************************)
(* Authenticator.Authenticate: one token, presented again and again while  *)
(* time goes by.  A verification reads the clock once, after the signature *)
(* has been checked, which may have taken a fetch of keys.                 *)
(*                                                                         *)
(* Times are in half seconds, so that a date may lie between two seconds.  *)
(***************************************************************************)
EXTENDS Integers, Sequences

CONSTANTS
    Issuer,         \* names of the configured issuers
    URL,            \* issuer URLs
    Algorithm,      \* signing algorithms
    Audience,       \* audiences
    ClaimName,      \* names of string claims, "sub" and "jti" among them
    Text,           \* values of string claims
    Config,         \* config.OIDCIssuer, by name
    Skew,           \* clock skew, in seconds
    MaxUnixSeconds, \* the largest date
    Tokens,         \* the tokens to consider
    Horizon         \* bound on the clock, in half seconds

IssuerConfig == [url : URL, audience : Audience, algorithms : SUBSET Algorithm,
                 maxTokenLifetime : Nat, claims : SUBSET ClaimName,
                 require : [ClaimName -> SUBSET Text]]

\* An issuer requires nothing of a claim that it has no values for.
Required(c) == {name \in ClaimName : c.require[name] # {}}

ASSUME ConfigAssumption ==
    /\ {"sub", "jti"} \subseteq ClaimName
    /\ Config \in [Issuer -> IssuerConfig]
    /\ \A i, j \in Issuer : Config[i].url = Config[j].url => i = j
    /\ Skew \in Nat /\ MaxUnixSeconds \in Nat /\ Horizon \in Nat
-----------------------------------------------------------------------------
(* Tokens as their payload and what signed them.  The payload is read      *)
(* twice.  encoding/json, for routing and in go-oidc, matches the names of *)
(* members in any case and takes the last; identity reads a map and finds  *)
(* "iss" and "aud" only under these very names.  Of other members in a     *)
(* second spelling go-oidc can only make an error.                         *)

\* A NumericDate claim; late: half a second past sec.
Date == [form : {"number", "other", "absent"}, sec : Int, late : BOOLEAN]

Moment(d) == 2 * d.sec + (IF d.late THEN 1 ELSE 0)

\* "long" is a string over maxClaimBytes, "other" neither string nor boolean;
\* a boolean's text is how it is rendered.
RawClaim == [form : {"string", "boolean", "long", "other", "absent"}, text : Text]

AudienceClaim == [form : {"string", "list", "other"}, values : Seq(Audience)]

Token == [sized  : BOOLEAN,              \* neither empty nor over maxTokenBytes
          alg    : Algorithm,
          signer : SUBSET Issuer,        \* the issuers whose keys verify it
          iss    : URL,                  \* a missing one is nobody's URL
          aud    : AudienceClaim,
          folded : [iss : URL, aud : Seq(Audience)],  \* as encoding/json reads
          exp    : Date, iat : Date, nbf : Date,
          claims : [ClaimName -> RawClaim]]

ASSUME TokensAssumption == Tokens \subseteq Token
-----------------------------------------------------------------------------
(* Before the clock is read.                                               *)

Parses(t) == t.sized /\ \E i \in Issuer : t.alg \in Config[i].algorithms

Routed(t) == {i \in Issuer : Config[i].url = t.folded.iss}

\* oidc.IDTokenVerifier.Verify without its expiry check; it reads sub as a
\* string, and the iss it looks at is the one routed by.
Verifies(t, i) ==
    /\ t.claims["sub"].form \in {"string", "long", "absent"}
    /\ t.alg \in Config[i].algorithms
    /\ i \in t.signer
    /\ Config[i].audience \in {t.folded.aud[n] : n \in DOMAIN t.folded.aud}
-----------------------------------------------------------------------------
(* identity.                                                               *)

\* (Seeded error: the iss that chose the verifier is compared once more.)
IssuerAsRouted(t, c) == t.folded.iss = c.url

IssuerIs(t, c) == t.iss = c.url

AudienceIs(t, c) ==
    /\ t.aud.form \in {"string", "list"}
    /\ t.aud.values = <<c.audience>>

IsDate(d) ==
    /\ d.form = "number"
    /\ 0 =< Moment(d) /\ Moment(d) =< 2 * MaxUnixSeconds

(* Dates lose their fraction; so does the lifetime, twice.                 *)
\* (Seeded error: a lifetime equal to the limit is refused.)
LivesShorter(t, c) ==
    t.exp.sec - t.iat.sec \in 0 .. c.maxTokenLifetime - 1

\* (Seeded error: the skew is allowed for in the lifetime as well.)
LivesWithSkew(t, c) ==
    t.exp.sec - t.iat.sec \in 0 .. c.maxTokenLifetime + Skew

LivesShortly(t, c) ==
    t.exp.sec - t.iat.sec \in 0 .. c.maxTokenLifetime

InForce(t, now) ==
    /\ now =< 2 * (t.exp.sec + Skew)
    /\ now >= 2 * (t.iat.sec - Skew)
    /\ t.nbf.form # "absent" => IsDate(t.nbf) /\ now >= 2 * (t.nbf.sec - Skew)

\* stringClaim: an absent claim is readable and has no value.
Readable(t, name) == t.claims[name].form \in {"string", "boolean", "absent"}
Has(t, name) == t.claims[name].form \in {"string", "boolean"}

ClaimsPass(t, c) ==
    /\ \A name \in {"sub", "jti"} \cup c.claims \cup Required(c) : Readable(t, name)
    /\ Has(t, "sub") /\ t.claims["sub"].text # ""
    /\ \A name \in Required(c) :
          Has(t, name) /\ t.claims[name].text \in c.require[name]

Passes(t, c, now) ==
    /\ IssuerIs(t, c)
    /\ AudienceIs(t, c)
    /\ IsDate(t.exp) /\ IsDate(t.iat)
    /\ LivesShortly(t, c)
    /\ InForce(t, now)
    /\ ClaimsPass(t, c)

IdentityOf(t, i) ==
    [issuer |-> i,
     subject |-> t.claims["sub"].text,
     claims |-> {<<name, t.claims[name].text>> :
                    name \in {n \in Config[i].claims : Has(t, n)}}]
-----------------------------------------------------------------------------
VARIABLES
    now,      \* the clock
    token,    \* the token, fixed by its issuer or by whoever forged it
    pc,       \* "idle", or "verifying" its signature
    begun,    \* when the verification under way was begun
    verdict,  \* how the last one ended: "none", "accepted", "refused" for
              \* what the token says, or "unverified"
    identity, \* of the last acceptance
    first     \* history: when the token was first accepted, once it was

vars == <<now, token, pc, begun, verdict, identity, first>>

Never == -1
Nobody == [issuer |-> "", subject |-> "", claims |-> {}]

Init ==
    /\ now = 0
    /\ token \in Tokens
    /\ pc = "idle"
    /\ begun = 0
    /\ verdict = "none"
    /\ identity = Nobody
    /\ first = Never

\* (Seeded error: a token of an unknown issuer goes on to verification.)
PresentUnrouted ==
    /\ pc = "idle"
    /\ IF Parses(token)
       THEN pc' = "verifying" /\ verdict' = "none"
       ELSE pc' = "idle" /\ verdict' = "unverified"
    /\ begun' = now
    /\ UNCHANGED <<now, token, identity, first>>

Present ==
    /\ pc = "idle"
    /\ IF Parses(token) /\ Routed(token) # {}
       THEN pc' = "verifying" /\ verdict' = "none"
       ELSE pc' = "idle" /\ verdict' = "unverified"
    /\ begun' = now
    /\ UNCHANGED <<now, token, identity, first>>

\* The signature is not good, or the keys cannot be had.
Unverified ==
    /\ pc = "verifying"
    /\ pc' = "idle"
    /\ verdict' = "unverified"
    /\ UNCHANGED <<now, token, begun, identity, first>>

\* (Seeded error: the clock is read before the signature is checked.)
PassedEarly(t, c) == Passes(t, c, begun)

PassesNow(t, c) == Passes(t, c, now)

Conclude ==
    /\ pc = "verifying"
    /\ pc' = "idle"
    /\ \E i \in Routed(token) :
          /\ Verifies(token, i)
          /\ IF PassesNow(token, Config[i])
             THEN /\ verdict' = "accepted"
                  /\ identity' = IdentityOf(token, i)
                  /\ first' = IF first = Never THEN now ELSE first
             ELSE verdict' = "refused" /\ UNCHANGED <<identity, first>>
    /\ UNCHANGED <<now, token, begun>>

Tick ==
    /\ now < Horizon
    /\ now' = now + 1
    /\ verdict' = "none"
    /\ UNCHANGED <<token, pc, begun, identity, first>>

Next == Present \/ Unverified \/ Conclude \/ Tick

Spec == Init /\ [][Next]_vars
-----------------------------------------------------------------------------
(* Types.                                                                  *)
TypeOK ==
    /\ now \in 0 .. Horizon
    /\ token \in Tokens
    /\ pc \in {"idle", "verifying"}
    /\ begun \in 0 .. now
    /\ verdict \in {"none", "accepted", "refused", "unverified"}
    /\ first \in {Never} \cup 0 .. now
    /\ pc = "verifying" => Parses(token) /\ Routed(token) # {} /\ verdict = "none"
    /\ verdict = "accepted" => first # Never /\ pc = "idle"

(* However long the signature took to check, an accepted token is in force *)
(* when it is accepted: not past exp, and not a second before iat or nbf,  *)
(* beyond the skew (the checks of identity on truncated dates).            *)
AcceptedInForce ==
    verdict = "accepted" =>
        /\ now =< Moment(token.exp) + 2 * Skew
        /\ now > Moment(token.iat) - 2 * (Skew + 1)
        /\ token.nbf.form # "absent" => now > Moment(token.nbf) - 2 * (Skew + 1)

(* One token is accepted for no longer than the configured lifetime and    *)
(* the skew at both ends, whatever dates it carries (config.go: the limits *)
(* "stop skew from defeating the lifetime cap"); what truncation adds to   *)
(* the lifetime is less than a second.                                     *)
WindowIsBounded ==
    verdict = "accepted" =>
        LET max == Config[identity.issuer].maxTokenLifetime
        IN  /\ now - first =< 2 * (max + 2 * Skew)
            /\ Moment(token.exp) - Moment(token.iat) < 2 * (max + 1)

(* An identity is that of one issuer throughout, whichever way the payload *)
(* is read: its keys, its URL, one of its algorithms, its audience and no  *)
(* other, the claims it requires as strings or booleans; and it shows only *)
(* claims the issuer declares.  Routing and go-oidc do not secure this for *)
(* a payload that says "iss" or "aud" twice, in two spellings.             *)
IdentityIsVouchedFor ==
    first # Never =>
        LET i == identity.issuer
            c == Config[i]
        IN  /\ i \in token.signer
            /\ token.iss = c.url /\ token.folded.iss = c.url
            /\ token.alg \in c.algorithms
            /\ token.aud.values = <<c.audience>>
            /\ c.audience \in {token.folded.aud[n] : n \in DOMAIN token.folded.aud}
            /\ \A name \in Required(c) :
                  /\ token.claims[name].form \in {"string", "boolean"}
                  /\ token.claims[name].text \in c.require[name]
            /\ \A shown \in identity.claims :
                  /\ shown[1] \in c.claims
                  /\ shown[2] = token.claims[shown[1]].text
            /\ identity.subject # ""

(* A good token, judged by its real dates with a second to spare at exp.   *)
GoodDates(t, c) ==
    /\ \A d \in {t.exp, t.iat} : d.form = "number" /\ Moment(d) \in 0 .. 2 * MaxUnixSeconds
    /\ Moment(t.exp) - Moment(t.iat) \in 0 .. 2 * c.maxTokenLifetime
    /\ now >= Moment(t.iat) - 2 * Skew
    /\ now < Moment(t.exp) + 2 * (Skew - 1)
    /\ t.nbf.form # "absent" =>
          /\ t.nbf.form = "number" /\ Moment(t.nbf) \in 0 .. 2 * MaxUnixSeconds
          /\ now >= Moment(t.nbf) - 2 * Skew

GoodClaims(t, c) ==
    /\ t.iss = c.url
    /\ t.aud.form # "other" /\ t.aud.values = <<c.audience>>
    /\ \A name \in ClaimName : t.claims[name].form \in {"string", "boolean", "absent"}
    /\ t.claims["sub"].form = "string" /\ t.claims["sub"].text # ""
    /\ \A name \in Required(c) :
          /\ t.claims[name].form # "absent"
          /\ t.claims[name].text \in c.require[name]

(* What the truncation of three dates refuses is at most a second: a token *)
(* that is good by its real dates is accepted once its signature is.       *)
RefusalsAreJustified ==
    verdict = "refused" =>
        \E i \in Routed(token) :
            ~GoodDates(token, Config[i]) \/ ~GoodClaims(token, Config[i])
=============================================================================
