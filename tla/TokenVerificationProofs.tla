----------------------- MODULE TokenVerificationProofs -----------------------
(***************************************************************************)
(* The properties of TokenVerification for any issuers, tokens and times.  *)
(***************************************************************************)
EXTENDS TokenVerification, TLAPS

(* An identity was taken from a token that passed all that does not depend *)
(* on the clock, and at a time not before its iat.                         *)
Founded ==
    first # Never =>
        \E i \in Routed(token) :
            /\ Verifies(token, i)
            /\ IssuerIs(token, Config[i])
            /\ AudienceIs(token, Config[i])
            /\ LivesShortly(token, Config[i])
            /\ ClaimsPass(token, Config[i])
            /\ identity = IdentityOf(token, i)
            /\ first >= 2 * (token.iat.sec - Skew)

VerdictIsCurrent ==
    /\ verdict = "accepted" => InForce(token, now)
    /\ verdict = "refused" => \E i \in Routed(token) :
          Verifies(token, i) /\ ~Passes(token, Config[i], now)

IInv == TypeOK /\ Founded /\ VerdictIsCurrent
-----------------------------------------------------------------------------
LEMMA InitInvariant == Init => IInv
BY ConfigAssumption DEF Init, IInv, TypeOK, Founded, VerdictIsCurrent, Never

LEMMA ConcludeKeeps == ASSUME IInv, Conclude PROVE IInv'
<1> USE DEF IInv
<1>0. PICK i \in Routed(token) :
         /\ Verifies(token, i)
         /\ IF Passes(token, Config[i], now)
            THEN /\ verdict' = "accepted"
                 /\ identity' = IdentityOf(token, i)
                 /\ first' = IF first = Never THEN now ELSE first
            ELSE verdict' = "refused" /\ UNCHANGED <<identity, first>>
  BY DEF Conclude, PassesNow
<1>1. pc = "verifying" /\ pc' = "idle" /\ UNCHANGED <<now, token, begun>>
  BY DEF Conclude
<1>i. i \in Issuer /\ Config[i].url = token.folded.iss
  BY DEF Routed
<1>n. now \in Nat /\ (first = Never \/ first \in 0 .. now) /\ Never \notin 0 .. now
  BY ConfigAssumption DEF TypeOK, Never
<1>2. CASE Passes(token, Config[i], now)
  <2>1. /\ verdict' = "accepted" /\ identity' = IdentityOf(token, i)
        /\ first' = IF first = Never THEN now ELSE first
    BY <1>0, <1>2
  <2>2. first' \in 0 .. now /\ first' # Never
    BY <2>1, <1>n
  <2>3. TypeOK'
    BY <1>1, <2>1, <2>2 DEF TypeOK
  <2>4. InForce(token, now)
    BY <1>2 DEF Passes
  <2>5. first' >= 2 * (token.iat.sec - Skew)
    <3>1. CASE first = Never
      BY <3>1, <2>1, <2>4 DEF InForce
    <3>2. CASE first # Never
      BY <3>2, <2>1 DEF Founded
    <3> QED
      BY <3>1, <3>2
  <2>6. Founded'
    BY <1>0, <1>1, <1>2, <2>1, <2>5
    DEF Founded, Passes
  <2>7. VerdictIsCurrent'
    BY <1>1, <2>1, <2>4 DEF VerdictIsCurrent
  <2> QED
    BY <2>3, <2>6, <2>7
<1>3. CASE ~Passes(token, Config[i], now)
  <2>1. verdict' = "refused" /\ UNCHANGED <<identity, first>>
    BY <1>0, <1>3
  <2>2. TypeOK'
    BY <1>1, <2>1 DEF TypeOK
  <2>3. Founded'
    BY <1>1, <2>1 DEF Founded
  <2>4. \E j \in Routed(token') : Verifies(token', j) /\ ~Passes(token', Config[j], now')
    BY <1>0, <1>1, <1>3
  <2>5. VerdictIsCurrent'
    BY <2>1, <2>4 DEF VerdictIsCurrent
  <2> QED
    BY <2>2, <2>3, <2>5
<1> QED
  BY <1>2, <1>3

LEMMA StepInvariant == ASSUME IInv, [Next]_vars PROVE IInv'
<1> USE DEF IInv
<1>f. ASSUME UNCHANGED <<token, identity, first>> PROVE Founded'
  BY <1>f DEF Founded
<1>1. CASE Present
  <2>1. TypeOK'
    BY <1>1, ConfigAssumption DEF Present, TypeOK, Parses, Routed
  <2>2. VerdictIsCurrent'
    BY <1>1 DEF Present, VerdictIsCurrent
  <2> QED
    BY <1>1, <1>f, <2>1, <2>2 DEF Present
<1>2. CASE Unverified
  <2>1. TypeOK'
    BY <1>2 DEF Unverified, TypeOK, Parses, Routed
  <2>2. VerdictIsCurrent'
    BY <1>2 DEF Unverified, VerdictIsCurrent
  <2> QED
    BY <1>2, <1>f, <2>1, <2>2 DEF Unverified
<1>3. CASE Conclude
  BY <1>3, ConcludeKeeps
<1>4. CASE Tick
  <2>1. TypeOK'
    BY <1>4, ConfigAssumption DEF Tick, TypeOK, Parses, Routed, Never
  <2>2. VerdictIsCurrent'
    BY <1>4 DEF Tick, VerdictIsCurrent
  <2> QED
    BY <1>4, <1>f, <2>1, <2>2 DEF Tick
<1>5. CASE UNCHANGED vars
  <2>1. TypeOK'
    BY <1>5 DEF vars, TypeOK, Parses, Routed
  <2>2. VerdictIsCurrent'
    BY <1>5 DEF vars, VerdictIsCurrent
  <2> QED
    BY <1>5, <1>f, <2>1, <2>2 DEF vars
<1> QED
  BY <1>1, <1>2, <1>3, <1>4, <1>5 DEF Next

LEMMA Invariance == Spec => []IInv
<1>1. Init => IInv
  BY InitInvariant
<1>2. IInv /\ [Next]_vars => IInv'
  BY StepInvariant
<1> QED
  BY <1>1, <1>2, PTL DEF Spec
-----------------------------------------------------------------------------
LEMMA TokenTypes ==
    ASSUME TypeOK
    PROVE  /\ token.exp.sec \in Int /\ token.iat.sec \in Int /\ token.nbf.sec \in Int
           /\ token.exp \in Date /\ token.iat \in Date /\ token.nbf \in Date
           /\ now \in Nat /\ Skew \in Nat
BY TokensAssumption, ConfigAssumption DEF TypeOK, Token, Date

(* Truncation moves a date back by less than a second.                     *)
LEMMA Truncation ==
    ASSUME NEW d \in Date
    PROVE  /\ Moment(d) \in Int
           /\ 2 * d.sec =< Moment(d) /\ Moment(d) < 2 * (d.sec + 1)
BY DEF Moment, Date

(* The types of a verification (Authenticator.Authenticate).               *)
THEOREM TypeCorrect == Spec => []TypeOK
<1>1. IInv => TypeOK
  BY DEF IInv
<1> QED
  BY <1>1, Invariance, PTL

(* Nothing is accepted out of its time, however slow the key fetch was.    *)
THEOREM AlwaysAcceptedInForce == Spec => []AcceptedInForce
<1>1. IInv => AcceptedInForce
  <2> SUFFICES ASSUME IInv, verdict = "accepted"
               PROVE  /\ now =< Moment(token.exp) + 2 * Skew
                      /\ now > Moment(token.iat) - 2 * (Skew + 1)
                      /\ token.nbf.form # "absent" => now > Moment(token.nbf) - 2 * (Skew + 1)
    BY DEF AcceptedInForce
  <2>1. InForce(token, now)
    BY DEF IInv, VerdictIsCurrent
  <2>2. TypeOK
    BY DEF IInv
  <2> QED
    BY <2>1, <2>2, TokenTypes, Truncation DEF InForce
<1> QED
  BY <1>1, Invariance, PTL

(* The lifetime cap bounds how long one token can be used, skew included.  *)
THEOREM WindowAlwaysBounded == Spec => []WindowIsBounded
<1>1. IInv => WindowIsBounded
  <2> SUFFICES ASSUME IInv, verdict = "accepted"
               PROVE  /\ now - first
                             =< 2 * (Config[identity.issuer].maxTokenLifetime + 2 * Skew)
                      /\ Moment(token.exp) - Moment(token.iat)
                             < 2 * (Config[identity.issuer].maxTokenLifetime + 1)
    BY DEF WindowIsBounded
  <2>1. TypeOK /\ InForce(token, now) /\ first # Never
    BY DEF IInv, VerdictIsCurrent, TypeOK
  <2>2. PICK i \in Routed(token) :
           /\ LivesShortly(token, Config[i])
           /\ identity = IdentityOf(token, i)
           /\ first >= 2 * (token.iat.sec - Skew)
    BY <2>1 DEF IInv, Founded
  <2>3. identity.issuer = i /\ i \in Issuer
    BY <2>2 DEF IdentityOf, Routed
  <2>4. Config[i].maxTokenLifetime \in Nat
    BY <2>3, ConfigAssumption DEF IssuerConfig
  <2>5. first \in Int
    BY <2>1, TokenTypes DEF TypeOK, Never
  <2>6. now - first =< 2 * (Config[i].maxTokenLifetime + 2 * Skew)
    BY <2>1, <2>2, <2>4, <2>5, TokenTypes DEF LivesShortly, InForce
  <2>7. Moment(token.exp) - Moment(token.iat) < 2 * (Config[i].maxTokenLifetime + 1)
    BY <2>1, <2>2, <2>4, TokenTypes, Truncation DEF LivesShortly
  <2> QED
    BY <2>3, <2>6, <2>7
<1> QED
  BY <1>1, Invariance, PTL

(* An identity is one issuer's throughout.                                 *)
THEOREM IdentityAlwaysVouchedFor == Spec => []IdentityIsVouchedFor
<1>1. IInv => IdentityIsVouchedFor
  <2> SUFFICES ASSUME IInv, first # Never PROVE IdentityIsVouchedFor
    BY DEF IdentityIsVouchedFor
  <2>1. PICK i \in Routed(token) :
           /\ Verifies(token, i)
           /\ IssuerIs(token, Config[i])
           /\ AudienceIs(token, Config[i])
           /\ ClaimsPass(token, Config[i])
           /\ identity = IdentityOf(token, i)
    BY DEF IInv, Founded
  <2>2. /\ identity.issuer = i
        /\ identity.subject # ""
        /\ \A shown \in identity.claims :
              shown[1] \in Config[i].claims /\ shown[2] = token.claims[shown[1]].text
    <3>1. /\ identity.issuer = i
          /\ identity.subject = token.claims["sub"].text
          /\ identity.claims = {<<name, token.claims[name].text>> :
                                   name \in {n \in Config[i].claims : Has(token, n)}}
      BY <2>1 DEF IdentityOf
    <3>2. \A shown \in identity.claims :
             \E name \in Config[i].claims : shown = <<name, token.claims[name].text>>
      BY <3>1
    <3>3. ASSUME NEW shown \in identity.claims
          PROVE  shown[1] \in Config[i].claims /\ shown[2] = token.claims[shown[1]].text
      <4>1. PICK name \in Config[i].claims : shown = <<name, token.claims[name].text>>
        BY <3>2
      <4>2. shown[1] = name /\ shown[2] = token.claims[name].text
        BY <4>1
      <4> QED
        BY <4>2
    <3>4. identity.subject # ""
      BY <2>1, <3>1 DEF ClaimsPass
    <3> QED
      BY <3>1, <3>3, <3>4
  <2>3. /\ i \in token.signer /\ token.alg \in Config[i].algorithms
        /\ token.iss = Config[i].url /\ token.folded.iss = Config[i].url
        /\ Config[i].audience \in {token.folded.aud[n] : n \in DOMAIN token.folded.aud}
    BY <2>1 DEF Verifies, Routed, IssuerIs
  <2>4. \A name \in Required(Config[i]) :
           /\ token.claims[name].form \in {"string", "boolean"}
           /\ token.claims[name].text \in Config[i].require[name]
    BY <2>1 DEF ClaimsPass, Has
  <2> QED
    BY <2>1, <2>2, <2>3, <2>4 DEF IdentityIsVouchedFor, AudienceIs
<1> QED
  BY <1>1, Invariance, PTL

(* Truncation costs a good token at most the last second before exp.       *)
THEOREM RefusalsAlwaysJustified == Spec => []RefusalsAreJustified
<1>1. IInv => RefusalsAreJustified
  <2> SUFFICES ASSUME IInv, verdict = "refused" PROVE RefusalsAreJustified
    BY DEF RefusalsAreJustified
  <2>1. PICK i \in Routed(token) : Verifies(token, i) /\ ~Passes(token, Config[i], now)
    BY DEF IInv, VerdictIsCurrent
  <2>2. ASSUME GoodDates(token, Config[i]), GoodClaims(token, Config[i]) PROVE FALSE
    <3> DEFINE c == Config[i]
    <3>1. TypeOK /\ c.maxTokenLifetime \in Nat /\ c.claims \subseteq ClaimName
      BY ConfigAssumption DEF IInv, Routed, IssuerConfig
    <3>2. token.exp.form = "number" /\ token.iat.form = "number"
          /\ IsDate(token.exp) /\ IsDate(token.iat)
      BY <2>2, <3>1, TokenTypes, Truncation, ConfigAssumption DEF GoodDates, IsDate
    <3>3. LivesShortly(token, c)
      BY <2>2, <3>1, TokenTypes, Truncation DEF GoodDates, LivesShortly
    <3>4. InForce(token, now)
      BY <2>2, <3>1, TokenTypes, Truncation, ConfigAssumption DEF GoodDates, InForce, IsDate
    <3>5. ClaimsPass(token, c)
      BY <2>2, <3>1, ConfigAssumption DEF GoodClaims, ClaimsPass, Readable, Has, Required
    <3>6. AudienceIs(token, c)
      <4>1. token.aud.form \in {"string", "list", "other"}
        BY <3>1, TokensAssumption DEF TypeOK, Token, AudienceClaim
      <4> QED
        BY <2>2, <4>1 DEF GoodClaims, AudienceIs
    <3>7. IssuerIs(token, c)
      BY <2>2 DEF GoodClaims, IssuerIs
    <3> QED
      BY <2>1, <3>2, <3>3, <3>4, <3>5, <3>6, <3>7 DEF Passes
  <2> QED
    BY <2>1, <2>2 DEF RefusalsAreJustified
<1> QED
  BY <1>1, Invariance, PTL
=============================================================================
