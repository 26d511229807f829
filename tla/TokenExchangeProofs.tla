------------------------ MODULE TokenExchangeProofs --------------------------
(***************************************************************************)
(* The safety of the concurrent handlers, for every number of requests,    *)
(* every configuration and every behaviour of GitHub and of the process.   *)
(*                                                                         *)
(* The properties are not inductive: what a handler may still do depends   *)
(* on where it is.  The invariant therefore says for each place what has   *)
(* been checked of the form, that nothing was sent, replied or recorded    *)
(* too early, and that there is at most one mint call or one token, both   *)
(* the ones the form is due.  The last part shows that the handlers        *)
(* implement TokenIssuance.                                                *)
(***************************************************************************)
EXTENDS TokenExchangeProperties, PermissionLemmas, SequenceTheorems
-----------------------------------------------------------------------------
(* What follows from a form alone: the types of what handleToken parses it *)
(* into, and that the mint request built from an entitled form makes       *)
(* GitHub create exactly the token the form is due.                        *)

LEMMA FormFields ==
    ASSUME NEW f \in Forms
    PROVE  /\ f.resources \in Seq(ResourceString)
           /\ f.scope \in Seq(ScopeToken)
  BY FormsAssumption DEF Form

\* One string that parses.
LEMMA ParseType ==
    ASSUME NEW s \in ResourceString, Parses(s)
    PROVE  /\ Parse(s) \in ParsedResource
           /\ Parse(s).kind = "repo" =>
                 Parse(s).owner \in Login /\ Parse(s).name \in RepoName
           /\ Parse(s).kind = "org" =>
                 Parse(s).owner \in Login /\ Parse(s).name = NoName
           /\ Parse(s).kind = "enterprise" =>
                 Parse(s).owner \in Slug /\ Parse(s).name = NoName
           /\ Raw(Parse(s)) \in CanonicalString
PROOF
  <1>1. CASE IsRepo(s)
    BY <1>1 DEF Parse, IsRepo, IsOwnerName, ParsedResource, Kind, Raw, CanonicalString
  <1>2. CASE ~IsRepo(s) /\ IsOrg(s)
    BY <1>2 DEF Parse, IsOrg, ParsedResource, Kind, Raw, CanonicalString
  <1>3. CASE ~IsRepo(s) /\ IsEnterprise(s)
    BY <1>3 DEF Parse, IsEnterprise, ParsedResource, Kind, Raw, CanonicalString
  <1> QED
    BY <1>1, <1>2, <1>3 DEF Parses

\* A sequence made from another one element by element has its length.
LEMMA ParseAllSeq ==
    ASSUME NEW values \in Seq(ResourceString), ParsesAll(values)
    PROVE  /\ ParseAll(values) \in Seq(ParsedResource)
           /\ Len(ParseAll(values)) = Len(values)
           /\ Len(values) \in Nat /\ Len(values) >= 1
           /\ \A n \in 1 .. Len(values) :
                 /\ values[n] \in ResourceString
                 /\ Parses(values[n])
                 /\ ParseAll(values)[n] = Parse(values[n])
PROOF
  <1> DEFINE rs == ParseAll(values)
  <1>1. Len(values) \in Nat /\ DOMAIN values = 1 .. Len(values)
    OBVIOUS
  <1>2. \A n \in 1 .. Len(values) : values[n] \in ResourceString /\ Parses(values[n])
    BY <1>1 DEF ParsesAll
  <1>3. rs \in [1 .. Len(values) -> ParsedResource]
    BY <1>2, ParseType DEF ParseAll
  <1>4. rs \in Seq(ParsedResource)
    BY <1>1, <1>3, SeqDef
  <1>5. Len(rs) = Len(values)
    BY <1>1, <1>3, <1>4, LenProperties
  <1>6. Len(values) >= 1
    BY <1>1, EmptySeq DEF ParsesAll
  <1> QED
    BY <1>1, <1>2, <1>4, <1>5, <1>6 DEF ParseAll
-----------------------------------------------------------------------------
\* All resources of a list that parses are of one kind, on one account.
LEMMA ParsedTargets ==
    ASSUME NEW values \in Seq(ResourceString), ParsesAll(values),
           NEW n \in 1 .. Len(values)
    PROVE  LET rs == ParseAll(values) IN
           /\ rs[n] = Parse(values[n])
           /\ rs[n].kind = rs[1].kind /\ rs[n].owner = rs[1].owner
           /\ rs[1].kind = "repo" => rs[n].name \in RepoName
           /\ rs[1].kind # "repo" => n = 1 /\ Len(values) = 1 /\ rs[1].name = NoName
           /\ rs[1].kind \in Kind
           /\ rs[1].kind = "enterprise" => rs[1].owner \in Slug
           /\ rs[1].kind # "enterprise" => rs[1].owner \in Login
           /\ Raw(rs[n]) \in CanonicalString
PROOF
  <1> DEFINE rs == ParseAll(values)
  <1>1. /\ Len(values) \in Nat /\ Len(values) >= 1 /\ Len(rs) = Len(values)
        /\ DOMAIN rs = 1 .. Len(values)
        /\ \A m \in 1 .. Len(values) :
              values[m] \in ResourceString /\ Parses(values[m]) /\ rs[m] = Parse(values[m])
    BY ParseAllSeq, LenProperties
  <1>2. 1 \in 1 .. Len(values)
    BY <1>1
  <1>3. rs[n].kind = rs[1].kind /\ rs[n].owner = rs[1].owner
    BY <1>1 DEF ParsesAll, ShareKindAndOwner
  <1>4. rs[1].kind # "repo" => Len(values) = 1
    BY <1>1 DEF ParsesAll, SingleUnlessRepo
  <1>5. rs[1].kind \in Kind /\ rs[n].kind \in Kind
    BY <1>1, <1>2, ParseType DEF ParsedResource
  <1>6. Raw(rs[n]) \in CanonicalString
    BY <1>1, ParseType
  <1>7. /\ rs[1].kind = "repo" => rs[n].name \in RepoName /\ rs[1].owner \in Login
        /\ rs[1].kind = "org" => rs[1].name = NoName /\ rs[1].owner \in Login
        /\ rs[1].kind = "enterprise" => rs[1].name = NoName /\ rs[1].owner \in Slug
    BY <1>1, <1>2, <1>3, ParseType
  <1> QED
    BY <1>1, <1>3, <1>4, <1>5, <1>6, <1>7 DEF Kind

\* So they belong to one account at GitHub, whose installation is looked up.
LEMMA AccountType ==
    ASSUME NEW values \in Seq(ResourceString), ParsesAll(values)
    PROVE  AccountOf(ParseAll(values)) \in Account
PROOF
  <1> DEFINE rs == ParseAll(values)
  <1>1. 1 \in 1 .. Len(values)
    BY ParseAllSeq
  <1>2. /\ rs[1].kind \in Kind
        /\ rs[1].kind = "enterprise" => rs[1].owner \in Slug
        /\ rs[1].kind # "enterprise" => rs[1].owner \in Login
    BY <1>1, ParsedTargets
  <1> QED
    BY <1>2 DEF AccountOf, Account, Owner, Kind
-----------------------------------------------------------------------------
\* A scope decodes to a permission map, whatever its tokens.
LEMMA DecodeScopeType ==
    ASSUME NEW scope \in Seq(ScopeToken)
    PROVE  DecodeScope(scope) \in PermissionMap
PROOF
  <1>1. ASSUME NEW n \in DOMAIN scope
        PROVE  scope[n].level \in Entry
    <2>1. scope[n] \in ScopeToken
      BY LenProperties, ElementOfSeq
    <2> QED
      BY <2>1 DEF ScopeToken
  <1>2. ASSUME NEW k \in Key, LastFor(scope, k) # {}
        PROVE  scope[CHOOSE n \in LastFor(scope, k) : TRUE].level \in Entry
    <2>1. (CHOOSE n \in LastFor(scope, k) : TRUE) \in LastFor(scope, k)
      BY <1>2
    <2>2. (CHOOSE n \in LastFor(scope, k) : TRUE) \in DOMAIN scope
      BY <2>1 DEF LastFor
    <2> QED
      BY <2>2, <1>1
  <1> QED
    BY <1>2 DEF DecodeScope, PermissionMap, Entry

\* If every token is valid, nothing of it is lost by normalization, and it
\* asks for something.
LEMMA DecodedScope ==
    ASSUME NEW scope \in Seq(ScopeToken), ScopeDecodes(scope)
    PROVE  /\ Normalize(DecodeScope(scope)) = DecodeScope(scope)
           /\ DecodeScope(scope) # NoPermissions
PROOF
  <1> DEFINE m == DecodeScope(scope)
  <1>1. DOMAIN scope = 1 .. Len(scope) /\ Len(scope) \in Nat
    BY LenProperties
  <1>2. ASSUME NEW k \in Key
        PROVE  m[k] = Absent \/ Keeps(m, k)
    <2>1. CASE LastFor(scope, k) = {}
      BY <2>1 DEF DecodeScope
    <2>2. CASE LastFor(scope, k) # {}
      <3>1. PICK n \in LastFor(scope, k) : m[k] = scope[n].level
        BY <2>2 DEF DecodeScope
      <3>2. n \in DOMAIN scope /\ scope[n].key = k
        BY <3>1 DEF LastFor
      <3>3. m[k] \in Catalog[k]
        BY <3>1, <3>2 DEF ScopeDecodes, ValidKeyLevel
      <3> QED
        BY <3>3, CatalogAssumption DEF Keeps, ValidKey, ValidLevel
    <2> QED
      BY <2>1, <2>2
  <1>3. Normalize(m) = m
    <2>1. \A k \in Key : Normalize(m)[k] = m[k]
      BY <1>2 DEF Normalize
    <2>2. m = [k \in Key |-> m[k]]
      BY DEF DecodeScope
    <2>3. Normalize(m) = [k \in Key |-> Normalize(m)[k]]
      BY DEF Normalize
    <2> QED
      BY <2>1, <2>2, <2>3
  <1>4. m # NoPermissions
    <2> DEFINE last == Len(scope)
               k == scope[last].key
    <2>1. last \in DOMAIN scope /\ last \in Nat
      BY <1>1, EmptySeq DEF ScopeDecodes
    <2>2. k \in Key /\ scope[last].level \in Catalog[k]
      <3>1. scope[last] \in ScopeToken
        BY <2>1, <1>1, ElementOfSeq
      <3>2. scope[last].level \in Catalog[k]
        BY <2>1 DEF ScopeDecodes, ValidKeyLevel
      <3> QED
        BY <3>1, <3>2 DEF ScopeToken
    <2>3. last \in LastFor(scope, k)
      BY <2>1, <1>1 DEF LastFor
    <2>4. PICK n \in LastFor(scope, k) : m[k] = scope[n].level
      BY <2>2, <2>3 DEF DecodeScope
    <2>5. n \in DOMAIN scope /\ scope[n].key = k
      BY <2>4 DEF LastFor
    <2>6. m[k] \in Level
      BY <2>2, <2>4, <2>5, CatalogAssumption DEF ScopeDecodes, ValidKeyLevel
    <2> QED
      BY <2>2, <2>6 DEF NoPermissions, Level, Absent
  <1> QED
    BY <1>3, <1>4
-----------------------------------------------------------------------------
\* The one mint request that an entitled form can lead to.
DueBody(f) == [account      |-> DueScope(f).account,
               repositories |-> DueScope(f).repositories,
               permissions  |-> DecodeScope(f.scope)]

\* The repositories it lists: some exactly for a request for repositories.
LEMMA DueRepositories ==
    ASSUME NEW f \in Forms, ParsesAll(f.resources)
    PROVE  LET rs == ParseAll(f.resources)
               names == DueScope(f).repositories IN
           /\ names \subseteq RepoName
           /\ rs[1].kind = "repo" => names = {rs[n].name : n \in 1 .. Len(rs)} /\ names # {}
           /\ rs[1].kind # "repo" => names = {}
PROOF
  <1> DEFINE rs == ParseAll(f.resources)
             names == DueScope(f).repositories
  <1>1. f.resources \in Seq(ResourceString)
    BY FormFields
  <1>2. /\ Len(rs) = Len(f.resources) /\ DOMAIN rs = 1 .. Len(rs)
        /\ 1 \in 1 .. Len(rs)
    BY <1>1, ParseAllSeq, LenProperties
  <1>3. \A n \in 1 .. Len(rs) :
           /\ rs[n].kind = rs[1].kind
           /\ rs[1].kind = "repo" => rs[n].name \in RepoName
    BY <1>1, <1>2, ParsedTargets
  <1>4. names = {r.name : r \in {s \in Range(rs) : s.kind = "repo"}}
    BY DEF DueScope
  <1>5. Range(rs) = {rs[n] : n \in 1 .. Len(rs)}
    BY <1>2 DEF Range
  <1> HIDE DEF rs, names
  <1>6. rs[1].kind = "repo" => /\ names = {rs[n].name : n \in 1 .. Len(rs)}
                               /\ names # {} /\ names \subseteq RepoName
    BY <1>2, <1>3, <1>4, <1>5
  <1>7. rs[1].kind # "repo" => names = {}
    BY <1>3, <1>4, <1>5
  <1> QED
    BY <1>6, <1>7 DEF rs, names

LEMMA WithImpliedType ==
    ASSUME NEW m \in PermissionMap
    PROVE  WithImplied(m) \in PermissionMap
  BY DEF WithImplied, PermissionMap, Entry, Level

\* GitHub makes of it the token the form is due, whatever the installation
\* has by then: neither of its lists is empty where that would mean "all".
LEMMA DueBodyCreates ==
    ASSUME NEW f \in Forms, Decodes(f), NEW held
    PROVE  /\ DueBody(f) \in MintRequest
           /\ CreatedScope(DueBody(f), held) = DueScope(f)
           /\ DueScope(f) \in TokenScope
PROOF
  <1> DEFINE rs == ParseAll(f.resources)
             names == DueScope(f).repositories
             perms == DecodeScope(f.scope)
  <1>1. ParsesAll(f.resources) /\ ScopeDecodes(f.scope)
    BY DEF Decodes
  <1>2. perms \in PermissionMap /\ perms # NoPermissions
    BY <1>1, FormFields, DecodeScopeType, DecodedScope
  <1>3. AccountOf(rs) \in Account
    BY <1>1, FormFields, AccountType
  <1>4. names \subseteq RepoName /\ (names = {} <=> rs[1].kind # "repo")
    BY <1>1, DueRepositories
  <1>5. DueScope(f) = [account      |-> AccountOf(rs),
                       everything   |-> rs[1].kind # "repo",
                       repositories |-> names,
                       permissions  |-> WithImplied(perms)]
    BY DEF DueScope
  <1>6. DueBody(f) = [account |-> AccountOf(rs), repositories |-> names,
                      permissions |-> perms]
    BY <1>5 DEF DueBody
  <1>7. DueBody(f) \in MintRequest
    BY <1>2, <1>3, <1>4, <1>6 DEF MintRequest
  <1>8. CreatedScope(DueBody(f), held) = DueScope(f)
    BY <1>2, <1>4, <1>5, <1>6 DEF CreatedScope
  <1>9. DueScope(f) \in TokenScope
    <2>1. WithImplied(perms) \in PermissionMap /\ (rs[1].kind # "repo") \in BOOLEAN
      BY <1>2, WithImpliedType
    <2> HIDE DEF rs, names, perms
    <2> QED
      BY <1>3, <1>4, <1>5, <2>1 DEF TokenScope
  <1> QED
    BY <1>7, <1>8, <1>9

\* Without gaps the intersection with the ceiling is the scope asked for, so
\* that request is the one Mint sends.
LEMMA MintBodyIsDue ==
    ASSUME NEW q \in RequestId, form[q] \in Forms, Decodes(form[q]),
           ceiling[q] \in PermissionMap, ~Short(q)
    PROVE  MintBody(q) = DueBody(form[q])
PROOF
  <1> DEFINE rs == ParseAll(form[q].resources)
             names == DueScope(form[q]).repositories
  <1>1. ParsesAll(form[q].resources) /\ ScopeDecodes(form[q].scope)
    BY DEF Decodes
  <1>2. Perms(q) \in PermissionMap /\ Normalize(Perms(q)) = Perms(q)
    BY <1>1, FormFields, DecodeScopeType, DecodedScope DEF Perms
  <1>3. FinalPerms(q) = Perms(q)
    BY <1>2, GapFreeIntersect DEF FinalPerms, Short
  <1>4. rs \in Seq(ParsedResource)
    BY <1>1, FormFields, ParseAllSeq
  <1>5. Range(RepoShortNames(rs)) = {rs[n].name : n \in 1 .. Len(rs)}
    BY <1>4 DEF RepoShortNames, Range
  <1>6. (IF IsRepoRequest(q) THEN Range(RepoShortNames(Targets(q))) ELSE {}) = names
    BY <1>1, <1>5, DueRepositories DEF IsRepoRequest, Targets
  <1> QED
    BY <1>3, <1>6 DEF MintBody, DueBody, DueScope, Perms, Targets
-----------------------------------------------------------------------------
\* The token reaches exactly what the policies were asked about.
LEMMA ReachOfDue ==
    ASSUME NEW f \in Forms, ParsesAll(f.resources)
    PROVE  Reach(DueScope(f)) = Range(Input(f).resources)
PROOF
  <1> DEFINE rs == ParseAll(f.resources)
             raws == RawStrings(rs)
             names == DueScope(f).repositories
  <1>1. f.resources \in Seq(ResourceString)
    BY FormFields
  <1>2. /\ rs \in Seq(ParsedResource)
        /\ Len(rs) = Len(f.resources) /\ Len(rs) \in Nat
        /\ 1 \in 1 .. Len(rs)
    BY <1>1, ParseAllSeq, LenProperties
  <1>3. \A n \in 1 .. Len(rs) :
           /\ rs[n].kind = rs[1].kind /\ rs[n].owner = rs[1].owner
           /\ rs[1].kind # "repo" => n = 1 /\ rs[1].name = NoName
    BY <1>1, <1>2, ParsedTargets
  <1>4. rs[1].kind \in Kind
    BY <1>1, <1>2, ParsedTargets
  <1>5. Range(Input(f).resources) = {Raw(rs[n]) : n \in 1 .. Len(rs)}
    BY <1>2 DEF Input, RawStrings, Range
  <1>6. /\ DueScope(f).account = AccountOf(rs)
        /\ DueScope(f).everything = (rs[1].kind # "repo")
    BY DEF DueScope
  <1>7. rs[1].kind = "repo" => names = {rs[n].name : n \in 1 .. Len(rs)}
    BY DueRepositories
  <1>8. AccountOf(rs)[1] = (IF rs[1].kind = "enterprise" THEN "enterprise" ELSE "login")
        /\ AccountOf(rs)[2] = rs[1].owner
    BY DEF AccountOf, Owner
  <1> HIDE DEF rs, names
  <1>9. CASE rs[1].kind = "repo"
    <2>1. Reach(DueScope(f)) = {<<"repo", rs[1].owner, x>> : x \in names}
      BY <1>6, <1>8, <1>9 DEF Reach, names
    <2>2. \A n \in 1 .. Len(rs) : Raw(rs[n]) = <<"repo", rs[1].owner, rs[n].name>>
      BY <1>3, <1>9 DEF Raw
    <2> QED
      BY <1>5, <1>7, <1>9, <2>1, <2>2
  <1>10. CASE rs[1].kind # "repo"
    <2>1. Reach(DueScope(f)) = {<<rs[1].kind, rs[1].owner, NoName>>}
      BY <1>4, <1>6, <1>8, <1>10 DEF Reach, Kind
    <2>2. \A n \in 1 .. Len(rs) : Raw(rs[n]) = <<rs[1].kind, rs[1].owner, NoName>>
      BY <1>3, <1>10 DEF Raw
    <2> QED
      BY <1>2, <1>5, <2>1, <2>2
  <1> QED
    BY <1>9, <1>10

\* The strings the policies are asked about, as many as the form has.
LEMMA RawStringsSeq ==
    ASSUME NEW values \in Seq(ResourceString), ParsesAll(values)
    PROVE  /\ RawStrings(ParseAll(values)) \in Seq(Resource)
           /\ Len(RawStrings(ParseAll(values))) = Len(values)
PROOF
  <1> DEFINE rs == ParseAll(values)
             raws == RawStrings(rs)
  <1>1. rs \in Seq(ParsedResource) /\ Len(rs) = Len(values) /\ Len(rs) \in Nat
    BY ParseAllSeq
  <1>2. raws \in [1 .. Len(rs) -> Resource]
    BY <1>1, ParsedTargets, ResourceAssumption DEF RawStrings
  <1>3. raws \in Seq(Resource)
    BY <1>1, <1>2, SeqDef
  <1> QED
    BY <1>1, <1>2, <1>3, LenProperties

\* What handleToken has checked by the time it calls Mint.
LEMMA PermittedIsEntitled ==
    ASSUME NEW f \in Forms, f.defects = {}, f.token \in Verifiable,
           Decodes(f), ~Exceeds(f), Permitted(f)
    PROVE  Entitled(policies, f)
PROOF
  <1>1. f.resources \in Seq(ResourceString) /\ ParsesAll(f.resources)
    BY FormFields DEF Decodes
  <1>2. Len(Input(f).resources) = Len(f.resources) /\ Len(f.resources) \in Nat
    BY <1>1, RawStringsSeq, ParseAllSeq DEF Input
  <1>3. Len(f.resources) <= MaxRepositories
    BY <1>2, MaxRepositoriesAssumption DEF Exceeds, Oversized
  <1>4. UncoveredOf(policies, Input(f)) = {}
    BY DEF Permitted, Verdict, Decided
  <1> QED
    BY <1>3, <1>4 DEF Entitled, Wellformed, UncoveredOf
-----------------------------------------------------------------------------
Early == {"idle", "check form", "authenticate", "decide", "check ceiling"} \cup Lookups
Cleared == Lookups \cup {"check ceiling", "mint", "audit"}

Silent(q) == reply[q] = NoReply /\ \A e \in log : e.request # q

FormIsPassed(q) ==
    /\ pc[q] \in {"authenticate", "decide"} => form[q].defects = {}
    /\ pc[q] = "decide" => form[q].token \in Verifiable
    /\ pc[q] \in Cleared => Entitled(policies, form[q])

NothingTooEarly(q) ==
    /\ pc[q] \in Early => calls[q] = {} /\ tokens[q] = <<>>
    /\ pc[q] \in Early \cup Cleared => Silent(q)
    /\ pc[q] = "audit" => tokens[q] # <<>>
    /\ pc[q] \in {"respond", "answered"} => reply[q] # NoReply

MintsAreDue(q) ==
    /\ calls[q] # {} \/ tokens[q] # <<>> => Entitled(policies, form[q])
    /\ \A body \in calls[q] : body = DueBody(form[q])
    /\ tokens[q] # <<>> => tokens[q] = <<DueScope(form[q])>>
    /\ calls[q] = {} \/ tokens[q] = <<>>

Refused(q) == \E code \in Refusals : reply[q] = ErrorReply(code)

\* A refusal without a record says what the form itself shows, or that the
\* caller could not be authenticated.
RefusalsAreFounded(q) ==
    /\ Recorded(q, "deny") => Refused(q)
    /\ Refused(q) => calls[q] = {} /\ tokens[q] = <<>>
    /\ Refused(q) /\ reply[q] # ErrorReply("invalid_grant") /\ ~Recorded(q, "deny")
          => ~Entitled(policies, form[q])

AllowsAreFounded(q) ==
    /\ Recorded(q, "allow") => reply[q].kind = "token"
    /\ reply[q].kind = "token" =>
          /\ reply[q].scope = DueScope(form[q])
          /\ tokens[q] = <<reply[q].scope>>
          /\ AllowEvent(q, reply[q].scope) \in log

Local(q) == /\ FormIsPassed(q)
            /\ NothingTooEarly(q)
            /\ MintsAreDue(q)
            /\ RefusalsAreFounded(q)
            /\ AllowsAreFounded(q)

IInv == /\ TypeOK
        /\ StatedScopeIsTrue
        /\ \A q \in RequestId : Local(q)
-----------------------------------------------------------------------------
(* Steps of a handler: what they leave alone.                              *)

RequestStep(q) == Arrive(q) \/ HandlerStep(q)

OthersUntouched(q) ==
    /\ policies' = policies /\ form' = form /\ installation' = installation
    /\ server' = server /\ drained' = drained /\ tokens' = tokens
    /\ \A p \in RequestId \ {q} : /\ pc'[p] = pc[p]
                                  /\ calls'[p] = calls[p]
                                  /\ ceiling'[p] = ceiling[p]
                                  /\ reply'[p] = reply[p]
    /\ log \subseteq log'
    /\ \A e \in log' \ log : e.request = q

LEMMA RequestStepFrame ==
    ASSUME TypeOK, NEW q \in RequestId, RequestStep(q)
    PROVE  OthersUntouched(q)
PROOF
  <1> USE DEF TypeOK, Go, Answer, world, github, process, OthersUntouched
  <1>1. CASE Arrive(q)
    BY <1>1 DEF Arrive
  <1>2. CASE RejectForm(q) \/ AcceptForm(q)
    BY <1>2 DEF RejectForm, AcceptForm
  <1>3. CASE Unauthenticated(q) \/ Authenticated(q)
    BY <1>3 DEF Unauthenticated, Authenticated
  <1>4. CASE RejectTarget(q) \/ RejectScope(q) \/ RejectOversized(q)
    BY <1>4 DEF RejectTarget, RejectScope, RejectOversized
  <1>5. CASE Deny(q)
    BY <1>5 DEF Deny, DenyEvent
  <1>6. CASE Permit(q)
    BY <1>6 DEF Permit
  <1>7. CASE LookupFound(q) \/ LookupRetried(q) \/ LookupFailed(q)
    BY <1>7 DEF LookupFound, LookupRetried, LookupFailed
  <1>8. CASE RefuseMint(q)
    <2>1. PICK reason : log' = log \cup {DenyEvent(q, reason)}
      BY <1>8 DEF RefuseMint
    <2>2. PICK code : Answer(q, "check ceiling", ErrorReply(code))
      BY <1>8 DEF RefuseMint
    <2>3. UNCHANGED <<world, github, process>>
      BY <1>8 DEF RefuseMint
    <2>4. \A e \in log' \ log : e.request = q
      BY <2>1 DEF DenyEvent
    <2> QED
      BY <2>1, <2>2, <2>3, <2>4
  <1>9. CASE SendMint(q)
    BY <1>9 DEF SendMint
  <1>10. CASE ReceiveToken(q) \/ MintFailed(q)
    BY <1>10 DEF ReceiveToken, MintFailed
  <1>11. CASE AuditAllow(q)
    BY <1>11 DEF AuditAllow, AllowEvent
  <1>12. CASE Respond(q) \/ LoseResponse(q)
    BY <1>12 DEF Respond, LoseResponse
  <1> QED
    BY <1>1, <1>2, <1>3, <1>4, <1>5, <1>6, <1>7, <1>8, <1>9, <1>10, <1>11, <1>12
       DEF RequestStep, HandlerStep

\* The invariant of a request depends on nothing but its own entries.
LEMMA LocalDepends ==
    ASSUME NEW p \in RequestId, Local(p),
           policies' = policies, form' = form,
           pc'[p] = pc[p], calls'[p] = calls[p], tokens'[p] = tokens[p],
           reply'[p] = reply[p],
           log \subseteq log', \A e \in log' \ log : e.request # p
    PROVE  Local(p)'
PROOF
  <1>1. \A d : Recorded(p, d)' <=> Recorded(p, d)
    BY DEF Recorded
  <1>2. Silent(p)' <=> Silent(p)
    BY DEF Silent
  <1>3. FormIsPassed(p)' /\ NothingTooEarly(p)' /\ MintsAreDue(p)'
    BY <1>2 DEF Local, FormIsPassed, NothingTooEarly, MintsAreDue
  <1>4. Refused(p)' <=> Refused(p)
    BY DEF Refused
  <1>5. RefusalsAreFounded(p)'
    BY <1>1, <1>4 DEF Local, RefusalsAreFounded
  <1>6. AllowsAreFounded(p)'
    BY <1>1 DEF Local, AllowsAreFounded
  <1> QED
    BY <1>3, <1>5, <1>6 DEF Local
-----------------------------------------------------------------------------
(* Steps of a handler: types.                                              *)

LEMMA ReplyTypes ==
    /\ NoReply \in Reply
    /\ \A code \in ErrorCode : ErrorReply(code) \in Reply
    /\ \A scope \in TokenScope, perms \in PermissionMap :
          /\ TokenReply(scope, Unstated) \in Reply
          /\ TokenReply(scope, Stated(perms)) \in Reply
PROOF
  <1>1. NoPermissions \in PermissionMap
    BY DEF NoPermissions, PermissionMap, Entry
  <1>2. \A code \in ErrorCode : ErrorReply(code) \in Reply
    BY DEF ErrorReply, Reply
  <1>3. ASSUME NEW scope \in TokenScope, NEW perms \in PermissionMap, NEW b \in BOOLEAN
        PROVE  [kind |-> "token", scope |-> scope,
                stated |-> [given |-> b, permissions |-> perms]] \in Reply
    BY <1>3 DEF Reply
  <1> QED
    BY <1>1, <1>2, <1>3 DEF Reply, TokenReply, Unstated, Stated

\* What AuditAllow has received.
LEMMA ReceivedIsDue ==
    ASSUME NEW q \in RequestId, TypeOK, Local(q), pc[q] = "audit"
    PROVE  /\ tokens[q] = <<DueScope(form[q])>>
           /\ ReceivedScope(q) = DueScope(form[q])
           /\ ReceivedScope(q) \in TokenScope
           /\ ReceivedScope(q).permissions \in PermissionMap
PROOF
  <1>1. tokens[q] = <<DueScope(form[q])>>
    BY DEF Local, NothingTooEarly, MintsAreDue
  <1>2. Entitled(policies, form[q]) /\ form[q] \in Forms
    BY DEF Local, FormIsPassed, Cleared, TypeOK
  <1>3. DueScope(form[q]) \in TokenScope
    BY <1>2, DueBodyCreates DEF Entitled, Wellformed
  <1> QED
    BY <1>1, <1>3 DEF ReceivedScope, TokenScope

LEMMA RequestStepTypes ==
    ASSUME NEW q \in RequestId, TypeOK, Local(q), RequestStep(q)
    PROVE  TypeOK'
PROOF
  <1> DEFINE Changed == /\ pc' \in [RequestId -> PC]
                        /\ calls' \in [RequestId -> SUBSET MintRequest]
                        /\ ceiling' \in [RequestId -> PermissionMap]
                        /\ reply' \in [RequestId -> Reply]
                        /\ log' \subseteq Event
  <1>1. SUFFICES Changed
    BY RequestStepFrame DEF OthersUntouched, TypeOK
  <1>2. form[q] \in Forms /\ ceiling[q] \in PermissionMap
    BY DEF TypeOK
  <1>3. pc[q] \in Cleared => Decodes(form[q])
    BY DEF Local, FormIsPassed, Entitled, Wellformed
  <1>4. \A e \in ErrorCode : ErrorReply(e) \in Reply
    BY ReplyTypes
  <1>5. \A reason \in DenyReason : DenyEvent(q, reason) \in Event
    BY DEF DenyEvent, Event
  <1> USE DEF TypeOK, Go, Answer, world, github, process, PC, Working, Lookups
  <1>6. CASE Arrive(q)
    BY <1>6 DEF Arrive
  <1>7. CASE RejectForm(q) \/ AcceptForm(q)
    <2>1. CASE RejectForm(q)
      <3>1. PICK e \in ErrorCode : Answer(q, "check form", ErrorReply(e))
        BY <2>1 DEF RejectForm
      <3>2. UNCHANGED <<world, github, process, log>>
        BY <2>1 DEF RejectForm
      <3> QED
        BY <1>4, <3>1, <3>2
    <2>2. CASE AcceptForm(q)
      BY <2>2 DEF AcceptForm
    <2> QED
      BY <1>7, <2>1, <2>2
  <1>8. CASE Unauthenticated(q) \/ Authenticated(q)
    BY <1>4, <1>8 DEF Unauthenticated, Authenticated, ErrorCode
  <1>9. CASE RejectTarget(q) \/ RejectScope(q) \/ RejectOversized(q)
    <2>1. PICK e \in ErrorCode : Answer(q, "decide", ErrorReply(e))
      BY <1>9 DEF RejectTarget, RejectScope, RejectOversized, ErrorCode
    <2>2. UNCHANGED <<world, github, process, log>>
      BY <1>9 DEF RejectTarget, RejectScope, RejectOversized
    <2> QED
      BY <1>4, <2>1, <2>2
  <1>10. CASE Deny(q)
    BY <1>4, <1>5, <1>10 DEF Deny, ErrorCode, DenyReason
  <1>11. CASE Permit(q)
    BY <1>11 DEF Permit, FirstLookup
  <1>12. CASE LookupFound(q)
    <2>1. pc[q] \in Cleared
      BY <1>12 DEF LookupFound, Cleared
    <2>2. AccountOf(Targets(q)) \in Account
      BY <1>2, <1>3, <2>1, FormFields, AccountType DEF Targets, Decodes
    <2>3. installation[AccountOf(Targets(q))] \in PermissionMap
      BY <2>2, CeilingsAssumption
    <2> QED
      BY <1>12, <2>3 DEF LookupFound
  <1>13. CASE LookupRetried(q) \/ LookupFailed(q)
    BY <1>4, <1>13 DEF LookupRetried, LookupFailed, ErrorCode
  <1>14. CASE RefuseMint(q)
    <2>1. PICK reason \in DenyReason : log' = log \cup {DenyEvent(q, reason)}
      BY <1>14 DEF RefuseMint, DenyReason
    <2>2. PICK code \in ErrorCode : Answer(q, "check ceiling", ErrorReply(code))
      BY <1>14 DEF RefuseMint, ErrorCode
    <2>3. UNCHANGED <<world, github, process>>
      BY <1>14 DEF RefuseMint
    <2> QED
      BY <1>4, <1>5, <2>1, <2>2, <2>3
  <1>15. CASE SendMint(q)
    <2>1. Decodes(form[q]) /\ ~Short(q)
      BY <1>3, <1>15 DEF SendMint, Cleared
    <2>2. MintBody(q) \in MintRequest
      BY <1>2, <2>1, MintBodyIsDue, DueBodyCreates
    <2> QED
      BY <1>15, <2>2 DEF SendMint
  <1>16. CASE ReceiveToken(q) \/ MintFailed(q)
    BY <1>4, <1>16 DEF ReceiveToken, MintFailed, ErrorCode
  <1>17. CASE AuditAllow(q)
    <2>1. pc[q] = "audit"
      BY <1>17 DEF AuditAllow
    <2>2. /\ ReceivedScope(q) \in TokenScope
          /\ ReceivedScope(q).permissions \in PermissionMap
      BY <2>1, ReceivedIsDue
    <2>3. TokenReply(ReceivedScope(q), StatedScope(q)) \in Reply
      BY <2>2, ReplyTypes DEF StatedScope
    <2>4. AllowEvent(q, ReceivedScope(q)) \in Event
      BY <2>2 DEF AllowEvent, Event
    <2> QED
      BY <1>17, <2>3, <2>4 DEF AuditAllow
  <1>18. CASE Respond(q) \/ LoseResponse(q)
    BY <1>18 DEF Respond, LoseResponse
  <1> QED
    BY <1>6, <1>7, <1>8, <1>9, <1>10, <1>11, <1>12, <1>13, <1>14, <1>15, <1>16, <1>17,
       <1>18 DEF RequestStep, HandlerStep
-----------------------------------------------------------------------------
(* Steps of a handler: its own part of the invariant.                      *)

LEMMA ErrorReplies ==
    /\ NoReply.kind = "none"
    /\ \A c : ErrorReply(c).kind = "error" /\ ErrorReply(c) # NoReply
    /\ \A c, d : ErrorReply(c) = ErrorReply(d) => c = d
  BY DEF NoReply, ErrorReply

\* Steps that neither reply nor record anything.
Moves(q) == \/ Arrive(q) \/ AcceptForm(q) \/ Authenticated(q) \/ Permit(q)
            \/ LookupFound(q) \/ LookupRetried(q)
            \/ SendMint(q) \/ ReceiveToken(q)
            \/ Respond(q) \/ LoseResponse(q)

LEMMA MovesKeep ==
    ASSUME NEW q \in RequestId, TypeOK, Local(q), Moves(q)
    PROVE  Local(q)'
PROOF
  <1>0. reply' = reply /\ log' = log
    BY DEF Moves, Arrive, AcceptForm, Authenticated, Permit, LookupFound, LookupRetried,
           SendMint, ReceiveToken, Respond, LoseResponse
  <1>1. /\ Silent(q)' <=> Silent(q)
        /\ Refused(q)' <=> Refused(q)
        /\ \A d : Recorded(q, d)' <=> Recorded(q, d)
    BY <1>0 DEF Silent, Refused, Recorded
  <1>2. policies' = policies /\ form' = form /\ tokens' = tokens
    BY RequestStepFrame DEF OthersUntouched, Moves, RequestStep, HandlerStep
  <1>3. q \in DOMAIN pc /\ q \in DOMAIN calls /\ form[q] \in Forms /\ ceiling[q] \in PermissionMap
    BY DEF TypeOK
  <1> DEFINE Rest == /\ FormIsPassed(q)'
                     /\ NothingTooEarly(q)'
                     /\ MintsAreDue(q)'
                     /\ Refused(q) => calls'[q] = {}
  <1>4. SUFFICES Rest
    <2>1. RefusalsAreFounded(q)'
      BY <1>0, <1>1, <1>2, <1>4 DEF Local, RefusalsAreFounded
    <2>2. AllowsAreFounded(q)'
      BY <1>0, <1>1, <1>2 DEF Local, AllowsAreFounded
    <2> QED
      BY <1>4, <2>1, <2>2 DEF Local
  <1> USE <1>0, <1>1, <1>2, <1>3 DEF Local, FormIsPassed, NothingTooEarly, MintsAreDue, RefusalsAreFounded,
        Go, github, Early, Cleared, Lookups
  <1>5. CASE Arrive(q)
    BY <1>5 DEF Arrive
  <1>6. CASE AcceptForm(q)
    BY <1>6 DEF AcceptForm
  <1>7. CASE Authenticated(q)
    BY <1>7 DEF Authenticated
  <1>8. CASE Permit(q)
    <2>1. Entitled(policies, form[q])
      BY <1>8, PermittedIsEntitled DEF Permit
    <2> QED
      BY <1>8, <2>1 DEF Permit, FirstLookup
  <1>9. CASE LookupFound(q) \/ LookupRetried(q)
    BY <1>9 DEF LookupFound, LookupRetried
  <1>10. CASE SendMint(q)
    <2>1. Entitled(policies, form[q])
      BY <1>10 DEF SendMint
    <2>2. MintBody(q) = DueBody(form[q])
      BY <1>10, <2>1, MintBodyIsDue DEF SendMint, Entitled, Wellformed
    <2>3. Silent(q) /\ calls[q] = {} /\ tokens[q] = <<>>
      BY <1>10 DEF SendMint
    <2>4. ~Refused(q)
      BY <2>3, ErrorReplies DEF Silent, Refused
    <2> QED
      BY <1>10, <2>1, <2>2, <2>3, <2>4 DEF SendMint
  <1>11. CASE ReceiveToken(q)
    BY <1>11 DEF ReceiveToken
  <1>12. CASE Respond(q) \/ LoseResponse(q)
    BY <1>12 DEF Respond, LoseResponse
  <1> QED
    BY <1>5, <1>6, <1>7, <1>8, <1>9, <1>10, <1>11, <1>12 DEF Moves

\* Steps that settle on an error, with a deny on record or without.
LEMMA AnsweringKeeps ==
    ASSUME NEW q \in RequestId, Local(q),
           policies' = policies, form' = form, calls' = calls, tokens' = tokens,
           NEW code, pc'[q] = "respond", reply'[q] = ErrorReply(code),
           ~Recorded(q, "allow")',
           Recorded(q, "deny")' => code \in Refusals,
           code \in Refusals => /\ calls[q] = {} /\ tokens[q] = <<>>
                                /\ \/ code = "invalid_grant"
                                   \/ Recorded(q, "deny")'
                                   \/ ~Entitled(policies, form[q])
    PROVE  Local(q)'
PROOF
  <1>1. Refused(q)' <=> code \in Refusals
    BY ErrorReplies DEF Refused
  <1>2. reply'[q] # NoReply /\ reply'[q].kind = "error"
    BY ErrorReplies
  <1>3. FormIsPassed(q)'
    BY DEF FormIsPassed, Cleared, Lookups
  <1>4. NothingTooEarly(q)'
    BY <1>2 DEF NothingTooEarly, Early, Cleared, Lookups
  <1>5. MintsAreDue(q)'
    BY DEF Local, MintsAreDue
  <1>6. RefusalsAreFounded(q)'
    BY <1>1 DEF RefusalsAreFounded
  <1>7. AllowsAreFounded(q)'
    BY <1>2 DEF AllowsAreFounded
  <1> QED
    BY <1>3, <1>4, <1>5, <1>6, <1>7 DEF Local

\* What the log says of a request that was silent before.
LEMMA FirstRecord ==
    ASSUME NEW q \in RequestId, Silent(q)
    PROVE  /\ log' = log => ~Recorded(q, "allow")' /\ ~Recorded(q, "deny")'
           /\ \A reason : log' = log \cup {DenyEvent(q, reason)}
                 => ~Recorded(q, "allow")' /\ Recorded(q, "deny")'
PROOF
  <1>1. ASSUME log' = log
        PROVE  ~Recorded(q, "allow")' /\ ~Recorded(q, "deny")'
    BY <1>1 DEF Recorded, Silent
  <1>2. ASSUME NEW reason, log' = log \cup {DenyEvent(q, reason)}
        PROVE  ~Recorded(q, "allow")' /\ Recorded(q, "deny")'
    <2>1. DenyEvent(q, reason).request = q /\ DenyEvent(q, reason).decision = "deny"
      BY DEF DenyEvent
    <2>2. \A e \in log' : e = DenyEvent(q, reason) \/ e.request # q
      BY <1>2 DEF Silent
    <2>3. DenyEvent(q, reason) \in log'
      BY <1>2
    <2> QED
      BY <2>1, <2>2, <2>3 DEF Recorded
  <1> QED
    BY <1>1, <1>2

LEMMA DecisionIsFounded ==
    ASSUME NEW q \in RequestId, TypeOK
    PROVE  /\ \A e : FormFails(form[q], e) => ~Entitled(policies, form[q])
           /\ ~ParsesAll(form[q].resources) => ~Entitled(policies, form[q])
           /\ ~ScopeDecodes(form[q].scope) => ~Entitled(policies, form[q])
           /\ Decodes(form[q]) /\ Exceeds(form[q]) => ~Entitled(policies, form[q])
PROOF
  <1> DEFINE f == form[q]
             rs == ParseAll(f.resources)
  <1>1. f \in Forms
    BY DEF TypeOK
  <1>2. ASSUME Decodes(f), Exceeds(f)
        PROVE  ~(Len(f.resources) <= MaxRepositories)
    <2>1. f.resources \in Seq(ResourceString) /\ ParsesAll(f.resources)
      BY <1>1, <1>2, FormFields DEF Decodes
    <2>2. Len(Input(f).resources) = Len(f.resources) /\ Len(f.resources) \in Nat
      BY <2>1, RawStringsSeq, ParseAllSeq DEF Input
    <2> QED
      BY <1>2, <2>2, MaxRepositoriesAssumption DEF Exceeds, Oversized
  <1> QED
    BY <1>2 DEF Entitled, Wellformed, Decodes, FormFails

\* The errors that handleToken and Mint answer with.
LEMMA ErrorsKeep ==
    ASSUME NEW q \in RequestId, TypeOK, Local(q), RequestStep(q),
           ~Moves(q), ~AuditAllow(q)
    PROVE  Local(q)'
PROOF
  <1>1. policies' = policies /\ form' = form /\ tokens' = tokens
    BY RequestStepFrame DEF OthersUntouched
  <1>2. \A from, r : Answer(q, from, r)
                        => /\ pc[q] = from /\ pc'[q] = "respond" /\ reply'[q] = r
    BY DEF Answer, Go, TypeOK
  <1>3. /\ pc[q] \in Early \cup {"mint"} => Silent(q)
        /\ pc[q] \in Early => calls[q] = {} /\ tokens[q] = <<>>
    BY DEF Local, NothingTooEarly, Early, Cleared
  <1> USE <1>1, <1>2, <1>3, DecisionIsFounded, AnsweringKeeps, FirstRecord
      DEF github, Early, Refusals
  <1>4. CASE RejectForm(q)
    <2>1. PICK e \in ErrorCode : /\ Answer(q, "check form", ErrorReply(e))
                                 /\ FormFails(form[q], e)
      BY <1>4 DEF RejectForm
    <2>2. calls' = calls /\ log' = log
      BY <1>4 DEF RejectForm
    <2> QED
      BY <2>1, <2>2
  <1>5. CASE Unauthenticated(q)
    BY <1>5 DEF Unauthenticated
  <1>6. CASE RejectTarget(q) \/ RejectScope(q) \/ RejectOversized(q)
    BY <1>6 DEF RejectTarget, RejectScope, RejectOversized
  <1>7. CASE Deny(q)
    BY <1>7 DEF Deny, ErrorCode
  <1>8. CASE LookupFailed(q)
    BY <1>8 DEF LookupFailed
  <1>9. CASE RefuseMint(q)
    <2>1. PICK reason : log' = log \cup {DenyEvent(q, reason)}
      BY <1>9 DEF RefuseMint
    <2>2. PICK code \in {"invalid_scope", "invalid_grant"} :
              Answer(q, "check ceiling", ErrorReply(code))
      BY <1>9 DEF RefuseMint
    <2>3. calls' = calls /\ pc[q] = "check ceiling"
      BY <1>9 DEF RefuseMint
    <2> QED
      BY <2>1, <2>2, <2>3 DEF ErrorCode
  <1>10. CASE MintFailed(q)
    BY <1>10 DEF MintFailed
  <1> QED
    BY <1>4, <1>5, <1>6, <1>7, <1>8, <1>9, <1>10 DEF RequestStep, HandlerStep, Moves

\* The token is recorded and answered with in one step.
LEMMA AuditKeeps ==
    ASSUME NEW q \in RequestId, TypeOK, Local(q), AuditAllow(q)
    PROVE  Local(q)' /\ reply'[q] = TokenReply(DueScope(form[q]), StatedScope(q))
PROOF
  <1>1. /\ policies' = policies /\ form' = form
        /\ tokens' = tokens /\ calls' = calls
    BY DEF AuditAllow, world, github
  <1>2. pc[q] = "audit" /\ pc'[q] = "respond"
    BY DEF AuditAllow, Answer, Go, TypeOK
  <1>3. /\ tokens[q] = <<DueScope(form[q])>>
        /\ ReceivedScope(q) = DueScope(form[q])
    BY <1>2, ReceivedIsDue
  <1>4. reply'[q] = TokenReply(DueScope(form[q]), StatedScope(q))
    BY <1>3 DEF AuditAllow, Answer, TypeOK
  <1>5. log' = log \cup {AllowEvent(q, DueScope(form[q]))}
    BY <1>3 DEF AuditAllow
  <1>6. /\ reply'[q] # NoReply /\ reply'[q].kind = "token"
        /\ reply'[q].scope = DueScope(form[q])
    BY <1>4 DEF TokenReply, NoReply
  <1>7. ~Refused(q)'
    BY <1>6, ErrorReplies DEF Refused
  <1>8. Silent(q)
    BY <1>2 DEF Local, NothingTooEarly, Early, Cleared
  <1>9. ~Recorded(q, "deny")'
    BY <1>5, <1>8 DEF Recorded, Silent, AllowEvent
  <1>10. FormIsPassed(q)'
    BY <1>2 DEF FormIsPassed, Cleared, Lookups
  <1>11. NothingTooEarly(q)'
    BY <1>2, <1>6 DEF NothingTooEarly, Early, Cleared, Lookups
  <1>12. MintsAreDue(q)'
    BY <1>1 DEF Local, MintsAreDue
  <1>13. RefusalsAreFounded(q)'
    BY <1>7, <1>9 DEF RefusalsAreFounded
  <1>14. AllowsAreFounded(q)'
    BY <1>1, <1>3, <1>5, <1>6 DEF AllowsAreFounded
  <1> QED
    BY <1>4, <1>10, <1>11, <1>12, <1>13, <1>14 DEF Local
-----------------------------------------------------------------------------
(* Every step keeps the invariant.                                         *)

LEMMA RequestStepKeeps ==
    ASSUME IInv, NEW q \in RequestId, RequestStep(q)
    PROVE  IInv'
PROOF
  <1>1. TypeOK /\ Local(q) /\ StatedScopeIsTrue
    BY DEF IInv
  <1>2. TypeOK'
    BY <1>1, RequestStepTypes
  <1>3. OthersUntouched(q)
    BY <1>1, RequestStepFrame
  <1>4. Local(q)'
    BY <1>1, MovesKeep, ErrorsKeep, AuditKeeps
  <1>5. ASSUME NEW p \in RequestId, p # q
        PROVE  Local(p)'
    BY <1>3, <1>5, LocalDepends DEF IInv, OthersUntouched
  <1>6. reply'[q].kind = "token" => reply' = reply \/ AuditAllow(q)
    <2>1. \A from, r : Answer(q, from, r) => reply'[q] = r
      BY <1>1 DEF Answer, TypeOK
    <2>2. CASE RefuseMint(q)
      <3>1. \E code : Answer(q, "check ceiling", ErrorReply(code))
        BY <2>2 DEF RefuseMint
      <3> QED
        BY <2>1, <3>1, ErrorReplies
    <2>3. CASE ~RefuseMint(q)
      BY <2>1, <2>3, ErrorReplies
         DEF RequestStep, HandlerStep, Arrive, RejectForm, AcceptForm, Unauthenticated,
             Authenticated, RejectTarget, RejectScope, RejectOversized, Deny, Permit,
             LookupFound, LookupRetried, LookupFailed, SendMint, ReceiveToken,
             MintFailed, Respond, LoseResponse
    <2> QED
      BY <2>2, <2>3
  <1>7. ASSUME AuditAllow(q)
        PROVE  /\ reply'[q].kind = "token"
               /\ reply'[q].scope.permissions =
                     IF reply'[q].stated.given THEN reply'[q].stated.permissions
                     ELSE DecodeScope(form'[q].scope)
    <2>1. reply'[q] = TokenReply(DueScope(form[q]), StatedScope(q))
      BY <1>1, <1>7, AuditKeeps
    <2>2. ReceivedScope(q) = DueScope(form[q])
      BY <1>1, <1>7, ReceivedIsDue DEF AuditAllow
    <2>3. form' = form
      BY <1>3 DEF OthersUntouched
    <2> QED
      BY <2>1, <2>2, <2>3
         DEF TokenReply, StatedScope, ScopeEqual, Unstated, Stated, Perms
  <1>8. StatedScopeIsTrue'
    BY <1>1, <1>3, <1>6, <1>7 DEF StatedScopeIsTrue, OthersUntouched
  <1> QED
    BY <1>2, <1>4, <1>5, <1>8 DEF IInv

\* GitHub acts on a call that is on its way, or the call is lost.
LEMMA GitHubKeeps ==
    ASSUME IInv, NEW q \in RequestId, GitHubCreates(q) \/ GitHubDrops(q)
    PROVE  IInv'
PROOF
  <1>1. TypeOK /\ Local(q)
    BY DEF IInv
  <1>2. /\ policies' = policies /\ form' = form /\ installation' = installation
        /\ server' = server /\ drained' = drained
        /\ pc' = pc /\ ceiling' = ceiling /\ reply' = reply /\ log' = log
    BY DEF GitHubCreates, GitHubDrops, world, process, handlers
  <1>3. /\ calls[q] = {DueBody(form[q])} /\ tokens[q] = <<>>
        /\ Entitled(policies, form[q])
    BY <1>1 DEF GitHubCreates, GitHubDrops, Local, MintsAreDue
  <1>4. form[q] \in Forms /\ DueScope(form[q]) \in TokenScope
    BY <1>1, <1>3, DueBodyCreates DEF TypeOK, Entitled, Wellformed
  <1>5. /\ calls' = [calls EXCEPT ![q] = {}]
        /\ \/ tokens' = [tokens EXCEPT ![q] = <<DueScope(form[q])>>]
           \/ tokens' = tokens
    <2>1. CASE GitHubCreates(q)
      <3>1. PICK body \in calls[q] :
               /\ tokens' = [tokens EXCEPT ![q] =
                     Append(@, CreatedScope(body, installation[body.account]))]
               /\ calls' = [calls EXCEPT ![q] = @ \ {body}]
        BY <2>1 DEF GitHubCreates
      <3>2. body = DueBody(form[q]) /\ calls[q] \ {body} = {}
        BY <1>3, <3>1
      <3>3. CreatedScope(body, installation[body.account]) = DueScope(form[q])
        BY <1>3, <1>4, <3>2, DueBodyCreates DEF Entitled, Wellformed
      <3>4. Append(tokens[q], CreatedScope(body, installation[body.account]))
               = <<DueScope(form[q])>>
        BY <1>3, <3>3
      <3> QED
        BY <1>1, <3>1, <3>2, <3>4 DEF TypeOK
    <2>2. CASE GitHubDrops(q)
      BY <1>1, <1>3, <2>2 DEF GitHubDrops, TypeOK
    <2> QED
      BY <2>1, <2>2
  <1>6. calls'[q] = {} /\ tokens'[q] \in {<<>>, <<DueScope(form[q])>>}
    BY <1>1, <1>3, <1>5 DEF TypeOK
  <1>7. \A p \in RequestId \ {q} : calls'[p] = calls[p] /\ tokens'[p] = tokens[p]
    BY <1>1, <1>5 DEF TypeOK
  <1>8. TypeOK'
    <2>1. <<DueScope(form[q])>> \in Seq(TokenScope)
      BY <1>4
    <2> QED
      BY <1>1, <1>2, <1>5, <2>1 DEF TypeOK
  <1>9. StatedScopeIsTrue'
    BY <1>2 DEF IInv, StatedScopeIsTrue
  <1>10. Local(q)'
    <2>1. /\ Silent(q)' <=> Silent(q)
          /\ Refused(q)' <=> Refused(q)
          /\ \A d : Recorded(q, d)' <=> Recorded(q, d)
      BY <1>2 DEF Silent, Refused, Recorded
    <2>2. pc[q] \notin Early /\ ~Refused(q) /\ reply[q].kind # "token" /\ pc[q] # "audit"
      BY <1>1, <1>3 DEF Local, NothingTooEarly, RefusalsAreFounded, AllowsAreFounded
    <2>3. FormIsPassed(q)' /\ NothingTooEarly(q)'
      BY <1>1, <1>2, <2>1, <2>2 DEF Local, FormIsPassed, NothingTooEarly
    <2>4. MintsAreDue(q)'
      BY <1>2, <1>3, <1>6 DEF MintsAreDue
    <2>5. RefusalsAreFounded(q)'
      BY <1>1, <1>2, <2>1, <2>2 DEF Local, RefusalsAreFounded
    <2>6. AllowsAreFounded(q)'
      BY <1>1, <1>2, <2>1, <2>2 DEF Local, AllowsAreFounded
    <2> QED
      BY <2>3, <2>4, <2>5, <2>6 DEF Local
  <1>11. ASSUME NEW p \in RequestId, p # q
         PROVE  Local(p)'
    BY <1>2, <1>7, <1>11, LocalDepends DEF IInv
  <1> QED
    BY <1>8, <1>9, <1>10, <1>11 DEF IInv

\* An administrator changes an installation.
LEMMA ChangeKeeps ==
    ASSUME IInv, NEW a \in Account, NEW perms \in Ceilings, ChangeInstallation(a, perms)
    PROVE  IInv'
PROOF
  <1>1. /\ policies' = policies /\ form' = form /\ calls' = calls /\ tokens' = tokens
        /\ server' = server /\ drained' = drained
        /\ pc' = pc /\ ceiling' = ceiling /\ reply' = reply /\ log' = log
    BY DEF ChangeInstallation, github, process, handlers
  <1>2. TypeOK'
    BY <1>1 DEF ChangeInstallation, IInv, TypeOK
  <1>3. ASSUME NEW p \in RequestId
        PROVE  Local(p)'
    BY <1>1, LocalDepends DEF IInv
  <1> QED
    BY <1>1, <1>2, <1>3 DEF IInv, StatedScopeIsTrue

\* The process is signalled, drains, ends under its handlers or is restarted.
LEMMA ProcessKeeps ==
    ASSUME IInv, ProcessStep
    PROVE  IInv'
PROOF
  <1>1. /\ policies' = policies /\ form' = form /\ installation' = installation
        /\ calls' = calls /\ tokens' = tokens
        /\ ceiling' = ceiling /\ reply' = reply /\ log' = log
    BY DEF ProcessStep, ReceiveSignal, ShutdownReturns, RunReturns, Crash, CutOff, Restart,
           world, github, handlers
  <1>2. /\ server' \in {"serving", "draining", "down"} /\ drained' \in BOOLEAN
        /\ \/ pc' = pc
           \/ pc' = [q \in RequestId |-> IF q \in InFlight THEN "lost" ELSE pc[q]]
    BY DEF ProcessStep, ReceiveSignal, ShutdownReturns, RunReturns, Crash, CutOff, Restart,
           handlers, IInv, TypeOK
  <1>3. TypeOK'
    BY <1>1, <1>2 DEF IInv, TypeOK, PC
  <1>4. ASSUME NEW p \in RequestId
        PROVE  Local(p)'
    <2>1. CASE pc'[p] = pc[p]
      BY <1>1, <2>1, LocalDepends DEF IInv
    <2>2. CASE pc'[p] # pc[p]
      <3>1. pc'[p] = "lost"
        BY <1>2, <2>2
      <3>2. FormIsPassed(p)' /\ NothingTooEarly(p)'
        BY <3>1 DEF FormIsPassed, NothingTooEarly, Early, Cleared, Lookups
      <3>3. MintsAreDue(p)' /\ RefusalsAreFounded(p)' /\ AllowsAreFounded(p)'
        BY <1>1 DEF IInv, Local, MintsAreDue, RefusalsAreFounded, AllowsAreFounded,
                    Refused, Recorded
      <3> QED
        BY <3>2, <3>3 DEF Local
    <2> QED
      BY <2>1, <2>2
  <1> QED
    BY <1>1, <1>3, <1>4 DEF IInv, StatedScopeIsTrue

LEMMA InvariantStarts == Init => IInv
PROOF
  <1> SUFFICES ASSUME Init PROVE IInv
    OBVIOUS
  <1>1. TypeOK
    <2>1. ceiling \in [RequestId -> PermissionMap]
      BY DEF Init, NoPermissions, PermissionMap, Entry
    <2>2. reply \in [RequestId -> Reply]
      BY ReplyTypes DEF Init
    <2>3. tokens \in [RequestId -> Seq(TokenScope)]
      <3>1. <<>> \in Seq(TokenScope)
        OBVIOUS
      <3> QED
        BY <3>1 DEF Init
    <2>4. calls \in [RequestId -> SUBSET MintRequest] /\ log \subseteq Event
      BY DEF Init
    <2>5. drained \in BOOLEAN
      BY DEF Init
    <2>6. pc \in [RequestId -> PC] /\ server \in {"serving", "draining", "down"}
      BY DEF Init, PC
    <2> QED
      BY <2>1, <2>2, <2>3, <2>4, <2>5, <2>6 DEF Init, TypeOK
  <1>2. ASSUME NEW q \in RequestId
        PROVE  Local(q)
    <2>1. /\ pc[q] = "idle" /\ calls[q] = {} /\ tokens[q] = <<>>
          /\ reply[q] = NoReply /\ log = {}
      BY DEF Init
    <2>2. Silent(q) /\ ~Refused(q) /\ reply[q].kind = "none"
      BY <2>1, ErrorReplies DEF Silent, Refused
    <2>3. \A d : ~Recorded(q, d)
      BY <2>1 DEF Recorded
    <2> QED
      BY <2>1, <2>2, <2>3 DEF Local, FormIsPassed, NothingTooEarly, MintsAreDue,
         RefusalsAreFounded, AllowsAreFounded, Cleared, Lookups
  <1>3. StatedScopeIsTrue
    BY ErrorReplies DEF Init, StatedScopeIsTrue
  <1> QED
    BY <1>1, <1>2, <1>3 DEF IInv

LEMMA StutteringKeeps ==
    ASSUME IInv, UNCHANGED vars
    PROVE  IInv'
PROOF
  <1>1. /\ policies' = policies /\ form' = form /\ installation' = installation
        /\ calls' = calls /\ tokens' = tokens /\ server' = server /\ drained' = drained
        /\ pc' = pc /\ ceiling' = ceiling /\ reply' = reply /\ log' = log
    BY DEF vars, world, github, process, handlers
  <1>2. \A p \in RequestId : Local(p)'
    BY <1>1, LocalDepends DEF IInv
  <1> QED
    BY <1>1, <1>2 DEF IInv, TypeOK, StatedScopeIsTrue

LEMMA StepKeeps == IInv /\ [Next]_vars => IInv'
PROOF
  <1> SUFFICES ASSUME IInv, [Next]_vars PROVE IInv'
    OBVIOUS
  <1> QED
    BY RequestStepKeeps, GitHubKeeps, ChangeKeeps, ProcessKeeps, StutteringKeeps
       DEF Next, GitHubStep, RequestStep

\* Every behaviour satisfies the invariant throughout.
THEOREM InvariantHolds == Spec => []IInv
  BY InvariantStarts, StepKeeps, PTL DEF Spec
-----------------------------------------------------------------------------
(* The properties.                                                         *)

\* Every variable of the broker keeps its type.
THEOREM TypeCorrect == Spec => []TypeOK
PROOF
  <1>1. IInv => TypeOK
    BY DEF IInv
  <1> QED
    BY <1>1, InvariantHolds, PTL

LEMMA TokensEntitled == IInv => TokensAreEntitled
PROOF
  <1> SUFFICES ASSUME IInv, NEW q \in RequestId, NEW n \in DOMAIN tokens[q]
               PROVE  /\ Entitled(policies, form[q])
                      /\ Reach(tokens[q][n]) = Range(Input(form[q]).resources)
                      /\ tokens[q][n].permissions = WithImplied(Perms(q))
    BY DEF TokensAreEntitled
  <1>1. tokens[q] # <<>>
    OBVIOUS
  <1>2. Entitled(policies, form[q]) /\ tokens[q] = <<DueScope(form[q])>>
    BY <1>1 DEF IInv, Local, MintsAreDue
  <1>3. tokens[q][n] = DueScope(form[q])
    BY <1>2
  <1>4. form[q] \in Forms /\ ParsesAll(form[q].resources)
    BY <1>2 DEF IInv, TypeOK, Entitled, Wellformed, Decodes
  <1>5. Reach(tokens[q][n]) = Range(Input(form[q]).resources)
    BY <1>3, <1>4, ReachOfDue
  <1>6. tokens[q][n].permissions = WithImplied(Perms(q))
    BY <1>3 DEF DueScope, Perms
  <1> QED
    BY <1>2, <1>5, <1>6

\* A token at GitHub is good for exactly the resources that the policies of
\* the caller's issuer cover, with exactly the permissions asked for, however
\* the installation changes between the ceiling check and the creation.
THEOREM TokensAlwaysEntitled == Spec => []TokensAreEntitled
  BY TokensEntitled, InvariantHolds, PTL

LEMMA OneTokenAtMost == IInv => AtMostOneToken
PROOF
  <1> SUFFICES ASSUME IInv, NEW q \in RequestId
               PROVE  Len(tokens[q]) + (IF calls[q] = {} THEN 0 ELSE 1) <= 1
    BY DEF AtMostOneToken
  <1>1. /\ tokens[q] # <<>> => tokens[q] = <<DueScope(form[q])>>
        /\ calls[q] = {} \/ tokens[q] = <<>>
    BY DEF IInv, Local, MintsAreDue
  <1>2. Len(tokens[q]) = IF tokens[q] = <<>> THEN 0 ELSE 1
    BY <1>1
  <1> QED
    BY <1>1, <1>2

\* No request ever has a second token, not even from a mint call that the
\* broker has given up on and GitHub still carries out.
THEOREM NeverTwoTokens == Spec => []AtMostOneToken
  BY OneTokenAtMost, InvariantHolds, PTL

LEMMA RefusalFinal == IInv => RefusalIsFinal
  BY DEF IInv, Local, RefusalsAreFounded, Refused, RefusalIsFinal

\* Once a request was denied on record or refused, no token exists for it and
\* none can still come.
THEOREM RefusalStaysFinal == Spec => []RefusalIsFinal
  BY RefusalFinal, InvariantHolds, PTL

LEMMA GivenRecorded == IInv => GivenTokenIsOnRecord
PROOF
  <1> SUFFICES ASSUME IInv, NEW q \in RequestId, reply[q].kind = "token"
               PROVE  /\ AllowEvent(q, reply[q].scope) \in log
                      /\ reply[q].scope \in Range(tokens[q])
    BY DEF GivenTokenIsOnRecord
  <1>1. /\ tokens[q] = <<reply[q].scope>>
        /\ AllowEvent(q, reply[q].scope) \in log
    BY DEF IInv, Local, AllowsAreFounded
  <1> QED
    BY <1>1 DEF Range

\* A client has a token only after the log has its issue with its real scope,
\* whatever crashes and shutdowns come between.
THEOREM GivenTokensStayOnRecord == Spec => []GivenTokenIsOnRecord
  BY GivenRecorded, InvariantHolds, PTL

\* The scope that a response states, or leaves out as the one asked for, is
\* the scope of the token.
THEOREM StatedScopeStaysTrue == Spec => []StatedScopeIsTrue
PROOF
  <1>1. IInv => StatedScopeIsTrue
    BY DEF IInv
  <1> QED
    BY <1>1, InvariantHolds, PTL
-----------------------------------------------------------------------------
(* The concurrent handlers keep the promise of TokenIssuance.  A step of   *)
(* one request leaves what the promise sees of the others alone, so each   *)
(* action is compared with one action of the promise for its own request;  *)
(* only the end of the process concerns several requests.                  *)

\* Nothing the promise sees of p changes.
Same(p) == /\ DueOf(p)' = DueOf(p) /\ IssuedOf(p)' = IssuedOf(p)
           /\ RecordOf(p)' = RecordOf(p) /\ AnswerOf(p)' = AnswerOf(p)

LEMMA SameStutters ==
    ASSUME \A p \in RequestId : Same(p)
    PROVE  UNCHANGED Promise!issuanceVars
  BY DEF Same, Promise!issuanceVars

\* A request whose entries stay as they are looks the same.
LEMMA EntriesDecide ==
    ASSUME NEW p \in RequestId,
           policies' = policies, form' = form,
           pc'[p] = pc[p], tokens'[p] = tokens[p], reply'[p] = reply[p],
           log \subseteq log', \A e \in log' \ log : e.request # p
    PROVE  Same(p)
PROOF
  <1>1. Recorded(p, "allow")' = Recorded(p, "allow") /\ Recorded(p, "deny")' = Recorded(p, "deny")
    BY DEF Recorded
  <1>2. DueOf(p)' = DueOf(p) /\ IssuedOf(p)' = IssuedOf(p)
    BY DEF DueOf, Due, IssuedOf
  <1>3. RecordOf(p)' = RecordOf(p)
    BY <1>1 DEF RecordOf
  <1>4. OutcomeOf(p)' = OutcomeOf(p)
    BY <1>2, <1>3 DEF OutcomeOf, IsFailure
  <1>5. AnswerOf(p)' = AnswerOf(p)
    BY <1>4 DEF AnswerOf
  <1> QED
    BY <1>2, <1>3, <1>5 DEF Same

LEMMA AnswerByPlace ==
    ASSUME NEW q \in RequestId
    PROVE  /\ pc[q] = "idle" => AnswerOf(q) = "not asked"
           /\ pc[q] \in Working => AnswerOf(q) = "awaited"
           /\ pc[q] = "lost" => AnswerOf(q) = "lost"
           /\ pc[q] = "answered" => AnswerOf(q) = OutcomeOf(q)
  BY DEF AnswerOf, Working, Lookups

\* What a request that has arrived is due.
LEMMA DueOfForm ==
    ASSUME TypeOK, NEW q \in RequestId, pc[q] # "idle"
    PROVE  /\ Entitled(policies, form[q]) =>
                 /\ DueOf(q) = DueScope(form[q])
                 /\ DueOf(q) \in DueScopes /\ DueOf(q) # NoScope
           /\ ~Entitled(policies, form[q]) => DueOf(q) = NoScope
PROOF
  <1>1. policies \in PolicySets /\ form[q] \in Forms
    BY DEF TypeOK
  <1>2. DueOf(q) = IF Entitled(policies, form[q]) THEN DueScope(form[q]) ELSE NoScope
    BY <1>1 DEF DueOf, Due
  <1>3. ASSUME Entitled(policies, form[q])
        PROVE  DueScope(form[q]) \in DueScopes /\ DueScope(form[q]) # NoScope
    <2>1. Wellformed(form[q]) /\ Decodes(form[q])
      BY <1>3 DEF Entitled, Wellformed
    <2>2. DueScope(form[q]) \in TokenScope
      BY <1>1, <2>1, DueBodyCreates
    <2> QED
      BY <1>1, <2>1, <2>2, NoScopeAssumption DEF DueScopes
  <1> QED
    BY <1>2, <1>3
-----------------------------------------------------------------------------
(* From what changes for one request to a step of the promise.             *)

OthersSame(q) == \A p \in RequestId \ {q} : Same(p)

LEMMA AskStep ==
    ASSUME NEW q \in RequestId, OthersSame(q),
           AnswerOf(q) = "not asked", AnswerOf(q)' = "awaited",
           DueOf(q)' \in DueScopes \cup {NoScope},
           IssuedOf(q)' = IssuedOf(q), RecordOf(q)' = RecordOf(q)
    PROVE  Promise!IssuanceNext
PROOF
  <1>1. Promise!Ask(q, DueOf(q)')
    BY DEF Promise!Ask, OthersSame, Same
  <1> QED
    BY <1>1 DEF Promise!IssuanceNext

LEMMA IssueStep ==
    ASSUME NEW q \in RequestId, OthersSame(q),
           AnswerOf(q) \in {"awaited", "failure", "lost"}, AnswerOf(q)' = AnswerOf(q),
           DueOf(q) # NoScope, DueOf(q)' = DueOf(q),
           IssuedOf(q) = NoScope, IssuedOf(q)' = DueOf(q),
           RecordOf(q) = "none", RecordOf(q)' = RecordOf(q)
    PROVE  Promise!IssuanceNext
PROOF
  <1>1. Promise!Issue(q)
    BY DEF Promise!Issue, OthersSame, Same
  <1> QED
    BY <1>1 DEF Promise!IssuanceNext

LEMMA RecordStep ==
    ASSUME NEW q \in RequestId, OthersSame(q),
           AnswerOf(q) = "awaited", AnswerOf(q)' = AnswerOf(q),
           DueOf(q)' = DueOf(q), IssuedOf(q)' = IssuedOf(q),
           RecordOf(q) = "none",
           \/ RecordOf(q)' = "allow" /\ IssuedOf(q) # NoScope
           \/ RecordOf(q)' = "deny" /\ IssuedOf(q) = NoScope
    PROVE  Promise!IssuanceNext
PROOF
  <1>1. Promise!RecordAllow(q) \/ Promise!RecordDeny(q)
    BY DEF Promise!RecordAllow, Promise!RecordDeny, OthersSame, Same
  <1> QED
    BY <1>1 DEF Promise!IssuanceNext

LEMMA AnswerStep ==
    ASSUME NEW q \in RequestId, OthersSame(q),
           AnswerOf(q) = "awaited",
           DueOf(q)' = DueOf(q), IssuedOf(q)' = IssuedOf(q), RecordOf(q)' = RecordOf(q),
           \/ AnswerOf(q)' = "token" /\ RecordOf(q) = "allow"
           \/ /\ AnswerOf(q)' = "refusal"
              /\ RecordOf(q) = "deny" \/ (RecordOf(q) = "none" /\ DueOf(q) = NoScope)
           \/ AnswerOf(q)' = "failure" /\ RecordOf(q) = "none"
    PROVE  Promise!IssuanceNext
PROOF
  <1>1. Promise!GiveToken(q) \/ Promise!Refuse(q) \/ Promise!Fail(q)
    BY DEF Promise!GiveToken, Promise!Refuse, Promise!Fail, OthersSame, Same
  <1> QED
    BY <1>1 DEF Promise!IssuanceNext

LEMMA LoseStep ==
    ASSUME NEW Q \in SUBSET RequestId, Q # {},
           \A p \in RequestId : /\ DueOf(p)' = DueOf(p) /\ IssuedOf(p)' = IssuedOf(p)
                                /\ RecordOf(p)' = RecordOf(p),
           \A p \in Q : AnswerOf(p) = "awaited" /\ AnswerOf(p)' = "lost",
           \A p \in RequestId \ Q : AnswerOf(p)' = AnswerOf(p)
    PROVE  Promise!IssuanceNext
PROOF
  <1>1. Promise!Lose(Q)
    BY DEF Promise!Lose
  <1> QED
    BY <1>1 DEF Promise!IssuanceNext
-----------------------------------------------------------------------------
(* What the invariant says in the promise's terms.                         *)

LEMMA RecordsAreFounded ==
    ASSUME IInv, NEW q \in RequestId
    PROVE  /\ RecordOf(q) = "allow" <=> Recorded(q, "allow")
           /\ RecordOf(q) = "deny" <=> Recorded(q, "deny")
           /\ RecordOf(q) \in {"allow", "deny", "none"}
PROOF
  <1>1. Local(q)
    BY DEF IInv
  <1>2. Recorded(q, "allow") => reply[q].kind = "token"
    BY <1>1 DEF Local, AllowsAreFounded
  <1>3. Recorded(q, "deny") => reply[q].kind = "error"
    BY <1>1, ErrorReplies DEF Local, RefusalsAreFounded, Refused
  <1> QED
    BY <1>2, <1>3 DEF RecordOf

LEMMA SilentHasNoRecord ==
    ASSUME IInv, NEW q \in RequestId, Silent(q)
    PROVE  RecordOf(q) = "none"
  BY DEF Silent, RecordOf, Recorded

LEMMA IssuedIsDue ==
    ASSUME IInv, NEW q \in RequestId
    PROVE  IssuedOf(q) = NoScope <=> tokens[q] = <<>>
PROOF
  <1>1. TypeOK /\ Local(q)
    BY DEF IInv
  <1>2. CASE tokens[q] = <<>>
    BY <1>2 DEF IssuedOf
  <1>3. CASE tokens[q] # <<>>
    <2>1. tokens[q] = <<DueScope(form[q])>> /\ Entitled(policies, form[q])
      BY <1>1, <1>3 DEF Local, MintsAreDue
    <2>2. form[q] \in Forms
      BY <1>1 DEF TypeOK
    <2>3. DueScope(form[q]) \in TokenScope
      BY <2>1, <2>2, DueBodyCreates DEF Entitled, Wellformed
    <2>4. IssuedOf(q) = DueScope(form[q])
      BY <2>1 DEF IssuedOf
    <2> QED
      BY <1>3, <2>3, <2>4, NoScopeAssumption
  <1> QED
    BY <1>2, <1>3
-----------------------------------------------------------------------------
(* Steps of a handler.                                                     *)

LEMMA OthersLookTheSame ==
    ASSUME TypeOK, NEW q \in RequestId, RequestStep(q)
    PROVE  OthersSame(q)
PROOF
  <1>1. OthersUntouched(q)
    BY RequestStepFrame
  <1> QED
    BY <1>1, EntriesDecide DEF OthersUntouched, OthersSame

\* Steps inside the handler without a line of the log.
QuietStep(q) ==
    \/ RejectForm(q) \/ AcceptForm(q) \/ Unauthenticated(q) \/ Authenticated(q)
    \/ RejectTarget(q) \/ RejectScope(q) \/ RejectOversized(q) \/ Permit(q)
    \/ LookupFound(q) \/ LookupRetried(q) \/ LookupFailed(q)
    \/ SendMint(q) \/ ReceiveToken(q) \/ MintFailed(q)

LEMMA QuietStepStutters ==
    ASSUME TypeOK, NEW q \in RequestId, QuietStep(q)
    PROVE  Same(q)
PROOF
  <1>1. log' = log
    BY DEF QuietStep, RejectForm, AcceptForm, Unauthenticated, Authenticated,
           RejectTarget, RejectScope, RejectOversized, Permit,
           LookupFound, LookupRetried, LookupFailed, SendMint, ReceiveToken, MintFailed
  <1>2. pc[q] \in Working /\ pc'[q] \in Working
    BY DEF QuietStep, RejectForm, AcceptForm, Unauthenticated, Authenticated,
           RejectTarget, RejectScope, RejectOversized, Permit, FirstLookup,
           LookupFound, LookupRetried, LookupFailed, SendMint, ReceiveToken, MintFailed,
           Go, Answer, TypeOK, Working, Lookups
  <1>3. RequestStep(q)
    BY DEF QuietStep, RequestStep, HandlerStep
  <1>4. policies' = policies /\ form' = form /\ tokens' = tokens
    BY <1>3, RequestStepFrame DEF OthersUntouched
  <1>5. pc[q] # "idle" /\ pc'[q] # "idle"
    BY <1>2 DEF Working, Lookups
  <1>6. DueOf(q)' = DueOf(q) /\ IssuedOf(q)' = IssuedOf(q)
    BY <1>4, <1>5 DEF DueOf, Due, IssuedOf
  <1>7. RecordOf(q)' = RecordOf(q)
    BY <1>1 DEF RecordOf, Recorded
  <1>8. AnswerOf(q)' = AnswerOf(q)
    BY <1>2 DEF AnswerOf, Working, Lookups
  <1> QED
    BY <1>6, <1>7, <1>8 DEF Same

LEMMA ArrivalIsAsked ==
    ASSUME IInv, NEW q \in RequestId, Arrive(q)
    PROVE  Promise!IssuanceNext
PROOF
  <1>1. TypeOK /\ Local(q) /\ RequestStep(q)
    BY DEF IInv, RequestStep
  <1>2. pc[q] = "idle" /\ pc'[q] = "check form"
    BY <1>1 DEF Arrive, Go, TypeOK
  <1>3. log' = log /\ tokens' = tokens
    BY DEF Arrive, github
  <1>4. AnswerOf(q) = "not asked" /\ AnswerOf(q)' = "awaited"
    BY <1>2 DEF AnswerOf, Working, Lookups
  <1>5. IssuedOf(q)' = IssuedOf(q) /\ RecordOf(q)' = RecordOf(q)
    BY <1>3 DEF IssuedOf, RecordOf, Recorded
  <1>6. TypeOK'
    BY <1>1, RequestStepTypes
  <1>7. DueOf(q)' \in DueScopes \cup {NoScope}
    <2>1. policies' \in PolicySets /\ form'[q] \in Forms
      BY <1>6 DEF TypeOK
    <2>2. DueOf(q)' = IF Entitled(policies', form'[q]) THEN DueScope(form'[q]) ELSE NoScope
      BY <1>2, <2>1 DEF DueOf, Due
    <2>3. Entitled(policies', form'[q]) => DueScope(form'[q]) \in DueScopes
      BY <2>1 DEF Entitled, DueScopes
    <2> QED
      BY <2>2, <2>3
  <1> QED
    BY <1>1, <1>4, <1>5, <1>7, OthersLookTheSame, AskStep

\* Deny, RefuseMint and AuditAllow: a line of the log, and a reply decided on.
LEMMA DecisionIsRecorded ==
    ASSUME IInv, NEW q \in RequestId, Deny(q) \/ RefuseMint(q) \/ AuditAllow(q)
    PROVE  Promise!IssuanceNext
PROOF
  <1>1. TypeOK /\ Local(q) /\ RequestStep(q)
    BY DEF IInv, RequestStep, HandlerStep
  <1>2. /\ pc[q] \in {"decide", "check ceiling", "audit"} /\ pc'[q] = "respond"
        /\ pc[q] = "audit" <=> AuditAllow(q)
    BY <1>1 DEF Deny, RefuseMint, AuditAllow, Answer, Go, TypeOK
  <1>3. policies' = policies /\ form' = form /\ tokens' = tokens
    BY <1>1, RequestStepFrame DEF OthersUntouched
  <1>4. DueOf(q)' = DueOf(q) /\ IssuedOf(q)' = IssuedOf(q)
    <2>1. pc[q] # "idle" /\ pc'[q] # "idle"
      BY <1>2
    <2> QED
      BY <1>3, <2>1 DEF DueOf, Due, IssuedOf
  <1>5. AnswerOf(q) = "awaited" /\ AnswerOf(q)' = "awaited"
    BY <1>2 DEF AnswerOf, Working, Lookups
  <1>6. Silent(q)
    BY <1>1, <1>2 DEF Local, NothingTooEarly, Early, Cleared
  <1>7. RecordOf(q) = "none"
    BY <1>6, SilentHasNoRecord
  <1>8. CASE AuditAllow(q)
    <2>1. AllowEvent(q, ReceivedScope(q)) \in log'
      BY <1>8 DEF AuditAllow
    <2>2. Recorded(q, "allow")'
      BY <2>1 DEF Recorded, AllowEvent
    <2>3. RecordOf(q)' = "allow"
      BY <2>2 DEF RecordOf
    <2>4. IssuedOf(q) # NoScope
      BY <1>1, <1>2, <1>8, IssuedIsDue DEF Local, NothingTooEarly
    <2> QED
      BY <1>1, <1>4, <1>5, <1>7, <2>3, <2>4, OthersLookTheSame, RecordStep
  <1>9. CASE Deny(q) \/ RefuseMint(q)
    <2>1. PICK reason : log' = log \cup {DenyEvent(q, reason)}
      BY <1>9 DEF Deny, RefuseMint
    <2>2. Recorded(q, "deny")'
      <3>1. DenyEvent(q, reason) \in log'
        BY <2>1
      <3> QED
        BY <3>1 DEF Recorded, DenyEvent
    <2>3. ~Recorded(q, "allow")'
      BY <1>6, <2>1 DEF Recorded, DenyEvent, Silent
    <2>4. RecordOf(q)' = "deny"
      BY <2>2, <2>3 DEF RecordOf
    <2>5. pc[q] \in Early
      BY <1>9 DEF Deny, RefuseMint, Answer, Go, Early
    <2>6. IssuedOf(q) = NoScope
      BY <1>1, <2>5, IssuedIsDue DEF Local, NothingTooEarly
    <2> QED
      BY <1>1, <1>4, <1>5, <1>7, <2>4, <2>6, OthersLookTheSame, RecordStep
  <1> QED
    BY <1>8, <1>9

\* The reply that goes out is one the promise allows: a token is on record, a
\* refusal is on record or the request is due nothing.
LEMMA ReplyIsPromised ==
    ASSUME IInv, NEW q \in RequestId, pc[q] \in {"respond", "answered"}
    PROVE  \/ OutcomeOf(q) = "token" /\ RecordOf(q) = "allow"
           \/ /\ OutcomeOf(q) = "refusal" /\ Refused(q)
              /\ RecordOf(q) = "deny" \/ (RecordOf(q) = "none" /\ DueOf(q) = NoScope)
           \/ OutcomeOf(q) = "failure" /\ RecordOf(q) = "none"
PROOF
  <1>1. TypeOK /\ Local(q)
    BY DEF IInv
  <1>2. reply[q] # NoReply /\ reply[q] \in Reply /\ pc[q] # "idle"
    BY <1>1 DEF Local, NothingTooEarly, TypeOK
  <1>3. CASE reply[q].kind = "token"
    <2>1. AllowEvent(q, reply[q].scope) \in log
      BY <1>1, <1>3 DEF Local, AllowsAreFounded
    <2>2. Recorded(q, "allow")
      BY <2>1 DEF Recorded, AllowEvent
    <2> QED
      BY <1>3, <2>2 DEF OutcomeOf, RecordOf
  <1>4. CASE reply[q].kind # "token"
    <2>1. PICK code \in ErrorCode : reply[q] = ErrorReply(code)
      BY <1>2, <1>4 DEF Reply, ErrorReply
    <2>2. RecordOf(q) # "allow"
      BY <1>1, <1>4, RecordsAreFounded DEF Local, AllowsAreFounded
    <2>3. CASE code = "server_error"
      <3>1. ~Refused(q)
        BY <2>1, <2>3, ErrorReplies DEF Refused, Refusals
      <3>2. RecordOf(q) = "none"
        BY <1>1, <2>2, <3>1, RecordsAreFounded DEF Local, RefusalsAreFounded
      <3> QED
        BY <1>4, <2>1, <2>3, <3>2 DEF OutcomeOf, IsFailure
    <2>4. CASE code # "server_error"
      <3>1. Refused(q)
        BY <2>1, <2>4 DEF Refused, Refusals
      <3>2. RecordOf(q) \in {"deny", "none"}
        BY <2>2, RecordsAreFounded
      <3>3. reply[q] # ErrorReply("server_error")
        BY <2>1, <2>4, ErrorReplies
      <3>4. CASE RecordOf(q) = "deny"
        BY <1>4, <3>1, <3>3, <3>4 DEF OutcomeOf, IsFailure
      <3>5. CASE RecordOf(q) = "none" /\ DueOf(q) = NoScope
        BY <1>4, <3>1, <3>3, <3>5 DEF OutcomeOf, IsFailure
      <3>6. CASE RecordOf(q) = "none" /\ DueOf(q) # NoScope
        <4>1. Entitled(policies, form[q])
          BY <1>1, <1>2, <3>6, DueOfForm
        <4>2. reply[q] = ErrorReply("invalid_grant")
          BY <1>1, <3>1, <3>6, <4>1, RecordsAreFounded DEF Local, RefusalsAreFounded
        <4> QED
          BY <1>4, <3>6, <4>2 DEF OutcomeOf, IsFailure
      <3> QED
        BY <3>2, <3>4, <3>5, <3>6
    <2> QED
      BY <2>3, <2>4
  <1> QED
    BY <1>3, <1>4

LEMMA ResponseIsPromised ==
    ASSUME IInv, NEW q \in RequestId, Respond(q) \/ LoseResponse(q)
    PROVE  Promise!IssuanceNext
PROOF
  <1>1. TypeOK /\ RequestStep(q)
    BY DEF IInv, RequestStep, HandlerStep
  <1>2. pc[q] = "respond" /\ pc'[q] = (IF Respond(q) THEN "answered" ELSE "lost")
    BY <1>1 DEF Respond, LoseResponse, Go, TypeOK
  <1>3. policies' = policies /\ form' = form /\ tokens' = tokens
    BY <1>1, RequestStepFrame DEF OthersUntouched
  <1>4. reply' = reply /\ log' = log
    BY DEF Respond, LoseResponse
  <1>5. pc[q] # "idle" /\ pc'[q] # "idle"
    BY <1>2
  <1>6. DueOf(q)' = DueOf(q) /\ IssuedOf(q)' = IssuedOf(q)
    BY <1>3, <1>5 DEF DueOf, Due, IssuedOf
  <1>7. RecordOf(q)' = RecordOf(q)
    BY <1>4 DEF RecordOf, Recorded
  <1>8. AnswerOf(q) = "awaited"
    BY <1>2 DEF AnswerOf, Working, Lookups
  <1>9. OthersSame(q)
    BY <1>1, OthersLookTheSame
  <1>10. CASE Respond(q)
    <2>1. OutcomeOf(q)' = OutcomeOf(q)
      BY <1>4, <1>6, <1>7 DEF OutcomeOf, IsFailure
    <2>2. AnswerOf(q)' = OutcomeOf(q)
      BY <1>2, <1>10, <2>1 DEF AnswerOf, Working, Lookups
    <2> QED
      BY <1>2, <1>6, <1>7, <1>8, <1>9, <2>2, ReplyIsPromised, AnswerStep
  <1>11. CASE ~Respond(q)
    <2>1. AnswerOf(q)' = "lost"
      BY <1>2, <1>11 DEF AnswerOf, Working, Lookups
    <2>2. \A p \in RequestId : /\ DueOf(p)' = DueOf(p) /\ IssuedOf(p)' = IssuedOf(p)
                               /\ RecordOf(p)' = RecordOf(p)
      BY <1>6, <1>7, <1>9 DEF OthersSame, Same
    <2>3. \A p \in RequestId \ {q} : AnswerOf(p)' = AnswerOf(p)
      BY <1>9 DEF OthersSame, Same
    <2>4. {q} \in SUBSET RequestId /\ {q} # {}
      OBVIOUS
    <2>5. \A p \in {q} : AnswerOf(p) = "awaited" /\ AnswerOf(p)' = "lost"
      BY <1>8, <2>1
    <2> QED
      BY <2>2, <2>3, <2>4, <2>5, LoseStep
  <1> QED
    BY <1>10, <1>11

LEMMA RequestStepImplements ==
    ASSUME IInv, NEW q \in RequestId, RequestStep(q)
    PROVE  [Promise!IssuanceNext]_(Promise!issuanceVars)
PROOF
  <1>1. CASE QuietStep(q)
    <2>1. Same(q) /\ OthersSame(q)
      BY <1>1, QuietStepStutters, OthersLookTheSame DEF IInv
    <2>2. \A p \in RequestId : Same(p)
      BY <2>1 DEF OthersSame
    <2> QED
      BY <2>2, SameStutters
  <1>2. CASE ~QuietStep(q)
    BY <1>2, ArrivalIsAsked, DecisionIsRecorded, ResponseIsPromised
       DEF RequestStep, HandlerStep, QuietStep
  <1> QED
    BY <1>1, <1>2
-----------------------------------------------------------------------------
(* GitHub and the process.                                                 *)

\* The token that GitHub creates is the one due, and comes before any answer
\* that would exclude it.
LEMMA CreationIsIssue ==
    ASSUME IInv, NEW q \in RequestId, GitHubCreates(q)
    PROVE  Promise!IssuanceNext
PROOF
  <1>1. TypeOK /\ Local(q)
    BY DEF IInv
  <1>2. /\ policies' = policies /\ form' = form /\ pc' = pc
        /\ reply' = reply /\ log' = log
    BY DEF GitHubCreates, world, handlers
  <1>3. /\ calls[q] = {DueBody(form[q])} /\ tokens[q] = <<>>
        /\ Entitled(policies, form[q])
    BY <1>1 DEF GitHubCreates, Local, MintsAreDue
  <1>4. PICK body \in calls[q] :
           tokens' = [tokens EXCEPT ![q] =
                         Append(@, CreatedScope(body, installation[body.account]))]
    BY DEF GitHubCreates
  <1>5. form[q] \in Forms /\ Decodes(form[q]) /\ body = DueBody(form[q])
    BY <1>1, <1>3 DEF TypeOK, Entitled, Wellformed
  <1>6. CreatedScope(body, installation[body.account]) = DueScope(form[q])
    BY <1>5, DueBodyCreates
  <1>7. Append(tokens[q], CreatedScope(body, installation[body.account]))
           = <<DueScope(form[q])>>
    BY <1>3, <1>6
  <1>8. /\ tokens'[q] = <<DueScope(form[q])>>
        /\ \A p \in RequestId \ {q} : tokens'[p] = tokens[p]
    BY <1>1, <1>4, <1>7 DEF TypeOK
  <1>9. pc[q] \notin Early /\ ~Refused(q) /\ reply[q].kind # "token"
    BY <1>1, <1>3 DEF Local, NothingTooEarly, RefusalsAreFounded, AllowsAreFounded
  <1>10. DueOf(q) = DueScope(form[q]) /\ DueOf(q) # NoScope
    BY <1>1, <1>3, <1>9, DueOfForm DEF Early
  <1>11. RecordOf(q) = "none"
    BY <1>1, <1>9, RecordsAreFounded DEF Local, RefusalsAreFounded, AllowsAreFounded
  <1>12. AnswerOf(q) \in {"awaited", "failure", "lost"}
    <2>1. pc[q] \in Working \cup {"lost", "answered"}
      BY <1>1, <1>9 DEF TypeOK, PC, Early
    <2>2. pc[q] = "answered" => OutcomeOf(q) = "failure"
      BY <1>9, ReplyIsPromised DEF OutcomeOf
    <2> QED
      BY <2>1, <2>2, AnswerByPlace
  <1>13. DueOf(q)' = DueOf(q) /\ RecordOf(q)' = RecordOf(q)
    BY <1>2 DEF DueOf, Due, RecordOf, Recorded
  <1>14. OutcomeOf(q)' = OutcomeOf(q)
    BY <1>2, <1>13 DEF OutcomeOf, IsFailure
  <1>15. AnswerOf(q)' = AnswerOf(q)
    BY <1>2, <1>14 DEF AnswerOf
  <1>16. IssuedOf(q) = NoScope /\ IssuedOf(q)' = DueOf(q)
    BY <1>3, <1>8, <1>10 DEF IssuedOf
  <1>17. OthersSame(q)
    BY <1>2, <1>8, EntriesDecide DEF OthersSame
  <1> QED
    BY <1>10, <1>11, <1>12, <1>13, <1>15, <1>16, <1>17, IssueStep

LEMMA EndIsLoss ==
    ASSUME IInv, CutOff
    PROVE  [Promise!IssuanceNext]_(Promise!issuanceVars)
PROOF
  <1>1. /\ policies' = policies /\ form' = form /\ tokens' = tokens
        /\ reply' = reply /\ log' = log
        /\ pc' = [q \in RequestId |-> IF q \in InFlight THEN "lost" ELSE pc[q]]
    BY DEF CutOff, world, github
  <1>2. ASSUME NEW p \in RequestId \ InFlight
        PROVE  Same(p)
    <2>1. pc'[p] = pc[p]
      BY <1>1
    <2> QED
      BY <1>1, <2>1, EntriesDecide
  <1>3. ASSUME NEW p \in InFlight
        PROVE  /\ DueOf(p)' = DueOf(p) /\ IssuedOf(p)' = IssuedOf(p)
               /\ RecordOf(p)' = RecordOf(p)
               /\ AnswerOf(p) = "awaited" /\ AnswerOf(p)' = "lost"
    <2>1. p \in RequestId /\ pc[p] \in Working /\ pc'[p] = "lost"
      BY <1>1 DEF InFlight
    <2>2. pc[p] # "idle" /\ pc'[p] # "idle"
      BY <2>1 DEF Working, Lookups
    <2>3. DueOf(p)' = DueOf(p) /\ IssuedOf(p)' = IssuedOf(p)
      BY <1>1, <2>2 DEF DueOf, Due, IssuedOf
    <2>4. RecordOf(p)' = RecordOf(p)
      BY <1>1 DEF RecordOf, Recorded
    <2>5. AnswerOf(p) = "awaited" /\ AnswerOf(p)' = "lost"
      BY <2>1 DEF AnswerOf, Working, Lookups
    <2> QED
      BY <2>3, <2>4, <2>5
  <1>4. CASE InFlight = {}
    BY <1>2, <1>4, SameStutters
  <1>5. CASE InFlight # {}
    <2>1. InFlight \in SUBSET RequestId
      BY DEF InFlight
    <2>2. \A p \in RequestId : /\ DueOf(p)' = DueOf(p) /\ IssuedOf(p)' = IssuedOf(p)
                               /\ RecordOf(p)' = RecordOf(p)
      BY <1>2, <1>3 DEF Same
    <2>3. \A p \in RequestId \ InFlight : AnswerOf(p)' = AnswerOf(p)
      BY <1>2 DEF Same
    <2> QED
      BY <1>3, <1>5, <2>1, <2>2, <2>3, LoseStep
  <1> QED
    BY <1>4, <1>5

\* A dropped call, a changed installation, a signal, the return of Shutdown
\* and a new process change nothing the promise speaks of.
LEMMA UnseenStepStutters ==
    ASSUME \/ \E q \in RequestId : GitHubDrops(q)
           \/ \E a \in Account, perms \in Ceilings : ChangeInstallation(a, perms)
           \/ ReceiveSignal \/ ShutdownReturns \/ Restart
           \/ UNCHANGED vars
    PROVE  UNCHANGED Promise!issuanceVars
PROOF
  <1>1. /\ policies' = policies /\ form' = form /\ tokens' = tokens
        /\ pc' = pc /\ reply' = reply /\ log' = log
    BY DEF GitHubDrops, ChangeInstallation, ReceiveSignal, ShutdownReturns, Restart,
           world, github, handlers, vars
  <1> QED
    BY <1>1, EntriesDecide, SameStutters
-----------------------------------------------------------------------------
LEMMA StepKeepsPromise ==
    IInv /\ [Next]_vars => [Promise!IssuanceNext]_(Promise!issuanceVars)
PROOF
  <1> SUFFICES ASSUME IInv, [Next]_vars
               PROVE  [Promise!IssuanceNext]_(Promise!issuanceVars)
    OBVIOUS
  <1>1. CASE \E q \in RequestId : RequestStep(q)
    BY <1>1, RequestStepImplements
  <1>2. CASE \E q \in RequestId : GitHubCreates(q)
    BY <1>2, CreationIsIssue
  <1>3. CASE RunReturns \/ Crash
    BY <1>3, EndIsLoss DEF RunReturns, Crash
  <1>4. CASE \/ \E q \in RequestId : GitHubDrops(q)
             \/ \E a \in Account, perms \in Ceilings : ChangeInstallation(a, perms)
             \/ ReceiveSignal \/ ShutdownReturns \/ Restart
             \/ UNCHANGED vars
    BY <1>4, UnseenStepStutters
  <1> QED
    BY <1>1, <1>2, <1>3, <1>4 DEF Next, RequestStep, GitHubStep, ProcessStep

LEMMA StartIsPromised == Init => Promise!IssuanceInit
PROOF
  <1> SUFFICES ASSUME Init, NEW q \in RequestId
               PROVE  /\ DueOf(q) = NoScope /\ IssuedOf(q) = NoScope
                      /\ RecordOf(q) = "none" /\ AnswerOf(q) = "not asked"
    BY DEF Promise!IssuanceInit
  <1>1. pc[q] = "idle" /\ tokens[q] = <<>> /\ log = {}
    BY DEF Init
  <1>2. AnswerOf(q) = "not asked"
    BY <1>1, AnswerByPlace
  <1> QED
    BY <1>1, <1>2 DEF DueOf, IssuedOf, RecordOf, Recorded

\* Every interleaving of any number of handlers with GitHub, administrators,
\* shutdowns and crashes is a behaviour of the promise.
THEOREM HandlersImplementIssuance == Spec => ImplementsIssuance
  BY StartIsPromised, StepKeepsPromise, InvariantHolds, PTL
     DEF Spec, ImplementsIssuance, Promise!IssuanceSpec
-----------------------------------------------------------------------------
(* More that follows from the invariant.                                   *)

\* What GitHub adds to every token, asked for or not.
Added == {kl \in Key \X Level : kl[1] \in ImpliedKeys /\ kl[2] = "read"}

TokensStayWithinGrants ==
    \A q \in RequestId : \A n \in DOMAIN tokens[q] :
        \A r \in Reach(tokens[q][n]) :
            Authority(tokens[q][n].permissions)
                \subseteq Held(policies, Input(form[q]), r) \cup Added

LEMMA ImpliedAuthority ==
    ASSUME NEW m \in PermissionMap
    PROVE  Authority(WithImplied(m)) \subseteq Authority(m) \cup Added
  BY DEF Authority, WithImplied, Added, Includes, Level, PermissionMap

LEMMA WithinGrants == IInv => TokensStayWithinGrants
PROOF
  <1> SUFFICES ASSUME IInv, NEW q \in RequestId, NEW n \in DOMAIN tokens[q],
                      NEW r \in Reach(tokens[q][n])
               PROVE  Authority(tokens[q][n].permissions)
                          \subseteq Held(policies, Input(form[q]), r) \cup Added
    BY DEF TokensStayWithinGrants
  <1>1. /\ Entitled(policies, form[q])
        /\ r \in Range(Input(form[q]).resources)
        /\ tokens[q][n].permissions = WithImplied(Perms(q))
    BY TokensEntitled DEF TokensAreEntitled
  <1>2. IsCovered(policies, Input(form[q]), r)
    BY <1>1 DEF Entitled
  <1>3. Input(form[q]).required = Perms(q)
    BY DEF Input, Perms
  <1>4. Authority(Perms(q)) \subseteq Held(policies, Input(form[q]), r)
    BY <1>2, <1>3 DEF IsCovered
  <1>5. Perms(q) \in PermissionMap
    BY FormFields, DecodeScopeType DEF Perms, IInv, TypeOK
  <1> QED
    BY <1>1, <1>4, <1>5, ImpliedAuthority

\* On every resource it reaches, a token carries no more authority than the
\* policies of the caller's issuer that match that very resource grant, but for
\* the read levels that GitHub adds of itself.
THEOREM NoTokenExceedsItsGrants == Spec => []TokensStayWithinGrants
  BY WithinGrants, InvariantHolds, PTL
-----------------------------------------------------------------------------
OneEventEach == \A e, f \in log : e.request = f.request => e = f

LEMMA EventIsFirst ==
    ASSUME IInv, NEW q \in RequestId, Silent(q), OneEventEach,
           NEW event, event.request = q, log' = log \cup {event}
    PROVE  OneEventEach'
  BY DEF OneEventEach, Silent

LEMMA EventsStaySingle == IInv /\ OneEventEach /\ [Next]_vars => OneEventEach'
PROOF
  <1> SUFFICES ASSUME IInv, OneEventEach, [Next]_vars PROVE OneEventEach'
    OBVIOUS
  <1>1. ASSUME log' = log PROVE OneEventEach'
    BY <1>1 DEF OneEventEach
  <1>2. ASSUME NEW q \in RequestId, RequestStep(q) PROVE OneEventEach'
    <2>1. pc[q] \in Early \cup Cleared => Silent(q)
      BY DEF IInv, Local, NothingTooEarly
    <2>2. CASE Deny(q)
      <3>1. Silent(q)
        BY <2>1, <2>2 DEF Deny, Answer, Go, Early
      <3>2. log' = log \cup {DenyEvent(q, "policy")} /\ DenyEvent(q, "policy").request = q
        BY <2>2 DEF Deny, DenyEvent
      <3> QED
        BY <3>1, <3>2, EventIsFirst
    <2>3. CASE RefuseMint(q)
      <3>1. Silent(q)
        BY <2>1, <2>3 DEF RefuseMint, Early
      <3>2. PICK reason : log' = log \cup {DenyEvent(q, reason)}
        BY <2>3 DEF RefuseMint
      <3>3. DenyEvent(q, reason).request = q
        BY DEF DenyEvent
      <3> QED
        BY <3>1, <3>2, <3>3, EventIsFirst
    <2>4. CASE AuditAllow(q)
      <3>1. Silent(q)
        BY <2>1, <2>4 DEF AuditAllow, Cleared
      <3>2. /\ log' = log \cup {AllowEvent(q, ReceivedScope(q))}
            /\ AllowEvent(q, ReceivedScope(q)).request = q
        BY <2>4 DEF AuditAllow, AllowEvent
      <3> QED
        BY <3>1, <3>2, EventIsFirst
    <2>5. ~Deny(q) /\ ~RefuseMint(q) /\ ~AuditAllow(q) => log' = log
      BY <1>2 DEF RequestStep, HandlerStep, Arrive, RejectForm, AcceptForm, Unauthenticated,
                  Authenticated, RejectTarget, RejectScope, RejectOversized, Permit,
                  LookupFound, LookupRetried, LookupFailed, SendMint, ReceiveToken,
                  MintFailed, Respond, LoseResponse
    <2> QED
      BY <1>1, <2>2, <2>3, <2>4, <2>5
  <1>3. CASE GitHubStep \/ ProcessStep \/ UNCHANGED vars
    BY <1>1, <1>3 DEF GitHubStep, GitHubCreates, GitHubDrops, ChangeInstallation,
                      ProcessStep, ReceiveSignal, ShutdownReturns, RunReturns, Crash, CutOff,
                      Restart, vars
  <1> QED
    BY <1>2, <1>3 DEF Next, RequestStep

\* The audit log says one thing of a request, whatever becomes of it: it never
\* has both an allow and a deny, two reasons or two scopes for the same one.
THEOREM OneEventPerRequest == Spec => []OneEventEach
PROOF
  <1>1. Init => OneEventEach
    BY DEF Init, OneEventEach
  <1> QED
    BY <1>1, EventsStaySingle, InvariantHolds, PTL DEF Spec
-----------------------------------------------------------------------------
(* The safe part of EveryRequestEnds: a handler has only so far to go, and *)
(* no form leaves it without a next step.                                  *)

Stage(place) ==
    CASE place = "idle"                                  -> 0
      [] place = "check form"                            -> 1
      [] place = "authenticate"                          -> 2
      [] place = "decide"                                -> 3
      [] place = "lookup org"                            -> 4
      [] place \in {"lookup user", "lookup enterprise"}  -> 5
      [] place = "check ceiling"                         -> 6
      [] place = "mint"                                  -> 7
      [] place = "audit"                                 -> 8
      [] place = "respond"                               -> 9
      [] place \in {"answered", "lost"}                  -> 10

Ahead(from, to) == Stage(from) < Stage(to)
Advances(q) == Ahead(pc[q], pc'[q])

\* The ways of the handlers.
LEMMA Ways ==
    /\ Ahead("idle", "check form") /\ Ahead("check form", "authenticate")
    /\ Ahead("authenticate", "decide")
    /\ Ahead("decide", "lookup org") /\ Ahead("decide", "lookup enterprise")
    /\ Ahead("lookup org", "lookup user")
    /\ \A step \in Lookups : Ahead(step, "check ceiling")
    /\ Ahead("check ceiling", "mint") /\ Ahead("mint", "audit")
    /\ Ahead("respond", "answered")
    /\ \A place \in Working : Ahead(place, "lost")
    /\ \A place \in Working \ {"respond"} : Ahead(place, "respond")
PROOF
  <1> USE DEF Ahead, Stage
  <1>1. /\ Ahead("idle", "check form") /\ Ahead("check form", "authenticate")
        /\ Ahead("authenticate", "decide")
        /\ Ahead("decide", "lookup org") /\ Ahead("decide", "lookup enterprise")
    OBVIOUS
  <1>2. /\ Ahead("lookup org", "lookup user")
        /\ Ahead("lookup org", "check ceiling") /\ Ahead("lookup user", "check ceiling")
        /\ Ahead("lookup enterprise", "check ceiling")
        /\ Ahead("check ceiling", "mint") /\ Ahead("mint", "audit")
        /\ Ahead("respond", "answered") /\ Ahead("respond", "lost")
    OBVIOUS
  <1>3. /\ Ahead("check form", "respond") /\ Ahead("check form", "lost")
        /\ Ahead("authenticate", "respond") /\ Ahead("authenticate", "lost")
        /\ Ahead("decide", "respond") /\ Ahead("decide", "lost")
        /\ Ahead("lookup org", "respond") /\ Ahead("lookup org", "lost")
        /\ Ahead("lookup user", "respond") /\ Ahead("lookup user", "lost")
        /\ Ahead("lookup enterprise", "respond") /\ Ahead("lookup enterprise", "lost")
        /\ Ahead("check ceiling", "respond") /\ Ahead("check ceiling", "lost")
        /\ Ahead("mint", "respond") /\ Ahead("mint", "lost")
        /\ Ahead("audit", "respond") /\ Ahead("audit", "lost")
    OBVIOUS
  <1> HIDE DEF Ahead
  <1> QED
    BY <1>1, <1>2, <1>3 DEF Working, Lookups

LEMMA GoMoves ==
    ASSUME TypeOK, NEW q \in RequestId, NEW from, NEW to, Go(q, from, to)
    PROVE  pc[q] = from /\ pc'[q] = to
  BY DEF TypeOK, Go

LEMMA AnswerAdvances ==
    ASSUME TypeOK, NEW q \in RequestId, NEW from, NEW r, Answer(q, from, r),
           from \in Working \ {"respond"}
    PROVE  Advances(q)
  BY GoMoves, Ways DEF Answer, Advances

LEMMA StepAdvances ==
    ASSUME TypeOK, NEW q \in RequestId, RequestStep(q)
    PROVE  Advances(q)
PROOF
  <1>1. ASSUME NEW from, NEW to, Go(q, from, to), Ahead(from, to)
        PROVE  Advances(q)
    BY <1>1, GoMoves DEF Advances
  <1>2. CASE Arrive(q) \/ AcceptForm(q) \/ Authenticated(q)
    BY <1>1, <1>2, Ways DEF Arrive, AcceptForm, Authenticated
  <1>3. CASE RejectForm(q) \/ Unauthenticated(q)
    BY <1>3, AnswerAdvances DEF RejectForm, Unauthenticated, Working
  <1>4. CASE RejectTarget(q) \/ RejectScope(q) \/ RejectOversized(q) \/ Deny(q)
    BY <1>4, AnswerAdvances
       DEF RejectTarget, RejectScope, RejectOversized, Deny, Working
  <1>5. CASE Permit(q)
    <2>1. Go(q, "decide", "lookup org") \/ Go(q, "decide", "lookup enterprise")
      BY <1>5 DEF Permit, FirstLookup
    <2> QED
      BY <1>1, <2>1, Ways
  <1>6. CASE LookupFound(q)
    <2>1. PICK step \in Lookups : Go(q, step, "check ceiling")
      BY <1>6 DEF LookupFound
    <2> QED
      BY <1>1, <2>1, Ways
  <1>7. CASE LookupRetried(q)
    BY <1>1, <1>7, Ways DEF LookupRetried
  <1>8. CASE LookupFailed(q)
    <2>1. PICK step \in Lookups : Answer(q, step, ErrorReply("server_error"))
      BY <1>8 DEF LookupFailed
    <2> QED
      BY <2>1, AnswerAdvances DEF Lookups, Working
  <1>9. CASE RefuseMint(q)
    <2>1. \E r : Answer(q, "check ceiling", r)
      BY <1>9 DEF RefuseMint
    <2> QED
      BY <2>1, AnswerAdvances DEF Working
  <1>10. CASE SendMint(q) \/ ReceiveToken(q)
    BY <1>1, <1>10, Ways DEF SendMint, ReceiveToken
  <1>11. CASE MintFailed(q) \/ AuditAllow(q)
    BY <1>11, AnswerAdvances DEF MintFailed, AuditAllow, Working
  <1>12. CASE Respond(q) \/ LoseResponse(q)
    BY <1>1, <1>12, Ways DEF Respond, LoseResponse, Working
  <1> QED
    BY <1>2, <1>3, <1>4, <1>5, <1>6, <1>7, <1>8, <1>9, <1>10, <1>11, <1>12
       DEF RequestStep, HandlerStep

Forward ==
    \A q \in RequestId : /\ pc'[q] = pc[q] \/ Advances(q)
                         /\ HandlerStep(q) => Advances(q)

LEMMA NobodyGoesBack == IInv /\ [Next]_vars => Forward
PROOF
  <1> SUFFICES ASSUME IInv, [Next]_vars, NEW q \in RequestId
               PROVE  pc'[q] = pc[q] \/ Advances(q)
    BY StepAdvances DEF Forward, RequestStep, IInv
  <1>1. ASSUME NEW p \in RequestId, RequestStep(p)
        PROVE  pc'[q] = pc[q] \/ Advances(q)
    BY <1>1, StepAdvances, RequestStepFrame DEF OthersUntouched, IInv
  <1>2. CASE GitHubStep \/ ReceiveSignal \/ ShutdownReturns \/ Restart \/ UNCHANGED vars
    BY <1>2 DEF GitHubStep, GitHubCreates, GitHubDrops, ChangeInstallation, ReceiveSignal,
                ShutdownReturns, Restart, vars, handlers
  <1>3. CASE CutOff
    <2>1. pc'[q] = IF pc[q] \in Working THEN "lost" ELSE pc[q]
      BY <1>3 DEF CutOff, InFlight
    <2>2. pc[q] \in Working => Ahead(pc[q], "lost")
      BY Ways
    <2>3. pc'[q] = pc[q] \/ (pc[q] \in Working /\ pc'[q] = "lost")
      BY <2>1
    <2> QED
      BY <2>2, <2>3 DEF Advances
  <1> QED
    BY <1>1, <1>2, <1>3 DEF Next, RequestStep, ProcessStep, RunReturns, Crash

\* A request only moves forward, whoever takes the step, and its own steps all
\* move it: nothing is repeated, so ten stages bound the life of a request.
THEOREM RequestsOnlyAdvance == Spec => [][Forward]_vars
  BY NobodyGoesBack, InvariantHolds, PTL DEF Spec

-----------------------------------------------------------------------------
(* A form with a defect, from its arrival to its answer.                   *)

Refusable == {"idle", "check form", "respond", "answered", "lost"}

NoTraceOf(q) ==
    /\ calls[q] = {} /\ tokens[q] = <<>>
    /\ \A e \in log : e.request # q
    /\ pc[q] \in Refusable
    /\ pc[q] \in {"idle", "check form"} => reply[q] = NoReply
    /\ reply[q] # NoReply =>
          \E e \in ErrorCode : reply[q] = ErrorReply(e) /\ FormFails(form[q], e)

DefectsLeaveNoTrace ==
    \A q \in RequestId : form[q].defects # {} => NoTraceOf(q)

\* Its own handler rejects it or goes on with the answer.
LEMMA DefectsAreRejected ==
    ASSUME TypeOK, NEW q \in RequestId, form[q].defects # {}, NoTraceOf(q), RequestStep(q)
    PROVE  NoTraceOf(q)'
PROOF
  <1> USE DEF TypeOK, Go, Answer, NoTraceOf, Refusable, world, github
  <1>1. CASE Arrive(q)
    BY <1>1 DEF Arrive
  <1>2. CASE RejectForm(q)
    <2>1. PICK e \in ErrorCode : /\ Answer(q, "check form", ErrorReply(e))
                                 /\ FormFails(form[q], e)
                                 /\ UNCHANGED <<world, github, process, log>>
      BY <1>2 DEF RejectForm
    <2>2. /\ pc'[q] = "respond" /\ reply'[q] = ErrorReply(e) /\ form' = form
          /\ calls' = calls /\ tokens' = tokens /\ log' = log
      BY <2>1
    <2>3. FormFails(form[q], e)' <=> FormFails(form[q], e)
      BY <2>2 DEF FormFails
    <2> QED
      BY <2>1, <2>2, <2>3
  <1>3. CASE Respond(q) \/ LoseResponse(q)
    <2>1. /\ pc'[q] \in {"answered", "lost"} /\ reply' = reply /\ form' = form
          /\ calls' = calls /\ tokens' = tokens /\ log' = log
      BY <1>3 DEF Respond, LoseResponse
    <2>2. \A e : FormFails(form[q], e)' <=> FormFails(form[q], e)
      BY <2>1 DEF FormFails
    <2> QED
      BY <2>1, <2>2
  <1>4. pc[q] \in Refusable /\ ~AcceptForm(q)
    BY DEF AcceptForm
  <1> QED
    BY <1>1, <1>2, <1>3, <1>4
       DEF RequestStep, HandlerStep, Unauthenticated, Authenticated, RejectTarget,
           RejectScope, RejectOversized, Deny, Permit, LookupFound, LookupRetried,
           LookupFailed, Lookups, RefuseMint, SendMint, ReceiveToken, MintFailed, AuditAllow

\* Nobody else can do anything with it, but for the end of the process.
LEMMA OthersLeaveNoTrace ==
    ASSUME NEW q \in RequestId, NoTraceOf(q), form' = form,
           calls'[q] = calls[q], tokens'[q] = tokens[q], reply'[q] = reply[q],
           \A e \in log' \ log : e.request # q,
           pc'[q] = pc[q] \/ pc'[q] = "lost"
    PROVE  NoTraceOf(q)'
PROOF
  <1>1. \A e : FormFails(form[q], e)' <=> FormFails(form[q], e)
    BY DEF FormFails
  <1> QED
    BY <1>1 DEF NoTraceOf, Refusable

LEMMA NoTraceStays ==
    IInv /\ DefectsLeaveNoTrace /\ [Next]_vars => DefectsLeaveNoTrace'
PROOF
  <1> SUFFICES ASSUME IInv, DefectsLeaveNoTrace, [Next]_vars,
                      NEW q \in RequestId, form'[q].defects # {}
               PROVE  NoTraceOf(q)'
    BY DEF DefectsLeaveNoTrace
  <1>1. ASSUME NEW p \in RequestId, RequestStep(p) PROVE NoTraceOf(q)'
    <2>1. OthersUntouched(p) /\ TypeOK
      BY <1>1, RequestStepFrame DEF IInv
    <2>2. NoTraceOf(q) /\ form' = form /\ form[q].defects # {}
      BY <2>1 DEF OthersUntouched, DefectsLeaveNoTrace
    <2>3. CASE p = q
      BY <1>1, <2>1, <2>2, <2>3, DefectsAreRejected
    <2>4. CASE p # q
      BY <2>1, <2>2, <2>4, OthersLeaveNoTrace DEF OthersUntouched
    <2> QED
      BY <2>3, <2>4
  <1>2. CASE \E p \in RequestId : GitHubCreates(p) \/ GitHubDrops(p)
    <2>1. PICK p \in RequestId : GitHubCreates(p) \/ GitHubDrops(p)
      BY <1>2
    <2>2. /\ form' = form /\ log' = log /\ pc' = pc /\ reply' = reply /\ calls[p] # {}
          /\ \A r \in RequestId \ {p} : calls'[r] = calls[r] /\ tokens'[r] = tokens[r]
      BY <2>1 DEF GitHubCreates, GitHubDrops, world, handlers, IInv, TypeOK
    <2>3. NoTraceOf(q)
      BY <2>2 DEF DefectsLeaveNoTrace
    <2>4. p # q
      BY <2>2, <2>3 DEF NoTraceOf
    <2> QED
      BY <2>2, <2>3, <2>4, OthersLeaveNoTrace
  <1>3. CASE \/ \E a \in Account, perms \in Ceilings : ChangeInstallation(a, perms)
             \/ ProcessStep
             \/ UNCHANGED vars
    <2>1. /\ form' = form /\ log' = log /\ reply' = reply
          /\ calls' = calls /\ tokens' = tokens
          /\ pc'[q] = pc[q] \/ pc'[q] = "lost"
      BY <1>3 DEF ChangeInstallation, ProcessStep, ReceiveSignal, ShutdownReturns, RunReturns,
                  Crash, CutOff, Restart, vars, world, github, handlers
    <2>2. NoTraceOf(q)
      BY <2>1 DEF DefectsLeaveNoTrace
    <2> QED
      BY <2>1, <2>2, OthersLeaveNoTrace
  <1> QED
    BY <1>1, <1>2, <1>3 DEF Next, RequestStep, GitHubStep

\* A form with a defect is not looked into any further, in any behaviour of the
\* broker and whatever else is wrong with the form: no mint call, no token and
\* no audit event of the request, ever, and no answer but the error of the first
\* of handleToken's checks that fails.
THEOREM DefectiveFormsLeaveNoTrace == Spec => []DefectsLeaveNoTrace
PROOF
  <1>1. Init => DefectsLeaveNoTrace
    BY DEF Init, DefectsLeaveNoTrace, NoTraceOf, Refusable
  <1> QED
    BY <1>1, NoTraceStays, InvariantHolds, PTL DEF Spec
==============================================================================
