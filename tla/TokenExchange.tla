---------------------------- MODULE TokenExchange ----------------------------
(***************************************************************************)
(* The broker at work: concurrent POST /token requests, each served by a   *)
(* goroutine that runs server.handleToken and githubapp.Mint, with GitHub, *)
(* the clients, the operator's signal and crashes of the process around    *)
(* them.  Handlers share no mutable memory; they meet in the audit log, in *)
(* the installations at GitHub and in the life of the process.             *)
(*                                                                         *)
(* A step of a handler is the code between two places where another actor  *)
(* can be noticed: a network call, a line of the audit log, the response.  *)
(***************************************************************************)
EXTENDS Policies, Resources

CONSTANTS
    RequestId,      \* the requests clients make
    SubjectToken,   \* ID tokens
    IdentityOf,     \* the issuer and claims behind each token that verifies
    Forms,          \* the token-exchange forms to consider
    Ceilings,       \* permissions an installation may have
    ImpliedKeys     \* keys GitHub adds to every token at level read

Identity == [issuer : Issuer, caller : Caller]
Verifiable == DOMAIN IdentityOf

ASSUME IdentityAssumption ==
    Verifiable \subseteq SubjectToken /\ IdentityOf \in [Verifiable -> Identity]
ASSUME ResourceAssumption == CanonicalString \subseteq Resource
ASSUME CeilingsAssumption == Ceilings \subseteq PermissionMap
ASSUME ImpliedAssumption == ImpliedKeys \subseteq Key
-----------------------------------------------------------------------------
(* The form, and the order in which handleToken looks at it.               *)

FormDefect == {"content type", "body", "no grant_type", "other grant_type",
               "actor_token", "no subject_token", "subject_token_type",
               "requested_token_type"}

FormCheck == <<[defect |-> "content type",         error |-> "invalid_request"],
               [defect |-> "body",                 error |-> "invalid_request"],
               [defect |-> "no grant_type",        error |-> "invalid_request"],
               [defect |-> "other grant_type",     error |-> "unsupported_grant_type"],
               [defect |-> "actor_token",          error |-> "invalid_request"],
               [defect |-> "no subject_token",     error |-> "invalid_request"],
               [defect |-> "subject_token_type",   error |-> "invalid_request"],
               [defect |-> "requested_token_type", error |-> "invalid_request"]>>

\* A scope token without a ":" or with an empty half has no valid level.
ScopeToken == [key : Key, level : Entry]

Form == [defects   : SUBSET FormDefect,
         token     : SubjectToken,
         resources : Seq(ResourceString),
         scope     : Seq(ScopeToken)]

ASSUME FormsAssumption == Forms \subseteq Form

ErrorCode == {"invalid_request", "unsupported_grant_type", "invalid_grant",
              "invalid_scope", "invalid_target", "server_error"}

\* The first check that fails decides the error.
FormFails(f, e) ==
    \E n \in DOMAIN FormCheck :
        /\ FormCheck[n].defect \in f.defects
        /\ FormCheck[n].error = e
        /\ \A m \in 1 .. n - 1 : FormCheck[m].defect \notin f.defects

(* decodeScope: one bad token fails the whole scope; of two tokens for the *)
(* same key the later one is kept.                                         *)
ScopeDecodes(scope) ==
    /\ scope # <<>>
    /\ \A n \in DOMAIN scope : ValidKeyLevel(scope[n].key, scope[n].level)

LastFor(scope, k) ==
    {n \in DOMAIN scope : /\ scope[n].key = k
                          /\ \A m \in n + 1 .. Len(scope) : scope[m].key # k}

DecodeScope(scope) ==
    [k \in Key |-> IF LastFor(scope, k) = {}
                   THEN Absent
                   ELSE scope[CHOOSE n \in LastFor(scope, k) : TRUE].level]

\* What handleToken passes to Engine.Evaluate.
Input(f) == [issuer    |-> IdentityOf[f.token].issuer,
             caller    |-> IdentityOf[f.token].caller,
             resources |-> RawStrings(ParseAll(f.resources)),
             required  |-> DecodeScope(f.scope)]
-----------------------------------------------------------------------------
(* GitHub.                                                                 *)

Account == ({"login"} \X Login) \cup ({"enterprise"} \X Slug)

AccountOf(rs) ==
    <<IF rs[1].kind = "enterprise" THEN "enterprise" ELSE "login", Owner(rs)>>

\* The body of POST .../access_tokens; an empty list or map is omitted.
MintRequest == [account      : Account,
                repositories : SUBSET RepoName,
                permissions  : PermissionMap]

TokenScope == [account      : Account,
               everything   : BOOLEAN,     \* all repositories, not a list
               repositories : SUBSET RepoName,
               permissions  : PermissionMap]

WithImplied(perms) ==
    [k \in Key |-> IF k \in ImpliedKeys /\ perms[k] = Absent THEN "read" ELSE perms[k]]

\* GitHub reads a missing list as every repository and a missing map as every
\* permission of the installation.
CreatedScope(body, held) ==
    [account      |-> body.account,
     everything   |-> body.repositories = {},
     repositories |-> body.repositories,
     permissions  |-> WithImplied(IF body.permissions = NoPermissions
                                  THEN held ELSE body.permissions)]
-----------------------------------------------------------------------------
VARIABLES
    policies,      \* the engine's policies; fixed at start-up
    form,          \* the form of each request; fixed by its client
    installation,  \* at GitHub: the permissions of the App on each account
    calls,         \* mint calls on their way to GitHub, by request
    tokens,        \* at GitHub: the tokens created for each request, in order
    server,        \* "serving", "draining" after the signal, or "down"
    drained,       \* http.Server.Shutdown has returned
    pc,            \* where the handler of each request is
    ceiling,       \* inst.Permissions, as the handler read them
    reply,         \* the response the handler has decided on
    log            \* the audit log

world == <<policies, form, installation>>
process == <<server, drained>>
handlers == <<pc, ceiling, reply>>
github == <<calls, tokens>>
vars == <<world, github, process, handlers, log>>

Lookups == {"lookup org", "lookup user", "lookup enterprise"}
Working == {"check form", "authenticate", "decide", "check ceiling", "mint",
            "audit", "respond"} \cup Lookups
PC == {"idle", "answered", "lost"} \cup Working

InFlight == {q \in RequestId : pc[q] \in Working}

Unstated == [given |-> FALSE, permissions |-> NoPermissions]
Stated(perms) == [given |-> TRUE, permissions |-> perms]

NoReply == [kind |-> "none"]
ErrorReply(code) == [kind |-> "error", code |-> code]
TokenReply(scope, stated) == [kind |-> "token", scope |-> scope, stated |-> stated]

Reply == {NoReply}
            \cup [kind : {"error"}, code : ErrorCode]
            \cup [kind : {"token"}, scope : TokenScope,
                  stated : [given : BOOLEAN, permissions : PermissionMap]]

DenyReason == {"policy", "empty computed scope", "installation permissions insufficient"}

AllowEvent(q, scope) == [request |-> q, decision |-> "allow", computed |-> scope]
DenyEvent(q, reason) == [request |-> q, decision |-> "deny", reason |-> reason]

Event == [request : RequestId, decision : {"allow"}, computed : TokenScope]
            \cup [request : RequestId, decision : {"deny"}, reason : DenyReason]

Targets(q) == ParseAll(form[q].resources)
Perms(q) == DecodeScope(form[q].scope)

Init == /\ policies \in PolicySets
        /\ form \in [RequestId -> Forms]
        /\ installation \in [Account -> Ceilings]
        /\ calls = [q \in RequestId |-> {}]
        /\ tokens = [q \in RequestId |-> <<>>]
        /\ server = "serving" /\ drained = FALSE
        /\ pc = [q \in RequestId |-> "idle"]
        /\ ceiling = [q \in RequestId |-> NoPermissions]
        /\ reply = [q \in RequestId |-> NoReply]
        /\ log = {}
-----------------------------------------------------------------------------
(* server.handleToken up to the call of Mint.                              *)

Go(q, from, to) == pc[q] = from /\ pc' = [pc EXCEPT ![q] = to]

Answer(q, from, r) == /\ Go(q, from, "respond")
                      /\ reply' = [reply EXCEPT ![q] = r]
                      /\ UNCHANGED ceiling

\* The listener accepts connections only until Shutdown closes it.
Arrive(q) == /\ server = "serving"
             /\ Go(q, "idle", "check form")
             /\ UNCHANGED <<world, github, process, ceiling, reply, log>>

RejectForm(q) == \E e \in ErrorCode :
                    /\ Answer(q, "check form", ErrorReply(e))
                    /\ FormFails(form[q], e)
                    /\ UNCHANGED <<world, github, process, log>>

AcceptForm(q) == /\ Go(q, "check form", "authenticate")
                 /\ form[q].defects = {}
                 /\ UNCHANGED <<world, github, process, ceiling, reply, log>>

\* Verification needs the issuer's keys from the network, so a good token may
\* fail too.
Unauthenticated(q) == /\ Answer(q, "authenticate", ErrorReply("invalid_grant"))
                      /\ UNCHANGED <<world, github, process, log>>

Authenticated(q) == /\ Go(q, "authenticate", "decide")
                    /\ form[q].token \in Verifiable
                    /\ UNCHANGED <<world, github, process, ceiling, reply, log>>

RejectTarget(q) == /\ Answer(q, "decide", ErrorReply("invalid_target"))
                   /\ ~ParsesAll(form[q].resources)
                   /\ UNCHANGED <<world, github, process, log>>

RejectScope(q) == /\ Answer(q, "decide", ErrorReply("invalid_scope"))
                  /\ ParsesAll(form[q].resources)
                  /\ ~ScopeDecodes(form[q].scope)
                  /\ UNCHANGED <<world, github, process, log>>

Decodes(f) == ParsesAll(f.resources) /\ ScopeDecodes(f.scope)
Exceeds(f) == Oversized(Input(f))
Permitted(f) == Verdict(policies, Input(f)).allowed

RejectOversized(q) == /\ Answer(q, "decide", ErrorReply("invalid_request"))
                      /\ Decodes(form[q])
                      /\ Exceeds(form[q])
                      /\ UNCHANGED <<world, github, process, log>>

Deny(q) == /\ Answer(q, "decide", ErrorReply("invalid_grant"))
           /\ Decodes(form[q]) /\ ~Exceeds(form[q])
           /\ ~Permitted(form[q])
           /\ log' = log \cup {DenyEvent(q, "policy")}
           /\ UNCHANGED <<world, github, process>>

\* (Seeded error: repositories have a lookup of their own, which is not there.)
LookupByKind(q) == "lookup " \o Targets(q)[1].kind
FirstLookup(q) == IF Targets(q)[1].kind = "enterprise"
                  THEN "lookup enterprise" ELSE "lookup org"

Permit(q) == /\ pc[q] = "decide"
             /\ Decodes(form[q]) /\ ~Exceeds(form[q])
             /\ Permitted(form[q])
             /\ Go(q, "decide", FirstLookup(q))
             /\ UNCHANGED <<world, github, process, ceiling, reply, log>>
-----------------------------------------------------------------------------
(* githubapp.Mint.  Any call may fail: there is no installation, GitHub    *)
(* answers something else, the client of the broker went away and took the *)
(* request context with it, or the 30 s of the HTTP client are over.       *)

LookupFound(q) ==
    /\ \E step \in Lookups : Go(q, step, "check ceiling")
    /\ ceiling' = [ceiling EXCEPT ![q] = installation[AccountOf(Targets(q))]]
    /\ UNCHANGED <<world, github, process, reply, log>>

\* Whatever went wrong on the organization endpoint, the user endpoint is next.
\* (Seeded error: the two endpoints are tried in turn until one answers.)
LookupRetriedForever(q) ==
    /\ Go(q, "lookup org", "lookup user") \/ Go(q, "lookup user", "lookup org")
    /\ UNCHANGED <<world, github, process, ceiling, reply, log>>
LookupRetried(q) == /\ Go(q, "lookup org", "lookup user")
                    /\ UNCHANGED <<world, github, process, ceiling, reply, log>>

LookupFailed(q) == /\ \E step \in Lookups \ {"lookup org"} :
                         Answer(q, step, ErrorReply("server_error"))
                   /\ UNCHANGED <<world, github, process, log>>

IsRepoRequest(q) == Targets(q)[1].kind = "repo"
Short(q) == Gaps(Perms(q), ceiling[q]) # {}
FinalPerms(q) == Intersect({Perms(q), ceiling[q]})

\* The guard of MintScopedToken and MintInstallationToken.
NothingToAsk(q) == FinalPerms(q) = NoPermissions
                      \/ (IsRepoRequest(q) /\ RepoShortNames(Targets(q)) = <<>>)

\* The installation's permissions fall short, or nothing would be asked for.
RefuseMint(q) ==
    /\ pc[q] = "check ceiling"
    /\ Short(q) \/ NothingToAsk(q)
    /\ log' = log \cup {DenyEvent(q, IF Short(q)
                                     THEN "installation permissions insufficient"
                                     ELSE "empty computed scope")}
    /\ Answer(q, "check ceiling",
              ErrorReply(IF Short(q) THEN "invalid_scope" ELSE "invalid_grant"))
    /\ UNCHANGED <<world, github, process>>

MintBody(q) == [account      |-> AccountOf(Targets(q)),
                repositories |-> IF IsRepoRequest(q)
                                 THEN Range(RepoShortNames(Targets(q))) ELSE {},
                permissions  |-> FinalPerms(q)]

\* (Seeded error: the issue is audited before it happens.)
AuditedSendMint(q) ==
    /\ Go(q, "check ceiling", "mint")
    /\ ~Short(q) /\ ~NothingToAsk(q)
    /\ calls' = [calls EXCEPT ![q] = @ \cup {MintBody(q)}]
    /\ log' = log \cup {AllowEvent(q, CreatedScope(MintBody(q), FinalPerms(q)))}
    /\ UNCHANGED <<world, tokens, process, ceiling, reply>>

SendMint(q) == /\ Go(q, "check ceiling", "mint")
               /\ ~Short(q) /\ ~NothingToAsk(q)
               /\ calls' = [calls EXCEPT ![q] = @ \cup {MintBody(q)}]
               /\ UNCHANGED <<world, tokens, process, ceiling, reply, log>>

ReceiveToken(q) == /\ Go(q, "mint", "audit")
                   /\ tokens[q] # <<>>
                   /\ UNCHANGED <<world, github, process, ceiling, reply, log>>

\* No answer, an unreadable one or a refusal; a retry is never attempted and
\* nothing is audited, although GitHub may have created the token or still will.
\* (Seeded errors: a failed call is repeated; every failure is a "forbidden".)
MintRepeated(q) == /\ Go(q, "mint", "check ceiling")
                   /\ UNCHANGED <<world, github, process, ceiling, reply, log>>
MintForbidden(q) == /\ Answer(q, "mint", ErrorReply("invalid_grant"))
                    /\ UNCHANGED <<world, github, process, log>>
MintFailed(q) == /\ Answer(q, "mint", ErrorReply("server_error"))
                 /\ UNCHANGED <<world, github, process, log>>
-----------------------------------------------------------------------------
(* The rest of handleToken: the audit line, then the response.             *)

ReceivedScope(q) == tokens[q][1]

\* (Seeded error: entries that only b has are overlooked.)
ScopeContained(a, b) == \A k \in Present(a) : a[k] = b[k]
ScopeEqual(a, b) == a = b

StatedScope(q) == IF ScopeEqual(Perms(q), ReceivedScope(q).permissions)
                  THEN Unstated ELSE Stated(ReceivedScope(q).permissions)

\* (Seeded error: the scope asked for is logged as the computed one.)
AuditRequested(q) ==
    /\ pc[q] = "audit"
    /\ log' = log \cup {AllowEvent(q, [ReceivedScope(q) EXCEPT !.permissions = Perms(q)])}
    /\ Answer(q, "audit", TokenReply(ReceivedScope(q), StatedScope(q)))
    /\ UNCHANGED <<world, github, process>>

AuditAllow(q) ==
    /\ pc[q] = "audit"
    /\ log' = log \cup {AllowEvent(q, ReceivedScope(q))}
    /\ Answer(q, "audit", TokenReply(ReceivedScope(q), StatedScope(q)))
    /\ UNCHANGED <<world, github, process>>

Respond(q) == /\ Go(q, "respond", "answered")
              /\ UNCHANGED <<world, github, process, ceiling, reply, log>>

\* The client is gone, or the 15 s of WriteTimeout are over; writeJSON drops
\* the error.
LoseResponse(q) == /\ Go(q, "respond", "lost")
                   /\ UNCHANGED <<world, github, process, ceiling, reply, log>>
-----------------------------------------------------------------------------
(* GitHub and the people who administer installations there.               *)

GitHubCreates(q) == \E body \in calls[q] :
    /\ Satisfies(body.permissions, installation[body.account])
    /\ tokens' = [tokens EXCEPT ![q] =
                    Append(@, CreatedScope(body, installation[body.account]))]
    /\ calls' = [calls EXCEPT ![q] = @ \ {body}]
    /\ UNCHANGED <<world, process, handlers, log>>

GitHubDrops(q) == \E body \in calls[q] :
    /\ calls' = [calls EXCEPT ![q] = @ \ {body}]
    /\ UNCHANGED <<world, tokens, process, handlers, log>>

ChangeInstallation(a, perms) ==
    /\ installation' = [installation EXCEPT ![a] = perms]
    /\ UNCHANGED <<policies, form, github, process, handlers, log>>

(* The process.  On SIGINT or SIGTERM a goroutine calls Shutdown, which    *)
(* makes ListenAndServe return; run returns and the process ends, whether  *)
(* or not Shutdown has returned by then.                                   *)

ReceiveSignal == /\ server = "serving"
                 /\ server' = "draining"
                 /\ UNCHANGED <<world, github, drained, handlers, log>>

\* No request is in flight any more, or the 10 s it was given are over.
ShutdownReturns == /\ server = "draining" /\ ~drained
                   /\ drained' = TRUE
                   /\ UNCHANGED <<world, github, server, handlers, log>>

CutOff == /\ server' = "down"
          /\ pc' = [q \in RequestId |-> IF q \in InFlight THEN "lost" ELSE pc[q]]
          /\ UNCHANGED <<world, github, drained, ceiling, reply, log>>

RunReturns == server = "draining" /\ CutOff

Crash == server # "down" /\ CutOff

\* A new process shares nothing with the old one but the log and GitHub.
Restart == /\ server = "down"
           /\ server' = "serving" /\ drained' = FALSE
           /\ UNCHANGED <<world, github, handlers, log>>
-----------------------------------------------------------------------------
HandlerStep(q) ==
    \/ RejectForm(q) \/ AcceptForm(q)
    \/ Unauthenticated(q) \/ Authenticated(q)
    \/ RejectTarget(q) \/ RejectScope(q) \/ RejectOversized(q)
    \/ Deny(q) \/ Permit(q)
    \/ LookupFound(q) \/ LookupRetried(q) \/ LookupFailed(q)
    \/ RefuseMint(q) \/ SendMint(q)
    \/ ReceiveToken(q) \/ MintFailed(q)
    \/ AuditAllow(q) \/ Respond(q) \/ LoseResponse(q)

GitHubStep == \/ \E q \in RequestId : GitHubCreates(q) \/ GitHubDrops(q)
              \/ \E a \in Account, perms \in Ceilings : ChangeInstallation(a, perms)

ProcessStep == ReceiveSignal \/ ShutdownReturns \/ RunReturns \/ Crash \/ Restart

Next == \/ \E q \in RequestId : Arrive(q) \/ HandlerStep(q)
        \/ GitHubStep
        \/ ProcessStep

Spec == Init /\ [][Next]_vars

(* Goroutines are scheduled, every outbound call ends by a timeout if not  *)
(* by an answer, and so does the write of the response.  Nothing is        *)
(* assumed of clients, GitHub, administrators or operators.                *)
FairSpec == Spec /\ \A q \in RequestId : WF_vars(HandlerStep(q))
==============================================================================
