----------------------- MODULE TokenExchangeProperties ------------------------
(***************************************************************************)
(* What must hold of the broker's concurrent handlers, and the promise of  *)
(* TokenIssuance that they implement.                                      *)
(***************************************************************************)
EXTENDS TokenExchange

CONSTANT NoScope   \* what a request without a token is due

ASSUME NoScopeAssumption == NoScope \notin TokenScope

\* Every variable keeps its type.
TypeOK == /\ policies \in PolicySets
          /\ form \in [RequestId -> Forms]
          /\ installation \in [Account -> Ceilings]
          /\ calls \in [RequestId -> SUBSET MintRequest]
          /\ tokens \in [RequestId -> Seq(TokenScope)]
          /\ server \in {"serving", "draining", "down"}
          /\ drained \in BOOLEAN
          /\ pc \in [RequestId -> PC]
          /\ ceiling \in [RequestId -> PermissionMap]
          /\ reply \in [RequestId -> Reply]
          /\ log \subseteq Event
-----------------------------------------------------------------------------
(* What a form is entitled to, said with sets.                             *)

Wellformed(f) == /\ f.defects = {}
                 /\ f.token \in Verifiable
                 /\ Decodes(f)
                 /\ Len(f.resources) <= MaxRepositories

\* Every resource is covered by policies of the token's own issuer.
Entitled(pols, f) ==
    Wellformed(f) /\ \A r \in Range(Input(f).resources) : IsCovered(pols, Input(f), r)

\* Repository tokens list exactly the repositories that the policies judged,
\* all of them on one account.
DueScope(f) ==
    LET rs == ParseAll(f.resources) IN
        [account      |-> AccountOf(rs),
         everything   |-> rs[1].kind # "repo",
         repositories |-> {r.name : r \in {s \in Range(rs) : s.kind = "repo"}},
         permissions  |-> WithImplied(DecodeScope(f.scope))]

Due == [pf \in PolicySets \X Forms |->
           IF Entitled(pf[1], pf[2]) THEN DueScope(pf[2]) ELSE NoScope]

\* The canonical strings a token is good for.
Reach(scope) ==
    IF scope.everything
    THEN {<<IF scope.account[1] = "enterprise" THEN "enterprise" ELSE "org",
            scope.account[2], NoName>>}
    ELSE {<<"repo", scope.account[2], n>> : n \in scope.repositories}

\* A token at GitHub is good for exactly the resources that the policies of
\* the caller's issuer judged, each of which they cover, and carries exactly
\* the permissions asked for, although the installation may have changed
\* between the ceiling check and the creation.
TokensAreEntitled ==
    \A q \in RequestId : \A n \in DOMAIN tokens[q] :
        /\ Entitled(policies, form[q])
        /\ Reach(tokens[q][n]) = Range(Input(form[q]).resources)
        /\ tokens[q][n].permissions = WithImplied(Perms(q))

\* A request never has two tokens, counting one that may still be created by
\* a call on its way: a failed or slow mint is not repeated.
AtMostOneToken ==
    \A q \in RequestId : Len(tokens[q]) + (IF calls[q] = {} THEN 0 ELSE 1) <= 1

Recorded(q, decision) == \E e \in log : e.request = q /\ e.decision = decision

Refusals == ErrorCode \ {"server_error"}

\* Once a deny is on record, or the handler has settled on an error other than
\* server_error, no token exists for the request and no call that could still
\* create one is on its way.
RefusalIsFinal ==
    \A q \in RequestId :
        (Recorded(q, "deny") \/ \E code \in Refusals : reply[q] = ErrorReply(code))
            => tokens[q] = <<>> /\ calls[q] = {}

\* A client has a token only after the audit log has its issue, with the scope
\* the token really has; this survives crashes and shutdowns between the two.
GivenTokenIsOnRecord ==
    \A q \in RequestId :
        (pc[q] = "answered" /\ reply[q].kind = "token")
            => /\ AllowEvent(q, reply[q].scope) \in log
               /\ reply[q].scope \in Range(tokens[q])

\* RFC 6749: a response without "scope" means the token has the scope that was
\* asked for, one with "scope" names what it has.
StatedScopeIsTrue ==
    \A q \in RequestId : reply[q].kind = "token" =>
        reply[q].scope.permissions = IF reply[q].stated.given
                                     THEN reply[q].stated.permissions
                                     ELSE DecodeScope(form[q].scope)
-----------------------------------------------------------------------------
(* Refinement: the handlers implement the promise.                         *)

DueOf(q) == IF pc[q] = "idle" THEN NoScope ELSE Due[<<policies, form[q]>>]

IssuedOf(q) == IF tokens[q] = <<>> THEN NoScope ELSE tokens[q][1]

RecordOf(q) == IF Recorded(q, "allow") THEN "allow"
               ELSE IF Recorded(q, "deny") THEN "deny" ELSE "none"

\* An authentication that failed for want of keys looks like a refusal to the
\* client, but says nothing of what the caller is entitled to.
IsFailure(q) == \/ reply[q] = ErrorReply("server_error")
                \/ /\ reply[q] = ErrorReply("invalid_grant")
                   /\ DueOf(q) # NoScope /\ RecordOf(q) = "none"

OutcomeOf(q) == IF reply[q].kind = "token" THEN "token"
                ELSE IF IsFailure(q) THEN "failure" ELSE "refusal"

AnswerOf(q) ==
    CASE pc[q] = "idle" -> "not asked"
      [] pc[q] \in Working -> "awaited"
      [] pc[q] = "lost" -> "lost"
      [] pc[q] = "answered" -> OutcomeOf(q)

DueScopes == {DueScope(f) : f \in {g \in Forms : Wellformed(g)}}

Promise == INSTANCE TokenIssuance WITH
    TokenScope <- DueScopes,
    due <- [q \in RequestId |-> DueOf(q)],
    issued <- [q \in RequestId |-> IssuedOf(q)],
    record <- [q \in RequestId |-> RecordOf(q)],
    answer <- [q \in RequestId |-> AnswerOf(q)]

\* Every interleaving of handlers, GitHub and the process is a behaviour of
\* the promise: a token at most once and only of the due scope, none after a
\* deny or a refusal, and given away only after the issue was recorded.
ImplementsIssuance == Promise!IssuanceSpec
-----------------------------------------------------------------------------
(* Liveness.                                                               *)

\* No accepted request hangs: it is answered, or its connection ends.
EveryRequestEnds ==
    \A q \in RequestId : pc[q] = "check form" ~> pc[q] \in {"answered", "lost"}
-----------------------------------------------------------------------------
(* What comments of the code say and the code does not do.                 *)

\* main.go: "Graceful shutdown on SIGINT/SIGTERM": after the signal the process
\* ends only once Shutdown has returned.
GracefulExit ==
    [][server = "draining" /\ server' = "down" => drained \/ InFlight = {}]_vars

\* audit.go: "emits structured audit events for every token issuance, both
\* allow and deny": when the handler of a request is through with it, a token
\* created for the request is on record.
IssuanceAudited ==
    \A q \in RequestId :
        pc[q] = "answered" /\ tokens[q] # <<>>
            => Recorded(q, "allow")
==============================================================================
