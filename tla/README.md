# gh-token-broker in TLA+

gh-token-broker exchanges OIDC ID tokens for GitHub App installation tokens. A
CI job posts an RFC 8693 form to `/token`: its ID token, the resources it wants
to reach and the permissions it wants. The broker verifies the ID token,
evaluates the operator's CEL policies, checks what the GitHub App is installed
with, mints a token of exactly the requested scope, writes an audit event and
answers. It keeps no state between requests: what matters is what one answer is
made of, and what can happen between the steps that lead to it.

This directory holds the specifications, the TLC configurations that check them
on small instances, and the proofs TLAPS checks for every instance.

## 1. Inventory

| Component | Code | State | Operations |
|---|---|---|---|
| Permission algebra | `internal/perm/perm.go` | none (pure) | `Normalize`, `Intersect`, `Satisfies`, `Gaps`, `ValidKeyLevel` |
| Permission catalog | `internal/perm/catalog_gen.go`, `scripts/gen-catalog.sh` | generated table | none |
| Policy engine | `internal/policy/engine.go` | compiled policies per issuer, immutable | `Evaluate` |
| Conditions | `internal/policy/engine.go`, `env.go` | none after start-up | `New`, `compile`, `checkCondition`, warnings |
| Resources | `internal/resource/resource.go` | none (pure) | `Parse`, `ParseAll`, accessors |
| Token endpoint | `internal/server/server.go` | per request: form, identity, decision, token | `handleToken` and its helpers |
| Other endpoints | `internal/server/server.go` | immutable answers | metadata, health, OpenAPI |
| GitHub client | `internal/githubapp/githubapp.go` | App identity, fixed at start-up | `Mint`, start-up checks |
| Audit log | `internal/audit/audit.go` | append-only stream | `Log` |
| Authenticator | `internal/auth/auth.go` | issuers and verifiers, immutable | `Authenticate` |
| Discovery and keys | `internal/auth/discovery.go` | cached key sets, time of last fetch | `discover`, throttled transport |
| Configuration | `internal/config/config.go` | none after start-up | load, defaults, validate, lint |
| Process | `cmd/gh-token-broker` | HTTP server, signal context | start-up, serve, shutdown |
| Schema generator | `cmd/gen-schema` | none | build tooling |

**Interactions.** `main.run` builds everything once and starts the HTTP server,
which runs `handleToken` in a goroutine per request. A handler calls
`Authenticate` (which may fetch keys), `resource.ParseAll`, `decodeScope`,
`Engine.Evaluate`, then `githubapp.Mint` (one or two lookups at GitHub, the
ceiling check, one POST that creates the token), `audit.Log`, and writes the
response. Handlers share immutable values, the key cache, the audit log, the
installations at GitHub and the process they run in.

**What is hard.** The merge of grants across policies and its absence across
resources; conditions that fail at run time; the time between reading an
installation's permissions and using them; a mint whose answer is lost while the
token exists; the order of audit line and response; the end of the process
while handlers run; key rotation against cached and throttled fetches; clock
skew and truncation. `PROJECT.json` lists each of these at its line under
`hazards`, with the properties that cover it.

**What makes each component correct.**

- *Permission algebra*: a map stands for the set of rights it gives, and each
  operation is the set operation its name promises (meet, join, inclusion), with
  anything unknown giving nothing.
- *Policy engine*: the decision depends only on the set of policies and the set
  of resources; a resource is covered by the policies that match that resource.
- *Resources*: a list that parses has one kind and one owner, so one
  installation serves it.
- *Token endpoint and GitHub client*: a token exists only for a request that is
  entitled to it, with exactly the entitled scope, at most once; a refusal is
  final; every request ends.
- *Audit log*: a token in a client's hands is on record with its real scope; a
  deny on record means there is no token.
- *Process*: it stops after its requests have.
- *Authenticator*: a token is accepted only inside its validity, widened by the
  skew, for at most the configured lifetime, with the keys, audience and claims
  of one issuer; and a good token is not refused.
- *Key cache*: a key that is published arrives, a settled key is not lost in an
  outage, and a burst of bad tokens does not cause a burst of fetches.
- *Conditions*: what the check of the tree promises is true of the values CEL
  computes: no accepted condition applies to every resource.
- *Configuration and start-up*: what passes `validate` satisfies what the
  constructors assume; nothing is minted or served before everything has been
  checked; what is written is what serves.

## 2. Modules

```
Permissions -> Authority -> PermissionLaws -> MCPermissionLaws
                 |   |   \-> PermissionLemmas -> PermissionLawsProofs (with PermissionLaws)
                 |   v
                 | Policies -> PolicyDecision -> PolicyEngine -> MCPolicyEngine
                 |   |                                \-> PolicyEngineProofs (with PermissionLemmas)
                 |   v
     Resources --+-> TokenExchange -> TokenExchangeProperties -> MCTokenExchange
                 |                       |  INSTANCE  \-> TokenExchangeProofs (with PermissionLemmas)
                 |                    TokenIssuance
                 v
            Configuration -> Startup -> MCStartup
                                  \-> StartupProofs (with PermissionLemmas)

KeySet -> KeySetHistory -> MCKeySet            TokenVerification -> MCTokenVerification
                       \-> KeySetProofs                         \-> TokenVerificationProofs

Conditions -> Comparisons -> MCConditions
                         \-> ConditionsProofs
```

| Module | Contents |
|---|---|
| `Permissions` | `internal/perm` and the two helpers of the engine that use it. A Go `map[string]string` is a function from all keys to levels with `"absent"` for keys it lacks and `"unknown"` for level strings outside the table. The catalog is a constant. |
| `Authority` | The reference meaning: the set of rights `<<key, level>>` that a map gives. |
| `PermissionLaws` | Walks over all pairs of maps; each operation against its set-theoretic meaning. |
| `Policies` | Policies, requests, and the verdict as a definition over sets: no order, no loop. |
| `PolicyDecision` | The abstract specification: one step from the request to the verdict. |
| `PolicyEngine` | `Engine.Evaluate`, an action per branch of its loops; refines `PolicyDecision`. |
| `Resources` | `internal/resource` over abstract strings (prefix, head, tail). |
| `TokenExchange` | `handleToken`, `Mint`, the process, GitHub and its administrators. |
| `TokenIssuance` | The abstract promise: due, issued, record, answer for each request. |
| `TokenExchangeProperties` | The properties and the refinement mapping to `TokenIssuance`. |
| `KeySet` | One issuer's keys: the cache, the shared fetch, the throttling transport, outage, rotation, crash. |
| `KeySetHistory` | `KeySet` with history variables, and the properties that need them. |
| `TokenVerification` | `Authenticate` and `identity`, one token over time. |
| `Conditions` | `checkCondition` and `constrains` on trees, against CEL's three-valued operators. |
| `Comparisons` | The leaves: `==` and `in`, `boundsResource`, `boundsCaller`, `callerAnchored`, `comparedToLiteral`, and what they mean. |
| `Configuration` | `internal/config`: schema, defaults, `validate`, `AggregateGrantPermissions`, `Lint`. |
| `Startup` | `run` from the document to the listening server, with the constructors, GitHub and the supervisor. |
| `PermissionLemmas` | What the operators of the algebra return, for the proofs. |
| `PermissionLawsProofs`, `PolicyEngineProofs`, `TokenExchangeProofs`, `KeySetProofs`, `TokenVerificationProofs`, `ConditionsProofs`, `StartupProofs` | The theorems. |

**Reading `TokenExchange`.** The actions follow the code's order. `pc` names
the place of a handler between two points at which another actor can be
noticed:

| `pc` | the code about to run | actions |
|---|---|---|
| `check form` | server.go:171-212 | `RejectForm`, `AcceptForm` |
| `authenticate` | server.go:214 | `Authenticated`, `Unauthenticated` |
| `decide` | server.go:221-253, no I/O but the audit line | `RejectTarget`, `RejectScope`, `RejectOversized`, `Deny`, `Permit` |
| `lookup org`, `lookup user`, `lookup enterprise` | githubapp.go:155-167 | `LookupFound`, `LookupRetried`, `LookupFailed` |
| `check ceiling` | githubapp.go:168-184 up to the POST | `RefuseMint`, `SendMint` |
| `mint` | the POST, until `httpClient.Do` returns | `ReceiveToken`, `MintFailed` |
| `audit` | server.go:272-300 | `AuditAllow` |
| `respond` | writeJSON | `Respond`, `LoseResponse` |

A mint call and the token it creates are separate from the handler: `calls` is
what is on its way to GitHub, `tokens` what exists there. GitHub may act on a
call after the handler has given up (`MintFailed` does not remove the call), or
never. `ChangeInstallation` is an administrator. `CutOff` ends the process by a
crash or because `run` returned; `Restart` starts it again with nothing but the
outside world kept. The evaluation of policies appears here as the operator
`Verdict`, justified by the refinement of `PolicyEngine`.

**How the models meet.** Each later model stands for what an earlier one takes
as given. `TokenVerification` is what `Authenticated` and `Unauthenticated` of
`TokenExchange` say in one step; its `Unverified` is a refusal of `KeySet` (or a
bad signature); its `Conclude` follows an acceptance. `Conditions` is about the
outcomes that a policy of `Policies` answers with. `Startup` ends where
`TokenExchange` begins, with a document that `Valid` accepts. They are not
multiplied into one state space: none of them reads another's state except
through the outcome named here, and the outcome is left nondeterministic on the
other side.

**Reading `KeySet`.** The key set of go-oidc is a library; its behaviour is
modelled from how `auth.go` and `discovery.go` use it and is marked external in
`PROJECT.json`. What is the repository's own is the transport (`Send`,
`Throttle`), the client and its timeout (`Fail`, `Tick`), and the calls.

| `pc[v]` | place of the verification |
|---|---|
| `presented` | before the cached keys are read (auth.go:145) |
| `missed` | the cache had no such key; the lock is released |
| `waiting` | for the one fetch in flight |
| `accepted`, `refused`, `gave up` | ended, the last by the client |

`fetch` runs from `begun` through the transport (`sent`, or at once `failed`) to
`answered` and `done`, and is put away by `Store`: between `done` and `Store` a
verification may join it (`JoinOver`), between `Store` and its own look at the
fetch it may start another. `elapsed` is what the transport's `lastJWKSFetch` is
compared for; it and the other clocks stop at `Interval`, past which nothing
looks at them.

**Reading `TokenVerification`.** A token is its dates, claims, audience,
algorithm, URL and signers. Its payload has two readings. `encoding/json`, which
routes (auth.go:134-143) and which go-oidc decodes with, matches member names in
any case and lets the last win: that is `folded`, used by `Routed` and
`Verifies`. `identity` looks "iss" and "aud" up in a map under these very names
(auth.go:163-177): `iss` and `aud`, used by `IssuerIs` and `AudienceIs`. The two
differ in the tokens of `TestRejectCaseVariantIssuerKey` and
`TestRejectCaseVariantAudienceKey` (auth_test.go:395, 403). Of other members in
a second spelling go-oidc uses nothing; it can only fail to decode them, which
is `Unverified`. `Present` is everything before the signature,
`Conclude` is `Verify` and `identity`, with the clock read when it happens, not
when the token was presented. Dates are in half seconds, so that truncation to
seconds can lose something.

**Reading `Conditions`.** A condition grows on a stack in post-order. An entry
holds what the check knows of an expression (`allowed`, `bindsResource`,
`bindsCaller`) and its value for every caller and resource, so that all trees
with both in common are one entry. `Accepted` is `checkCondition`'s last word.

**Reading `Startup`.** `pc` names the call of `run` (main.go:45-115) that is
next; `done` counts the iterations of the loop of the current constructor.

| `pc` | the code about to run | actions |
|---|---|---|
| `load` | config.Load, Lint | `LoadFails`, `Load` |
| `discover` | auth.New, per issuer | `DiscoveryFails`, `Discover`, `AllDiscovered` |
| `compile` | policy.New, per policy | `CompileFails`, `Compile`, `AllCompiled` |
| `key` | githubapp.New | `ReadKey` |
| `manifest` | ValidateAppPermissions | `NothingToValidate`, `ValidateAppPermissions`, `ManifestFails` |
| `app` .. `user` | FetchAppIdentity, call by call | `FetchApp`, `ListInstallations`, `IdentityToken`, `FetchUser` |
| `listen` | ListenAndServe | `Listen` |

`ChangeWorld` changes the App's permissions and the reachability of everything
outside; `Killed` and `Start` are the supervisor.

Definitions marked *seeded error* in a comment are used by no specification.
Each is a plausible bug in the definition below it and shows that the property
about that code can fail.

## 3. Runs

| Run | States | What it checks |
|---|---|---|
| `permission_laws` | 15625 | all pairs of maps over three keys: one with all three levels, one without admin, one outside the catalog |
| `policy_engine` | 349920 | `Evaluate` with two issuers, up to three policies, two resources, lists of up to four |
| `overlapping_requests` | 53878 | two requests at once with all failures, shutdown, crash and restart; refinement of `TokenIssuance` |
| `every_form` | 116232 | one request with each of 103 forms under fairness |
| `key_set` | 474 k | two verifications, two keys, an interval of three ticks; rotation, outage, crash; safety |
| `key_set_liveness` | 145 k | the same with an interval of two, under fairness |
| `token_verification` | 191 k | 233 tokens of two issuers, each presented at any of 14 half seconds |
| `conditions` | 210 k | all conditions of up to three leaves, three kinds of issuer, ten environments |
| `startup` | 9120 | good documents and documents with one thing wrong; under fairness |
| `graceful_exit` | - | violated: see findings |
| `issuance_audited` | - | violated: see findings |
| `settled_key` | - | violated: see findings |

**Bounds.** The algebra is pointwise in the key and compares two levels at a
time; three keys let a key be known, level-restricted or unknown in one map, and
all pairs of maps are visited. A policy condition only answers for a caller and
one resource, so two resources and three policies show every pair of outcomes in
both orders, leaks from one resource to the next, and repetitions; the cap of
three is reached and exceeded. Handlers meet only in the process, the log and
GitHub, and no property relates more than two requests, so two are enough;
the forms of that run are one for each way through the handler after
authentication, and `every_form` covers the ways that end before. Two
installation permissions, one sufficient and one that is both short and holds
entries the broker does not know, are enough for every change between ceiling
check and creation. Process restarts are unlimited.

*Keys.* The keys of one issuer do not depend on another's. Of two verifications
one can start the fetch and one can miss, join or come late; of two keys one can
be in the cache and one not. `Timeout` is one tick and `Interval` two or three:
the code has 10 s and 30 s, and all that matters of them is that a request is
over before the interval is (`TimesAssumption`). `key_set` reduces by
permutations of verifications and of keys; no constant, initial state or
property singles out one of either, and it checks no liveness.

*Tokens.* Lifetimes of one and two seconds and a skew of one; dates on every
half second on both sides of every limit, including negative ones and one past
the largest; tokens are varied in one or two fields from a good one, in
algorithm, signer and URL and in signer, URL and audience in all combinations,
and in the two readings of URL and of audience apart. `Horizon` is past the
last moment at which any of them could be accepted, but for those refused at any
time.

*Conditions.* Three leaves are needed for `c ? a : b` and for && inside || and
the reverse; every pair of what the check finds and what CEL computes meets at
the root, and larger conditions are built from entries with the same fields (the
proof makes this precise). Owners `a`, `x` and `x y` let a chain be continued so
that another owner's name comes out.

*Start-up.* `validate` looks at one entry or at two; documents have two issuers
and three policies, and one part at a time is replaced by each wrong form of it.
Written empty lists, which the schema refuses, do not occur.

**Deadlock** is not checked where a model ends: an evaluation returns, a request
that was answered stays answered, a condition has all its leaves, the clock of
`TokenVerification` reaches its bound.

**Fairness.** `FairSpec` of `TokenExchange` assumes weak fairness of each handler's next step:
goroutines are scheduled, and each wait inside one ends by itself, as the GitHub
client has a 30 s timeout (githubapp.go:100-123), the OIDC client one of its
own (discovery.go:57-72) and the server a `WriteTimeout` (main.go:89-95).
Nothing is assumed of GitHub (a call may stay on its way for ever), of clients,
administrators or operators. `EveryRequestEnds` holds with this alone, whichever
way a handler's calls turn out.

`KeySet` assumes weak fairness of each verification's own steps and of the
fetch's (`Request`, `Reply`, `Settle`): goroutines are scheduled, and a request
to the issuer is answered or runs into the 10 s of its client
(discovery.go:16, 64). `Tick` is strongly fair: time passes however busy the
broker is; it is not always enabled because a fetch that is over is put away, and
a request ended, within a tick. Clients may give up or keep coming back; issuers may
stay away for ever; nothing is assumed of crashes. `Startup` assumes weak
fairness of `run`: every call it makes has a timeout (discovery.go:17,
githubapp.go:110, 119).

**Findings.**

1. `GracefulExit`: the comment *Graceful shutdown on SIGINT/SIGTERM*
   (main.go:97) and the 10 s given to `Shutdown` say that requests are drained.
   `ListenAndServe` returns `ErrServerClosed` as soon as `Shutdown` has begun;
   `run` returns, and the process ends under the requests it was draining.
   TLC's trace: a request arrives, the signal comes, `run` returns.
2. `IssuanceAudited`: *audit events for every token issuance* (audit.go:1). If
   GitHub created the token but its answer is lost or unreadable, the handler
   answers 502 without an audit event (server.go:267-269). What does hold is
   `GivenTokenIsOnRecord`: no client *has* a token that is not on record.
3. `SettledKeyAccepted`: `TestKeyRotation` (discovery_test.go:286) expects a
   token with a key that has been rotated in for an interval to be accepted. Two
   such tokens miss the cache together; one fetch is stored before the other
   verification looks for a fetch to join, which then starts its own and is
   throttled: a 401 for a good token, with its key in the cache. What does hold
   is `RefusedAtMostOnce`: presented again, it is accepted.

Two further observations are part of properties that hold. `exp` and `iat` lose
their fractions separately (auth.go:258), so a token may live up to a second
longer than `max_token_lifetime_seconds` (README.md:86 calls that an upper bound
on `exp - iat`): `WindowIsBounded` says *less than* a second, and
`RefusalsAreJustified` that no more than a second is lost on the other side. And
a written skew of 0, which the schema allows, is taken for a missing one and
becomes 60 s (config.go:299): `WrittenIsServed` says that it is the only number
to which this happens.

## 4. Proofs

The eight proof modules are checked by TLAPS, for every set of keys, every
catalog, every set of policies, all forms and any number of requests,
verifications, tokens and documents, and conditions of every size. They use the
named assumptions of the modules (the catalog maps keys to levels, the cap is a
natural number, a request to an issuer ends within an interval, no two issuers
have one URL, policies, forms, tokens and documents have their types, no `/`
occurs in a name, GitHub fills its claims from the caller's repository) and
nothing else. Every property of the runs but the four
liveness properties is a theorem. The types of `Conditions` and `Startup` are
lemmas of the proofs only: what they say is about the stack that writes a
condition and the counter of a loop, not about the broker. Two things the prover cannot do are gone
round: where an argument goes by induction over data (the nodes of a tree, the
parts of a concatenation, the policies of a list), the theorem of the library
that takes a predicate is replaced by induction over the *set* of places where
the claim holds; and no module a theorem reaches declares a `RECURSIVE` operator.

- *Algebra.* `Authority` of a normalized map is characterised key by key; each
  operation then reduces to a fact about two levels. The six laws of
  `PermissionLaws` are theorems (`TypeCorrect` .. `GapFreeIntersectIsAlwaysRequest`).
- *Engine.* The invariant `IInv` says, besides types, what the loops have done
  so far: `seen` is the set of the resources before `i`; the grant under
  construction has the authority of the policies before `j` that match
  (`GrantIsWhatMatchedSoFar`); committed grants and `uncovered` agree with the
  definition (`GrantsAreSeparate`); `matched` and `skipped` are the names of
  the policies that matched or failed on resources before `i`, and on the
  current one among the policies before `j`; the verdict is pending until the
  end. The properties alone are not inductive: that a commit is right needs the
  accumulated grant, and that the result is right needs the names. With it
  `Finish` and `RejectOversized` are steps of `PolicyDecision` and all others
  stutter: `EngineImplementsDecision`. The merge lemma (authority of a merge is
  the union) is what makes the order of policies irrelevant. Three results go
  beyond the runs. `EvaluationIsBounded`: each step lowers a bound of
  `Len(policies) + 2` for each resource and two besides, so `Evaluate` ends
  without an appeal to fairness, and the cap on resources bounds its work.
  `EvaluateReturnsDecision`: what is returned is a function of policies and
  request. And so the laws an operator relies on when editing a configuration
  hold of the code: more policies never deny more (`PoliciesOnlyAdd`), a list is as good as its parts
  (`ListsAreAllowedByResource`), who may have more may have less
  (`LessIsAllowed`), and an error in a condition counts as false
  (`FailingConditionsGrantNothing`).
- *Token exchange.* The safety properties are not inductive: that a token is
  entitled depends on what the handler had checked when it sent the mint call.
  `IInv` is a conjunction over requests (`Local(q)`) and says what each place
  of a handler implies:
  `FormIsPassed` (past the decision the form is `Entitled`), `NothingTooEarly`
  (no call, token, reply or record before its place), `MintsAreDue` (at most one
  call or token, and only `DueBody` or `DueScope` of the form),
  `RefusalsAreFounded` and `AllowsAreFounded` (what reply and record say of
  calls and tokens). A step of one request cannot disturb another
  (`RequestStepFrame`, `LocalDepends`), so each action is looked at for its own
  request only: `MovesKeep` for steps that only move on, `ErrorsKeep`,
  `AuditKeeps`, then `GitHubKeeps`, `ChangeKeeps` and `ProcessKeeps` for the
  others. Three lemmas about data carry it: the body that `Mint` sends is the
  one the form is due when there are no gaps (`MintBodyIsDue`, from
  `GapFreeIntersect`); what GitHub makes of that body is independent of what the
  installation holds by then, because neither of its lists can be empty
  where empty would mean "all" (`DueBodyCreates`); and the resulting token
  reaches the strings the policies judged (`ReachOfDue`). All six invariants of
  the runs follow. Beyond them, `NoTokenExceedsItsGrants` bounds the token and
  not only the request: on each resource it reaches it can do no more than the
  issuer's policies that match there grant, and read what GitHub implies;
  `OneEventPerRequest`: the log never has two different events of one request,
  through crashes and lost answers (what `AuditAllow` and the denies can add is
  the first, `EventIsFirst`); `DefectiveFormsLeaveNoTrace`: a request whose form
  fails a check never has a mint call, a token or an event, and no answer but the
  error of the first check that fails.
- *Refinement.* The second part of `TokenExchangeProofs` compares each action with one of the promise:
  `Arrive` asks, `Deny` and `RefuseMint` record a deny, `AuditAllow` an allow,
  `GitHubCreates` issues, `Respond` gives, refuses or fails, `LoseResponse` and
  `CutOff` lose; all others stutter. What needs `IInv` is that GitHub issues
  only what is due and before no answer that excludes it (`CreationIsIssue`,
  also after the handler has failed or was cut off), and that a refusal without
  a record is due nothing (`ReplyIsPromised`). `AnswerOf` calls an
  `invalid_grant` without a record a failure when the request has a due: that is
  an authentication that failed for want of keys.

- *Keys.* What `due` and `kept` promise is about the past, so `IInv` of
  `KeySetProofs` relates the clocks to the fetch: a request is over before the
  interval is (`InTime`, from `Timeout < Interval`); the clocks of the history
  agree with the present (`HistoryIsTrue`); a key listed since before the last
  request is in its answer (`AnswerIsCurrent`), and if the issuer has been there
  since, in the cache (`CacheIsCurrent`). A throttled fetch means that the last
  request was less than an interval ago, so a settled key was already listed
  then: it is in the cache. That is `RefusedAtMostOnce`. The other direction needs
  no clocks: `UnlistedStaysUnknown` says that what cache and answer do not hold
  is not learnt while the issuer does not list it, so no late answer brings a
  withdrawn key back after a restart, and `UnlistedNeverAccepted` that a token
  whose key was never on the list is not accepted in any behaviour.
- *Verification.* An acceptance is not forgotten while time goes by, so `IInv`
  keeps what it was founded on (`Founded`: issuer and audience as named exactly,
  signature, lifetime and claims, and that `first` was no earlier than `iat` allows), and for the
  last verdict, the clock (`VerdictIsCurrent`). `WindowIsBounded` follows by
  arithmetic over truncated dates (`Truncation`).
- *Conditions.* `ConstrainsIsRight`, `OnlyListedResources` and
  `StrangersStayAtHome` are proved in two layers. The first supposes
  `LeavesSayTruly`, that `constrains` is right about single comparisons, and
  carries it to conditions of any size and depth (`AndWithin`, `OrWithin`, under
  CEL's absorption of errors). The second proves it: `ComparisonsSayTruly`. Its
  core is that two concatenations are equal only if the parts a literal or a
  claim of the caller has fixed are: a text is a sequence of symbols, the
  owner's prefix ends at the first `/`, no name holds a `/`
  (`SymbolAssumption`, `TextsAssumption`), so a resource that equals owner, `/`
  and anything has that owner. Of the world it supposes what the code does:
  GitHub fills `repository` and `repository_owner` from the caller's repository
  (`CallerAssumption`), and no other identity claim is spelled like a resource
  (`IdentityAssumption`). The induction
  over the parts of a chain of `+` is over the set of lengths at which it holds.
- *Start-up.* `IInv` says what each place of `run` has behind it: the loaded
  configuration passed the schema and `Valid` (`LoadedIsValid`), keys for the
  issuers so far (`KeysInOrder`), policies filed so far (`PoliciesInOrder`), and
  from the manifest check on, that each grant is within what GitHub showed
  (`GrantsAreBacked`, `MintedAreChecked`). The step from the check of the
  *aggregate* to each single grant is `AggregateCovers` with `NoGapsCovers`: the
  highest level of each key has all rights of each grant. `ServingPartsAreFit` is
  the hand-off to the other modules: whatever document a process serves with,
  its issuers satisfy what `TokenVerification` assumes of its configuration and
  its compiled policies what `Policies` assumes, so those theorems are about
  every broker that starts, not about configurations picked for them.
- *Progress.* Liveness needs fairness, which is out of reach, but what it rests
  on is not: nothing is done twice and nothing goes back. `RequestsOnlyAdvance`
  (ten stages of a request), `VerificationsOnlyGoOn` (one look into the cache,
  one fetch, one verdict), `StartsOnlyGoOn` (one step of `run` for each issuer
  and policy) and `EvaluationIsBounded` say that a behaviour can fail to end
  only by not taking a step; that fair ones do take it is left to TLC.

Only model-checked: `EveryRequestEnds`, `PublishedKeyArrives`,
`EveryVerificationEnds`, `EveryStartEnds`. Their proofs would need the
`ENABLED` of the fairness conditions, which this version of the prover does not
expand.

## 5. Not modelled

- *CEL.* Its parser, type checker and cost limit are external. A comprehension
  (`exists`, `all`) is one of the expressions that do not constrain, with any
  value; the warnings about `request.resources` only log.
- *Decoding.* YAML, environment variables and the wording of the JSON schema;
  the bind address, `PORT` and the cost limit, which pass through unchanged.
- *Signatures.* A token is signed by the keys of a set of issuers or not.
- *Audit-only claims* and the optional audit fields: no decision depends on them.
- *The App's JWT transport*: a call to GitHub is answered or fails.
- *Wording*: error descriptions, log lines, gap and deny texts, audit fields no
  property distinguishes.
- *Metadata, health and OpenAPI endpoints*: constant answers. *Schema
  generator, catalog script*: build tooling.
- *Panics.* `handleToken` has no reachable panic in its own code; one would end
  the connection, which `LoseResponse` and `CutOff` allow for.

## 6. Plan

Done: all components of section 1 that hold state or decide something. What
would add most next:

1. The warnings of `policy.New` about conditions on `request.resources`, with
   comprehensions as expressions of `Conditions`.
2. `TokenExchange` with `KeySet` in place of the outcome of `Authenticate`, to
   state end to end for how long a rotated key can cost a request its token.
