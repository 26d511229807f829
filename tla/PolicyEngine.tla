---------------------------- MODULE PolicyEngine -----------------------------
(***************************************************************************)
(* Engine.Evaluate, loop by loop: the cap check, then for each resource    *)
(* not yet decided a pass over the issuer's policies, whose grants are     *)
(* merged into the resource's grant, then the commit of that resource.     *)
(* The engine holds no mutable state, so one evaluation is the whole       *)
(* behaviour; concurrent evaluations do not interact.                      *)
(*                                                                         *)
(* The sorted slices of the decision are sets here, and decision.Grants is *)
(* the pair of "seen" (its keys) and "grants" (its values).                *)
(***************************************************************************)
EXTENDS PolicyDecision

\* policies is e.policies, request is the Input with the required Scope, and
\* verdict is what Evaluate returns, once it has returned.
VARIABLES
    pc,          \* where the evaluation is
    i, j,        \* the next resource, the next policy
    covered,     \* a policy matched the current resource
    grant,       \* what the matching policies grant on it so far
    seen,        \* keys of decision.Grants
    grants,      \* values of decision.Grants
    uncovered, matched, skipped

loopVars == <<i, j, covered, grant, seen, grants, uncovered, matched, skipped>>
vars == <<policies, request, verdict, pc, loopVars>>

Policies == policies[request.issuer]
CurrentResource == request.resources[i]
CurrentPolicy == Policies[j]

MorePolicies == pc = "policy" /\ j <= Len(Policies)
Answers(o) == CurrentPolicy.outcome[<<request.caller, CurrentResource>>] = o

\* checkListCaps compares the full list, duplicates included.
ExceedsCap(resources) == Len(resources) > MaxRepositories
-----------------------------------------------------------------------------
Init == /\ policies \in PolicySets
        /\ request \in Requests
        /\ verdict = Pending
        /\ pc = "caps"
        /\ i = 1 /\ j = 1
        /\ covered = FALSE
        /\ grant = NoPermissions
        /\ seen = {}
        /\ grants = [r \in Resource |-> NoPermissions]
        /\ uncovered = {} /\ matched = {} /\ skipped = {}

RejectOversized == /\ pc = "caps"
                   /\ ExceedsCap(request.resources)
                   /\ verdict' = Rejected
                   /\ pc' = "done"
                   /\ UNCHANGED <<policies, request, loopVars>>

AcceptSize == /\ pc = "caps"
              /\ ~ExceedsCap(request.resources)
              /\ pc' = "resource"
              /\ UNCHANGED <<policies, request, verdict, loopVars>>

AlreadyGranted(r) == r \in seen

SkipDuplicate == /\ pc = "resource" /\ i <= Len(request.resources)
                 /\ AlreadyGranted(CurrentResource)
                 /\ i' = i + 1
                 /\ UNCHANGED <<policies, request, verdict, pc, j, covered, grant,
                                seen, grants, uncovered, matched, skipped>>

\* (Seeded error: the map is made once, outside the loop over resources.)
StaleGrant == grant
FreshGrant == NoPermissions

StartResource == /\ pc = "resource" /\ i <= Len(request.resources)
                 /\ ~AlreadyGranted(CurrentResource)
                 /\ j' = 1
                 /\ covered' = FALSE
                 /\ grant' = FreshGrant
                 /\ pc' = "policy"
                 /\ UNCHANGED <<policies, request, verdict, i, seen, grants,
                                uncovered, matched, skipped>>
-----------------------------------------------------------------------------
\* A condition that fails at run time is recorded and contributes nothing.
SkipPolicy == /\ MorePolicies
              /\ Answers("error")
              /\ skipped' = skipped \cup {CurrentPolicy.name}
              /\ j' = j + 1
              /\ UNCHANGED <<policies, request, verdict, pc, i, covered, grant,
                             seen, grants, uncovered, matched>>

PassPolicy == /\ MorePolicies
              /\ Answers("false")
              /\ j' = j + 1
              /\ UNCHANGED <<policies, request, verdict, pc, i, covered, grant,
                             seen, grants, uncovered, matched, skipped>>

MatchPolicy == /\ MorePolicies
               /\ Answers("true")
               /\ covered' = TRUE
               /\ matched' = matched \cup {CurrentPolicy.name}
               /\ grant' = MergePermissions(grant, CurrentPolicy.grant)
               /\ j' = j + 1
               /\ UNCHANGED <<policies, request, verdict, pc, i, seen, grants,
                              uncovered, skipped>>

\* (Seeded errors: a match is enough; only a covered resource enters Grants.)
Unmatched == ~covered
FallsShort == ~covered \/ ~CoversPermissions(request.required, grant)

CoveredKeys == IF FallsShort THEN seen ELSE seen \cup {CurrentResource}
GrantKeys == seen \cup {CurrentResource}

CommitResource == /\ pc = "policy" /\ j > Len(Policies)
                  /\ seen' = GrantKeys
                  /\ grants' = [grants EXCEPT ![CurrentResource] = grant]
                  /\ uncovered' = IF FallsShort THEN uncovered \cup {CurrentResource}
                                                ELSE uncovered
                  /\ i' = i + 1
                  /\ pc' = "resource"
                  /\ UNCHANGED <<policies, request, verdict, j, covered, grant,
                                 matched, skipped>>

\* (Seeded error: one covered resource allows the request.)
SomeCovered == seen # {} /\ uncovered # seen
Allowed == seen # {} /\ uncovered = {}

Finish == /\ pc = "resource" /\ i > Len(request.resources)
          /\ verdict' = Decided(Allowed, uncovered, matched, skipped)
          /\ pc' = "done"
          /\ UNCHANGED <<policies, request, loopVars>>

Next == \/ RejectOversized \/ AcceptSize
        \/ SkipDuplicate \/ StartResource
        \/ SkipPolicy \/ PassPolicy \/ MatchPolicy
        \/ CommitResource \/ Finish

Spec == Init /\ [][Next]_vars
-----------------------------------------------------------------------------
(* Properties.                                                             *)

\* Every variable keeps its type.
TypeOK == /\ policies \in PolicySets
          /\ request \in Requests
          /\ pc \in {"caps", "resource", "policy", "done"}
          /\ i \in 1 .. Len(request.resources) + 1
          /\ j \in 1 .. Len(Policies) + 1
          /\ pc = "policy" => i <= Len(request.resources)
          /\ covered \in BOOLEAN
          /\ grant \in PermissionMap
          /\ seen \subseteq Resource
          /\ grants \in [Resource -> PermissionMap]
          /\ uncovered \subseteq seen
          /\ matched \subseteq PolicyName /\ skipped \subseteq PolicyName

\* The policies of the current resource's pass with outcome o so far.
PassedSoFar(o) ==
    {Policies[n] : n \in {m \in 1 .. j - 1 :
        Policies[m].outcome[<<request.caller, CurrentResource>>] = o}}

\* Halfway through the policies of a resource, the accumulated grant carries
\* exactly the authority of the policies that matched this resource so far:
\* nothing is left over from the resource before, nothing comes from a policy
\* that did not match or failed, and no later grant lowers an earlier one.
GrantIsWhatMatchedSoFar ==
    pc = "policy" =>
        /\ covered <=> PassedSoFar("true") # {}
        /\ Authority(grant) = UNION {Authority(p.grant) : p \in PassedSoFar("true")}

\* Every committed resource has its own grant, made of the policies matching
\* that very resource, and is listed as uncovered exactly when that grant
\* falls short of the request: grants never combine across resources.
GrantsAreSeparate ==
    \A r \in seen :
        /\ Authority(grants[r]) = Held(policies, request, r)
        /\ r \in uncovered <=> ~IsCovered(policies, request, r)

\* The whole evaluation implements the one-step decision, including which
\* policies the audit event will name as matched and as skipped.
ImplementsDecision == DecisionSpec
==============================================================================
