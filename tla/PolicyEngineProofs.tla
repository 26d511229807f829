------------------------- MODULE PolicyEngineProofs --------------------------
(***************************************************************************)
(* The loops of Engine.Evaluate compute the one-step decision, for every   *)
(* number of policies, resources, keys and callers.                        *)
(*                                                                         *)
(* The inductive invariant adds to the properties of PolicyEngine what     *)
(* relates the loop counters to the sets: which resources are committed,   *)
(* whose names are recorded, and that there is no verdict before the end.  *)
(***************************************************************************)
EXTENDS PolicyEngine, PermissionLemmas

Before(n) == {request.resources[m] : m \in 1 .. n - 1}

NamesAmong(S) == {p.name : p \in S}

NamesSoFar(o) ==
    NamesAmong(UNION {Yields(policies, request, r, o) : r \in seen})
        \cup IF pc = "policy" THEN NamesAmong(PassedSoFar(o)) ELSE {}

AtStart == /\ i = 1 /\ seen = {} /\ uncovered = {} /\ matched = {} /\ skipped = {}

InLoop == /\ ~Oversized(request)
          /\ seen = Before(i)
          /\ matched = NamesSoFar("true")
          /\ skipped = NamesSoFar("error")

Progress == /\ pc = "caps" => AtStart
            /\ pc \in {"resource", "policy"} => InLoop
            /\ pc = "policy" => CurrentResource \notin seen
            /\ pc # "done" => verdict = Pending

IInv == /\ TypeOK
        /\ grant \in Canonical
        /\ GrantIsWhatMatchedSoFar
        /\ GrantsAreSeparate
        /\ Progress
-----------------------------------------------------------------------------
\* What the constants' assumptions say of a state's policies and request.
LEMMA InputTypes ==
    ASSUME TypeOK
    PROVE  /\ request \in Request
           /\ Policies \in Seq(Policy)
           /\ request.resources \in Seq(Resource)
           /\ Evaluated(policies, request) = Range(Policies)
           /\ Evaluated(policies, request) \subseteq Policy
PROOF
  <1>1. request \in Request
    BY RequestsAssumption DEF TypeOK
  <1>2. Policies \in Seq(Policy)
    BY <1>1, PolicySetsAssumption DEF TypeOK, Policies, Request
  <1> QED
    BY <1>1, <1>2 DEF Request, Evaluated, Policies, Range

\* The policy the inner loop is at.
LEMMA CurrentPolicyType ==
    ASSUME TypeOK, MorePolicies
    PROVE  /\ CurrentPolicy \in Policy
           /\ CurrentPolicy \in Evaluated(policies, request)
           /\ CurrentPolicy.grant \in PermissionMap
           /\ CurrentPolicy.name \in PolicyName
           /\ j \in 1 .. Len(Policies)
           /\ CurrentResource \in Resource
PROOF
  <1>1. j \in 1 .. Len(Policies) /\ i \in 1 .. Len(request.resources)
    BY InputTypes DEF TypeOK, MorePolicies
  <1>2. CurrentPolicy \in Policy /\ CurrentPolicy \in Range(Policies)
    BY <1>1, InputTypes DEF CurrentPolicy, Range
  <1>3. CurrentResource \in Resource
    BY <1>1, InputTypes DEF CurrentResource
  <1> QED
    BY <1>1, <1>2, <1>3, InputTypes DEF Policy

\* One more policy passed adds that policy, to its own outcome only.
LEMMA PassOne ==
    ASSUME TypeOK, MorePolicies, j' = j + 1,
           UNCHANGED <<policies, request, i>>, NEW o
    PROVE  PassedSoFar(o)' =
              IF Answers(o) THEN PassedSoFar(o) \cup {CurrentPolicy} ELSE PassedSoFar(o)
PROOF
  <1>1. j \in Nat /\ 1 .. j' - 1 = (1 .. j - 1) \cup {j}
    BY CurrentPolicyType
  <1>2. Policies' = Policies /\ CurrentResource' = CurrentResource /\ request' = request
    BY DEF Policies, CurrentResource
  <1> QED
    BY <1>1, <1>2 DEF PassedSoFar, Answers, CurrentPolicy

\* All policies passed are the policies that yield the outcome.
LEMMA PassAll ==
    ASSUME TypeOK, pc = "policy", j > Len(Policies), NEW o
    PROVE  PassedSoFar(o) = Yields(policies, request, CurrentResource, o)
PROOF
  <1>1. Len(Policies) \in Nat /\ j = Len(Policies) + 1
    BY InputTypes DEF TypeOK
  <1>2. 1 .. j - 1 = DOMAIN Policies
    BY <1>1, InputTypes
  <1> QED
    BY <1>2, InputTypes DEF PassedSoFar, Yields, Range

\* The engine's test is the decision's, when the grant is what is held.
LEMMA CoversIsCovered ==
    ASSUME NEW required \in PermissionMap, NEW g \in PermissionMap
    PROVE  CoversPermissions(required, g)
              <=> Understood(required) /\ Authority(required) \subseteq Authority(g)
PROOF
  <1>1. Present(Normalize(required)) = Present(required) <=> Understood(required)
    BY DEF Present, Normalize, Keeps, ValidKey, ValidLevel, Understood, PermissionMap, Absent, Level
  <1> QED
    BY <1>1, SatisfiesAuthority DEF CoversPermissions
-----------------------------------------------------------------------------
LEMMA InitInvariant == Init => IInv
PROOF
  <1> SUFFICES ASSUME Init
               PROVE  IInv
    OBVIOUS
  <1>1. request \in Request /\ Len(request.resources) \in Nat
    BY RequestsAssumption DEF Init, Request
  <1>2. Policies \in Seq(Policy)
    BY <1>1, PolicySetsAssumption DEF Init, Policies, Request
  <1>3. TypeOK
    <2>1. i \in 1 .. Len(request.resources) + 1 /\ j \in 1 .. Len(Policies) + 1
      BY <1>1, <1>2 DEF Init
    <2>2. NoPermissions \in PermissionMap
      BY NothingCanonical DEF Canonical
    <2> QED
      BY <2>1, <2>2 DEF Init, TypeOK
  <1> QED
    BY <1>3, NothingCanonical
       DEF Init, IInv, Progress, AtStart, GrantIsWhatMatchedSoFar, GrantsAreSeparate

\* The steps outside the inner loop that leave the committed grants alone.
LEMMA OuterSteps ==
    ASSUME IInv, RejectOversized \/ AcceptSize \/ SkipDuplicate \/ StartResource \/ Finish
    PROVE  IInv'
PROOF
  <1> USE DEF IInv
  <1>1. /\ Len(request.resources) \in Nat /\ Len(Policies) \in Nat
        /\ i \in Nat \ {0} /\ request' = request /\ policies' = policies /\ Policies' = Policies
        /\ NoPermissions \in PermissionMap /\ NoPermissions \in Canonical
    BY InputTypes, NothingCanonical
       DEF TypeOK, RejectOversized, AcceptSize, SkipDuplicate, StartResource, Finish,
           Policies, Canonical
  <1>2. TypeOK'
    <2>1. CASE RejectOversized \/ AcceptSize \/ Finish
      BY <2>1, <1>1 DEF TypeOK, RejectOversized, AcceptSize, Finish, loopVars
    <2>2. CASE SkipDuplicate
      <3>1. i' \in 1 .. Len(request.resources) + 1
        BY <2>2, <1>1 DEF SkipDuplicate
      <3> QED
        BY <2>2, <3>1, <1>1 DEF TypeOK, SkipDuplicate
    <2>3. CASE StartResource
      <3>1. j' \in 1 .. Len(Policies') + 1 /\ i' \in 1 .. Len(request'.resources) + 1
        BY <2>3, <1>1 DEF StartResource, TypeOK
      <3>2. grant' \in PermissionMap
        BY <2>3, <1>1 DEF StartResource, FreshGrant
      <3> QED
        BY <2>3, <1>1, <3>1, <3>2 DEF TypeOK, StartResource
    <2> QED
      BY <2>1, <2>2, <2>3
  <1>3. GrantsAreSeparate'
    BY <1>1 DEF GrantsAreSeparate, RejectOversized, AcceptSize, SkipDuplicate, StartResource,
                Finish, loopVars
  <1>4. grant' \in Canonical
    BY <1>1 DEF RejectOversized, AcceptSize, SkipDuplicate, StartResource, Finish, loopVars,
                FreshGrant
  <1>5. GrantIsWhatMatchedSoFar'
    <2>1. CASE StartResource
      <3>1. PassedSoFar("true")' = {}
        BY <2>1 DEF StartResource, PassedSoFar
      <3> QED
        BY <3>1, <2>1, NothingCanonical DEF GrantIsWhatMatchedSoFar, StartResource, FreshGrant
    <2>2. CASE ~StartResource
      BY <2>2 DEF GrantIsWhatMatchedSoFar, RejectOversized, AcceptSize, SkipDuplicate, Finish
    <2> QED
      BY <2>1, <2>2
  <1>6. Progress'
    <2>1. CASE RejectOversized \/ Finish
      BY <2>1 DEF Progress, RejectOversized, Finish
    <2>2. CASE AcceptSize
      <3>1. Before(1)' = {} /\ NamesSoFar("true")' = {} /\ NamesSoFar("error")' = {}
        BY <2>2 DEF Progress, AtStart, AcceptSize, loopVars, Before, NamesSoFar, NamesAmong
      <3> QED
        BY <2>2, <3>1 DEF Progress, AtStart, InLoop, AcceptSize, loopVars, ExceedsCap, Oversized
    <2>3. CASE SkipDuplicate
      <3>1. Before(i + 1) = Before(i) \cup {CurrentResource}
        BY <1>1 DEF Before, CurrentResource
      <3>2. Before(i)' = Before(i) \cup {CurrentResource}
        BY <3>1, <2>3, <1>1 DEF Before, SkipDuplicate
      <3>3. seen' = Before(i)'
        BY <3>2, <2>3 DEF SkipDuplicate, AlreadyGranted, Progress, InLoop
      <3>4. NamesSoFar("true")' = NamesSoFar("true") /\ NamesSoFar("error")' = NamesSoFar("error")
        BY <2>3 DEF SkipDuplicate, NamesSoFar
      <3> QED
        BY <2>3, <3>3, <3>4 DEF SkipDuplicate, Progress, InLoop
    <2>4. CASE StartResource
      <3>1. PassedSoFar("true")' = {} /\ PassedSoFar("error")' = {}
        BY <2>4 DEF StartResource, PassedSoFar
      <3>2. NamesSoFar("true")' = NamesSoFar("true") /\ NamesSoFar("error")' = NamesSoFar("error")
        BY <2>4, <3>1 DEF StartResource, NamesSoFar, NamesAmong
      <3>3. Before(i)' = Before(i) /\ CurrentResource' = CurrentResource
        BY <2>4 DEF StartResource, Before, CurrentResource
      <3> QED
        BY <2>4, <3>2, <3>3 DEF StartResource, AlreadyGranted, Progress, InLoop
    <2> QED
      BY <2>1, <2>2, <2>3, <2>4
  <1> QED
    BY <1>2, <1>3, <1>4, <1>5, <1>6

\* The steps of the inner loop.
LEMMA InnerSteps ==
    ASSUME IInv, SkipPolicy \/ PassPolicy \/ MatchPolicy
    PROVE  IInv'
PROOF
  <1> USE DEF IInv
  <1>1. /\ MorePolicies /\ j' = j + 1 /\ UNCHANGED <<policies, request, i, pc, verdict>>
        /\ UNCHANGED <<seen, grants, uncovered>> /\ pc = "policy"
    BY DEF SkipPolicy, PassPolicy, MatchPolicy, MorePolicies
  <1>2. /\ Policies' = Policies /\ CurrentResource' = CurrentResource
        /\ Len(Policies) \in Nat /\ Len(request.resources) \in Nat
    BY <1>1, InputTypes DEF Policies, CurrentResource
  <1>3. \A o : PassedSoFar(o)' =
              IF Answers(o) THEN PassedSoFar(o) \cup {CurrentPolicy} ELSE PassedSoFar(o)
    BY <1>1, PassOne
  <1>4. /\ CurrentPolicy.grant \in PermissionMap /\ CurrentPolicy.name \in PolicyName
        /\ j \in 1 .. Len(Policies)
    BY <1>1, CurrentPolicyType
  <1>5. /\ MergePermissions(grant, CurrentPolicy.grant) \in Canonical
        /\ MergePermissions(grant, CurrentPolicy.grant) \in PermissionMap
        /\ Authority(MergePermissions(grant, CurrentPolicy.grant))
              = Authority(grant) \cup Authority(CurrentPolicy.grant)
    BY <1>4, MergeAuthority DEF Canonical
  <1>6. TypeOK'
    <2>1. j' \in 1 .. Len(Policies') + 1
      BY <1>1, <1>2, <1>4
    <2>2. covered' \in BOOLEAN /\ grant' \in PermissionMap
      BY <1>5 DEF TypeOK, SkipPolicy, PassPolicy, MatchPolicy
    <2>3. matched' \subseteq PolicyName /\ skipped' \subseteq PolicyName
      BY <1>4 DEF TypeOK, SkipPolicy, PassPolicy, MatchPolicy
    <2> QED
      BY <1>1, <2>1, <2>2, <2>3 DEF TypeOK
  <1>7. GrantsAreSeparate'
    BY <1>1 DEF GrantsAreSeparate
  <1>8. grant' \in Canonical
    BY <1>5 DEF SkipPolicy, PassPolicy, MatchPolicy
  <1>9. GrantIsWhatMatchedSoFar'
    <2>1. CASE MatchPolicy
      <3>1. PassedSoFar("true")' = PassedSoFar("true") \cup {CurrentPolicy}
        BY <2>1, <1>3 DEF MatchPolicy
      <3>2. grant' = MergePermissions(grant, CurrentPolicy.grant) /\ covered' = TRUE
        BY <2>1 DEF MatchPolicy
      <3>3. UNION {Authority(p.grant) : p \in PassedSoFar("true") \cup {CurrentPolicy}}
              = (UNION {Authority(p.grant) : p \in PassedSoFar("true")})
                   \cup Authority(CurrentPolicy.grant)
        OBVIOUS
      <3>4. Authority(grant)' = UNION {Authority(p.grant) : p \in PassedSoFar("true")'}
        BY <1>1, <1>5, <3>1, <3>2, <3>3 DEF GrantIsWhatMatchedSoFar
      <3> QED
        BY <3>1, <3>2, <3>4 DEF GrantIsWhatMatchedSoFar
    <2>2. CASE SkipPolicy \/ PassPolicy
      <3>1. PassedSoFar("true")' = PassedSoFar("true")
        BY <2>2, <1>3 DEF SkipPolicy, PassPolicy, Answers
      <3>2. grant' = grant /\ covered' = covered
        BY <2>2 DEF SkipPolicy, PassPolicy
      <3> QED
        BY <3>1, <3>2, <1>1 DEF GrantIsWhatMatchedSoFar
    <2> QED
      BY <2>1, <2>2
  <1>10. Progress'
    <2>1. Before(i)' = Before(i)
      BY <1>1 DEF Before
    <2>2. \A o : NamesSoFar(o)' =
             IF Answers(o) THEN NamesSoFar(o) \cup {CurrentPolicy.name} ELSE NamesSoFar(o)
      BY <1>1, <1>3 DEF NamesSoFar, NamesAmong
    <2>3. matched' = NamesSoFar("true")' /\ skipped' = NamesSoFar("error")'
      BY <1>1, <2>2 DEF Progress, InLoop, SkipPolicy, PassPolicy, MatchPolicy, Answers
    <2> QED
      BY <1>1, <1>2, <2>1, <2>3 DEF Progress, InLoop
  <1> QED
    BY <1>6, <1>7, <1>8, <1>9, <1>10

\* The commit of a resource: what its policies gave becomes its own grant.
LEMMA CommitStep ==
    ASSUME IInv, CommitResource
    PROVE  IInv'
PROOF
  <1> USE DEF IInv
  <1> DEFINE r == CurrentResource
  <1>1. /\ pc = "policy" /\ j > Len(Policies) /\ pc' = "resource" /\ i' = i + 1
        /\ UNCHANGED <<policies, request, verdict, j, covered, grant, matched, skipped>>
        /\ seen' = seen \cup {r}
        /\ grants' = [grants EXCEPT ![r] = grant]
        /\ uncovered' = IF FallsShort THEN uncovered \cup {r} ELSE uncovered
    BY DEF CommitResource, GrantKeys
  <1>2. /\ Policies' = Policies
        /\ Len(Policies) \in Nat /\ Len(request.resources) \in Nat
        /\ i \in 1 .. Len(request.resources)
        /\ r \in Resource /\ r \notin seen
        /\ request.required \in PermissionMap
    BY <1>1, InputTypes DEF Policies, CurrentResource, TypeOK, Progress, Request
  <1>3. \A o : PassedSoFar(o) = Yields(policies, request, r, o)
    BY <1>1, PassAll
  <1>4. Authority(grant) = Held(policies, request, r)
    BY <1>1, <1>3 DEF GrantIsWhatMatchedSoFar, Held
  <1>5. FallsShort <=> ~IsCovered(policies, request, r)
    <2>1. covered <=> Yields(policies, request, r, "true") # {}
      BY <1>1, <1>3 DEF GrantIsWhatMatchedSoFar
    <2>2. CoversPermissions(request.required, grant)
             <=> Understood(request.required) /\ Authority(request.required) \subseteq Authority(grant)
      BY <1>2, CoversIsCovered DEF TypeOK
    <2> QED
      BY <2>1, <2>2, <1>4 DEF FallsShort, IsCovered
  <1>6. TypeOK'
    BY <1>1, <1>2 DEF TypeOK
  <1>7. GrantsAreSeparate'
    <2> SUFFICES ASSUME NEW s \in seen'
                 PROVE  /\ Authority(grants'[s]) = Held(policies, request, s)
                        /\ s \in uncovered' <=> ~IsCovered(policies, request, s)
      BY <1>1 DEF GrantsAreSeparate
    <2>1. CASE s = r
      <3>1. grants'[s] = grant
        BY <2>1, <1>1, <1>2 DEF TypeOK
      <3>2. s \in uncovered' <=> FallsShort
        BY <2>1, <1>1, <1>2 DEF TypeOK
      <3> QED
        BY <3>1, <3>2, <2>1, <1>4, <1>5
    <2>2. CASE s # r
      <3>1. s \in seen /\ grants'[s] = grants[s] /\ (s \in uncovered' <=> s \in uncovered)
        BY <2>2, <1>1, <1>2 DEF TypeOK
      <3> QED
        BY <3>1 DEF GrantsAreSeparate
    <2> QED
      BY <2>1, <2>2
  <1>8. Progress'
    <2>1. Before(i)' = Before(i) \cup {r}
      <3>1. Before(i + 1) = Before(i) \cup {r}
        BY <1>2 DEF Before, CurrentResource
      <3> QED
        BY <3>1, <1>1 DEF Before
    <2>2. ASSUME NEW o
          PROVE  NamesSoFar(o)' = NamesSoFar(o)
      <3>1. UNION {Yields(policies, request, x, o) : x \in seen'}
              = (UNION {Yields(policies, request, x, o) : x \in seen}) \cup PassedSoFar(o)
        BY <1>1, <1>3
      <3> QED
        BY <3>1, <1>1 DEF NamesSoFar, NamesAmong
    <2> QED
      BY <1>1, <2>1, <2>2 DEF Progress, InLoop
  <1>9. GrantIsWhatMatchedSoFar' /\ grant' \in Canonical
    BY <1>1 DEF GrantIsWhatMatchedSoFar
  <1> QED
    BY <1>6, <1>7, <1>8, <1>9

LEMMA NextInvariant == IInv /\ [Next]_vars => IInv'
PROOF
  <1> SUFFICES ASSUME IInv, [Next]_vars
               PROVE  IInv'
    OBVIOUS
  <1>1. CASE UNCHANGED vars
    <2>1. /\ policies' = policies /\ request' = request /\ verdict' = verdict /\ pc' = pc
          /\ i' = i /\ j' = j /\ covered' = covered /\ grant' = grant /\ seen' = seen
          /\ grants' = grants /\ uncovered' = uncovered
          /\ matched' = matched /\ skipped' = skipped
      BY <1>1 DEF vars, loopVars
    <2>2. \A o : PassedSoFar(o)' = PassedSoFar(o)
      BY <2>1 DEF PassedSoFar, Policies, CurrentResource
    <2>3. TypeOK'
      BY <2>1 DEF IInv, TypeOK, Policies
    <2>4. GrantIsWhatMatchedSoFar' /\ GrantsAreSeparate'
      BY <2>1, <2>2 DEF IInv, GrantIsWhatMatchedSoFar, GrantsAreSeparate
    <2>5. Progress'
      BY <2>1, <2>2 DEF IInv, Progress, AtStart, InLoop, Before, NamesSoFar, CurrentResource
    <2> QED
      BY <2>1, <2>3, <2>4, <2>5 DEF IInv
  <1>2. CASE Next
    BY <1>2, OuterSteps, InnerSteps, CommitStep DEF Next
  <1> QED
    BY <1>1, <1>2
-----------------------------------------------------------------------------
\* The invariant holds throughout an evaluation.
THEOREM InvariantHolds == Spec => []IInv
  BY InitInvariant, NextInvariant, PTL DEF Spec

\* Types are kept.
THEOREM TypeCorrect == Spec => []TypeOK
PROOF
  <1>1. IInv => TypeOK
    BY DEF IInv
  <1> QED
    BY <1>1, InvariantHolds, PTL

\* The accumulated grant is at all times what the policies matching the current
\* resource give.
THEOREM GrantIsExact == Spec => []GrantIsWhatMatchedSoFar
PROOF
  <1>1. IInv => GrantIsWhatMatchedSoFar
    BY DEF IInv
  <1> QED
    BY <1>1, InvariantHolds, PTL

\* Grants never combine across resources.
THEOREM GrantsStaySeparate == Spec => []GrantsAreSeparate
PROOF
  <1>1. IInv => GrantsAreSeparate
    BY DEF IInv
  <1> QED
    BY <1>1, InvariantHolds, PTL
-----------------------------------------------------------------------------
\* At the end of the loops the engine's sets are those of the decision.
LEMMA FinishDecides ==
    ASSUME IInv, Finish
    PROVE  Decide
PROOF
  <1> USE DEF IInv
  <1>1. /\ pc = "resource" /\ i > Len(request.resources)
        /\ verdict' = Decided(Allowed, uncovered, matched, skipped)
        /\ UNCHANGED <<policies, request>>
    BY DEF Finish
  <1>2. /\ ~Oversized(request) /\ seen = Before(i) /\ verdict = Pending
        /\ matched = NamesSoFar("true") /\ skipped = NamesSoFar("error")
    BY <1>1 DEF Progress, InLoop
  <1>3. seen = Range(request.resources)
    <2>1. Len(request.resources) \in Nat /\ i = Len(request.resources) + 1
      BY <1>1, InputTypes DEF TypeOK
    <2>2. 1 .. i - 1 = DOMAIN request.resources
      BY <2>1, InputTypes
    <2> QED
      BY <1>2, <2>2 DEF Before, Range
  <1>4. uncovered = UncoveredOf(policies, request)
    BY <1>3 DEF TypeOK, GrantsAreSeparate, UncoveredOf
  <1>5. \A o : NamesSoFar(o) = NamesYielding(policies, request, o)
    BY <1>1, <1>3 DEF NamesSoFar, NamesAmong, NamesYielding
  <1>6. Allowed <=> Range(request.resources) # {} /\ UncoveredOf(policies, request) = {}
    BY <1>3, <1>4 DEF Allowed
  <1>7. Allowed = (Range(request.resources) # {} /\ UncoveredOf(policies, request) = {})
    BY <1>6 DEF Allowed
  <1>8. verdict' = Verdict(policies, request)
    BY <1>1, <1>2, <1>4, <1>5, <1>7 DEF Verdict
  <1> QED
    BY <1>1, <1>2, <1>8 DEF Decide

\* Every step of the loops is a step of the decision or leaves it alone.
LEMMA StepImplements == IInv /\ [Next]_vars => [DecisionNext]_decisionVars
PROOF
  <1> SUFFICES ASSUME IInv, [Next]_vars
               PROVE  [DecisionNext]_decisionVars
    OBVIOUS
  <1>1. CASE RejectOversized
    BY <1>1 DEF RejectOversized, ExceedsCap, Oversized, Reject, DecisionNext, IInv, Progress
  <1>2. CASE Finish
    BY <1>2, FinishDecides DEF DecisionNext
  <1>3. CASE AcceptSize \/ SkipDuplicate \/ StartResource
    BY <1>3 DEF AcceptSize, SkipDuplicate, StartResource, decisionVars
  <1>4. CASE SkipPolicy \/ PassPolicy \/ MatchPolicy \/ CommitResource
    BY <1>4 DEF SkipPolicy, PassPolicy, MatchPolicy, CommitResource, decisionVars
  <1>5. CASE UNCHANGED vars
    BY <1>5 DEF vars, decisionVars
  <1> QED
    BY <1>1, <1>2, <1>3, <1>4, <1>5 DEF Next

\* Evaluate implements the one-step decision made from sets: the order of the
\* policies and of the resources, duplicates and failing conditions included.
THEOREM EngineImplementsDecision == Spec => ImplementsDecision
PROOF
  <1>1. Init => DecisionInit
    BY DEF Init, DecisionInit
  <1> QED
    BY <1>1, StepImplements, InvariantHolds, PTL DEF Spec, ImplementsDecision, DecisionSpec
-----------------------------------------------------------------------------
(* The evaluation ends: it has only so many steps left.                    *)

\* For each resource a step per policy, one before them and one after.
PerResource == Len(Policies) + 2
ResourcesFrom(n) == Len(request.resources) + 1 - n

StepsLeft ==
    CASE pc = "caps"     -> Len(request.resources) * PerResource + 2
      [] pc = "resource" -> ResourcesFrom(i) * PerResource + 1
      [] pc = "policy"   -> ResourcesFrom(i + 1) * PerResource + Len(Policies) + 3 - j
      [] OTHER           -> 0

LEMMA OneResourceLess ==
    ASSUME NEW m \in Nat, NEW c \in Nat
    PROVE  m * c \in Nat /\ (m + 1) * c = m * c + c
  OBVIOUS

LEMMA OneFromLess ==
    ASSUME NEW l \in Nat, NEW n \in 1 .. l + 1
    PROVE  /\ l + 1 - n \in Nat
           /\ n <= l => l + 1 - (n + 1) \in Nat /\ l + 1 - n = (l + 1 - (n + 1)) + 1
  OBVIOUS

\* What is left is a number, even inside the loops.
LEMMA LeftToDo ==
    ASSUME IInv
    PROVE  /\ Len(Policies) \in Nat /\ Len(request.resources) \in Nat
           /\ PerResource \in Nat
           /\ ResourcesFrom(i) \in Nat
           /\ pc = "policy" => ResourcesFrom(i + 1) \in Nat
           /\ StepsLeft \in Nat
PROOF
  <1>1. Len(Policies) \in Nat /\ Len(request.resources) \in Nat
    BY InputTypes DEF IInv
  <1>2. i \in 1 .. Len(request.resources) + 1 /\ j \in 1 .. Len(Policies) + 1
        /\ (pc = "policy" => i <= Len(request.resources))
        /\ pc \in {"caps", "resource", "policy", "done"}
    BY DEF IInv, TypeOK
  <1>3. /\ PerResource \in Nat /\ ResourcesFrom(i) \in Nat
        /\ pc = "policy" => ResourcesFrom(i + 1) \in Nat
    <2>1. PerResource \in Nat
      BY <1>1 DEF PerResource
    <2>2. ResourcesFrom(i) \in Nat
      BY <1>1, <1>2, OneFromLess DEF ResourcesFrom
    <2>3. i <= Len(request.resources) => ResourcesFrom(i + 1) \in Nat
      BY <1>1, <1>2, OneFromLess DEF ResourcesFrom
    <2> QED
      BY <1>2, <2>1, <2>2, <2>3
  <1>4. /\ Len(request.resources) * PerResource \in Nat
        /\ ResourcesFrom(i) * PerResource \in Nat
        /\ pc = "policy" => ResourcesFrom(i + 1) * PerResource \in Nat
    BY <1>1, <1>3, OneResourceLess
  <1> HIDE DEF PerResource, ResourcesFrom
  <1>5. StepsLeft \in Nat
    <2>1. CASE pc = "caps"
      <3>1. StepsLeft = Len(request.resources) * PerResource + 2
        BY <2>1 DEF StepsLeft
      <3> QED
        BY <1>4, <3>1
    <2>2. CASE pc = "resource"
      <3>1. StepsLeft = ResourcesFrom(i) * PerResource + 1
        BY <2>2 DEF StepsLeft
      <3> QED
        BY <1>4, <3>1
    <2>3. CASE pc = "policy"
      <3>1. StepsLeft = ResourcesFrom(i + 1) * PerResource + Len(Policies) + 3 - j
        BY <2>3 DEF StepsLeft
      <3>2. \A n \in Nat : n + Len(Policies) + 3 - j \in Nat
        BY <1>1, <1>2
      <3> QED
        BY <1>4, <2>3, <3>1, <3>2
    <2>4. CASE pc = "done"
      BY <2>4 DEF StepsLeft
    <2> QED
      BY <1>2, <2>1, <2>2, <2>3, <2>4
  <1> QED
    BY <1>1, <1>3, <1>5

LEMMA StepIsOneLess == IInv /\ Next => StepsLeft' < StepsLeft
PROOF
  <1> SUFFICES ASSUME IInv, Next
               PROVE  StepsLeft' < StepsLeft
    OBVIOUS
  <1>1. Len(Policies) \in Nat /\ Len(request.resources) \in Nat /\ PerResource \in Nat
        /\ ResourcesFrom(i) \in Nat /\ StepsLeft \in Nat
        /\ (pc = "policy" => ResourcesFrom(i + 1) \in Nat)
    BY LeftToDo
  <1>2. i \in 1 .. Len(request.resources) + 1 /\ j \in 1 .. Len(Policies) + 1
    BY DEF IInv, TypeOK
  <1>3. policies' = policies /\ request' = request
    BY DEF Next, RejectOversized, AcceptSize, SkipDuplicate, StartResource, SkipPolicy,
           PassPolicy, MatchPolicy, CommitResource, Finish
  <1>4. Policies' = Policies /\ PerResource' = PerResource
        /\ \A n : ResourcesFrom(n)' = ResourcesFrom(n)
    BY <1>3 DEF Policies, PerResource, ResourcesFrom
  <1>5. PerResource = Len(Policies) + 2
    BY DEF PerResource
  <1>6. CASE RejectOversized
    <2>1. pc = "caps" /\ pc' = "done"
      BY <1>6 DEF RejectOversized
    <2>2. StepsLeft' = 0 /\ StepsLeft = Len(request.resources) * PerResource + 2
      BY <2>1 DEF StepsLeft
    <2>3. Len(request.resources) * PerResource \in Nat
      BY <1>1, OneResourceLess
    <2> QED
      BY <2>2, <2>3
  <1>7. CASE AcceptSize
    <2>1. pc = "caps" /\ pc' = "resource" /\ i' = i
      BY <1>7 DEF AcceptSize, loopVars
    <2>2. i = 1
      BY <2>1 DEF IInv, Progress, AtStart
    <2>3. ResourcesFrom(i) = Len(request.resources)
      BY <1>1, <2>2 DEF ResourcesFrom
    <2>4. StepsLeft' = ResourcesFrom(i) * PerResource + 1
          /\ StepsLeft = Len(request.resources) * PerResource + 2
      BY <1>3, <1>4, <2>1 DEF StepsLeft
    <2>5. Len(request.resources) * PerResource \in Nat
      BY <1>1, OneResourceLess
    <2> QED
      BY <2>3, <2>4, <2>5
  <1>8. CASE SkipDuplicate
    <2>1. pc = "resource" /\ pc' = pc /\ i' = i + 1 /\ i <= Len(request.resources)
      BY <1>8 DEF SkipDuplicate
    <2>2. ResourcesFrom(i + 1) \in Nat /\ ResourcesFrom(i) = ResourcesFrom(i + 1) + 1
      BY <1>1, <1>2, <2>1, OneFromLess DEF ResourcesFrom
    <2>3. StepsLeft' = ResourcesFrom(i + 1) * PerResource + 1
          /\ StepsLeft = ResourcesFrom(i) * PerResource + 1
      BY <1>4, <2>1 DEF StepsLeft
    <2>4. ResourcesFrom(i) * PerResource = ResourcesFrom(i + 1) * PerResource + PerResource
          /\ ResourcesFrom(i + 1) * PerResource \in Nat
      BY <1>1, <2>2, OneResourceLess
    <2> QED
      BY <1>1, <1>5, <2>3, <2>4
  <1>9. CASE StartResource
    <2>1. pc = "resource" /\ pc' = "policy" /\ i' = i /\ j' = 1 /\ i <= Len(request.resources)
      BY <1>9 DEF StartResource
    <2>2. ResourcesFrom(i + 1) \in Nat /\ ResourcesFrom(i) = ResourcesFrom(i + 1) + 1
      BY <1>1, <1>2, <2>1, OneFromLess DEF ResourcesFrom
    <2>3. StepsLeft' = ResourcesFrom(i + 1) * PerResource + Len(Policies) + 3 - 1
          /\ StepsLeft = ResourcesFrom(i) * PerResource + 1
      BY <1>4, <2>1 DEF StepsLeft
    <2>4. ResourcesFrom(i) * PerResource = ResourcesFrom(i + 1) * PerResource + PerResource
          /\ ResourcesFrom(i + 1) * PerResource \in Nat
      BY <1>1, <2>2, OneResourceLess
    <2> QED
      BY <1>1, <1>5, <2>3, <2>4
  <1>10. CASE SkipPolicy \/ PassPolicy \/ MatchPolicy
    <2>1. pc = "policy" /\ pc' = pc /\ i' = i /\ j' = j + 1
      BY <1>10 DEF SkipPolicy, PassPolicy, MatchPolicy, MorePolicies
    <2>2. StepsLeft' = ResourcesFrom(i + 1) * PerResource + Len(Policies) + 3 - (j + 1)
          /\ StepsLeft = ResourcesFrom(i + 1) * PerResource + Len(Policies) + 3 - j
      BY <1>4, <2>1 DEF StepsLeft
    <2>3. ResourcesFrom(i + 1) * PerResource \in Nat
      BY <1>1, <2>1, OneResourceLess
    <2> QED
      BY <1>1, <1>2, <2>2, <2>3
  <1>11. CASE CommitResource
    <2>1. pc = "policy" /\ pc' = "resource" /\ i' = i + 1 /\ j > Len(Policies)
      BY <1>11 DEF CommitResource
    <2>2. StepsLeft' = ResourcesFrom(i + 1) * PerResource + 1
          /\ StepsLeft = ResourcesFrom(i + 1) * PerResource + Len(Policies) + 3 - j
      BY <1>4, <2>1 DEF StepsLeft
    <2>3. ResourcesFrom(i + 1) * PerResource \in Nat
      BY <1>1, <2>1, OneResourceLess
    <2>4. j = Len(Policies) + 1
      BY <1>1, <1>2, <2>1
    <2> QED
      BY <1>1, <2>2, <2>3, <2>4
  <1>12. CASE Finish
    <2>1. pc = "resource" /\ pc' = "done"
      BY <1>12 DEF Finish
    <2>2. StepsLeft' = 0 /\ StepsLeft = ResourcesFrom(i) * PerResource + 1
      BY <2>1 DEF StepsLeft
    <2>3. ResourcesFrom(i) * PerResource \in Nat
      BY <1>1, OneResourceLess
    <2> QED
      BY <2>2, <2>3
  <1> QED
    BY <1>6, <1>7, <1>8, <1>9, <1>10, <1>11, <1>12 DEF Next

\* Evaluate cannot go on for ever: every step of its loops leaves fewer to do,
\* at most Len(policies) + 2 for each resource of the list and 2 besides.  So
\* the cap on the list bounds the work of a request.
THEOREM EvaluationIsBounded ==
    Spec => [](StepsLeft \in Nat) /\ [][StepsLeft' < StepsLeft]_vars
PROOF
  <1>1. IInv => StepsLeft \in Nat
    BY LeftToDo
  <1>2. IInv /\ [Next]_vars => [StepsLeft' < StepsLeft]_vars
    BY StepIsOneLess
  <1> QED
    BY <1>1, <1>2, InvariantHolds, PTL DEF Spec
-----------------------------------------------------------------------------
(* What Evaluate returns, and laws of it that an operator relies on.       *)

ReturnsDecision ==
    /\ pc = "done" <=> verdict # Pending
    /\ verdict # Pending =>
          verdict = IF Oversized(request) THEN Rejected ELSE Verdict(policies, request)

LEMMA PendingIsNoAnswer == Pending # Rejected /\ \A a, u, m, s : Decided(a, u, m, s) # Pending
  BY DEF Pending, Rejected, Decided

LEMMA ReturnsStep ==
    ASSUME IInv, ReturnsDecision, [Next]_vars
    PROVE  ReturnsDecision'
PROOF
  <1>1. CASE RejectOversized
    BY <1>1, PendingIsNoAnswer DEF RejectOversized, ExceedsCap, Oversized, ReturnsDecision
  <1>2. CASE Finish
    <2>1. Decide /\ pc' = "done"
      BY <1>2, FinishDecides DEF Finish
    <2>2. Verdict(policies, request) # Pending
      BY PendingIsNoAnswer DEF Verdict
    <2>3. Verdict(policies, request)' = Verdict(policies, request)
          /\ Oversized(request)' = Oversized(request)
      BY <2>1 DEF Decide, Verdict, Oversized, UncoveredOf, NamesYielding, IsCovered, Yields,
                  Held, Evaluated
    <2> QED
      BY <2>1, <2>2, <2>3 DEF Decide, ReturnsDecision
  <1>3. ASSUME UNCHANGED <<policies, request, verdict>>, pc # "done", pc' # "done"
        PROVE  ReturnsDecision'
    BY <1>3 DEF ReturnsDecision, Verdict, Oversized, UncoveredOf, NamesYielding, IsCovered,
                Yields, Held, Evaluated
  <1>4. CASE AcceptSize \/ SkipDuplicate \/ StartResource \/ SkipPolicy \/ PassPolicy
             \/ MatchPolicy \/ CommitResource
    BY <1>3, <1>4 DEF AcceptSize, SkipDuplicate, StartResource, SkipPolicy, PassPolicy,
                      MatchPolicy, CommitResource, MorePolicies
  <1>5. CASE UNCHANGED vars
    BY <1>5 DEF vars, ReturnsDecision, Verdict, Oversized, UncoveredOf, NamesYielding,
                IsCovered, Yields, Held, Evaluated
  <1> QED
    BY <1>1, <1>2, <1>4, <1>5 DEF Next

\* What Evaluate returns depends on the caller's own policies as a set and on
\* the resources as a set, and on the length of the list only when it is over
\* the cap: two evaluations of the same request agree, whatever the loops did.
THEOREM EvaluateReturnsDecision == Spec => []ReturnsDecision
PROOF
  <1>1. Init => ReturnsDecision
    BY DEF Init, ReturnsDecision
  <1> QED
    BY <1>1, ReturnsStep, InvariantHolds, PTL DEF Spec

Loaded == [Issuer -> Seq(Policy)]
Allows(pols, rq) == Verdict(pols, rq).allowed

LEMMA AllowsIs ==
    ASSUME NEW pols \in Loaded, NEW rq \in Request
    PROVE  /\ Allows(pols, rq) <=> /\ Range(rq.resources) # {}
                                   /\ \A r \in Range(rq.resources) : IsCovered(pols, rq, r)
           /\ Evaluated(pols, rq) \subseteq Policy
           /\ rq.required \in PermissionMap
PROOF
  <1>1. Allows(pols, rq) <=> Range(rq.resources) # {} /\ UncoveredOf(pols, rq) = {}
    BY DEF Allows, Verdict, Decided
  <1>2. pols[rq.issuer] \in Seq(Policy) /\ rq.required \in PermissionMap
    BY DEF Loaded, Request
  <1>3. Evaluated(pols, rq) \subseteq Policy
    BY <1>2 DEF Evaluated, Range
  <1> QED
    BY <1>1, <1>2, <1>3 DEF UncoveredOf

\* What is held on a resource grows with the policies.
LEMMA HeldGrows ==
    ASSUME NEW pols, NEW more, NEW rq, NEW r,
           Evaluated(pols, rq) \subseteq Evaluated(more, rq), IsCovered(pols, rq, r)
    PROVE  IsCovered(more, rq, r)
PROOF
  <1>1. Yields(pols, rq, r, "true") \subseteq Yields(more, rq, r, "true")
    BY DEF Yields
  <1>2. Held(pols, rq, r) \subseteq Held(more, rq, r)
    BY <1>1 DEF Held
  <1> QED
    BY <1>1, <1>2 DEF IsCovered

\* A policy added to a configuration takes nothing away: there are no denying
\* policies, and none that hides another, wherever in the list it stands.
THEOREM PoliciesOnlyAdd ==
    ASSUME NEW pols \in Loaded, NEW more \in Loaded, NEW rq \in Request,
           Range(pols[rq.issuer]) \subseteq Range(more[rq.issuer]),
           Allows(pols, rq)
    PROVE  Allows(more, rq)
PROOF
  <1>1. Evaluated(pols, rq) \subseteq Evaluated(more, rq)
    BY DEF Evaluated
  <1> QED
    BY <1>1, AllowsIs, HeldGrows

\* A list is allowed exactly when each of its resources is allowed alone: no
\* resource helps another, and splitting a request gains nothing.
THEOREM ListsAreAllowedByResource ==
    ASSUME NEW pols \in Loaded, NEW rq \in Request
    PROVE  Allows(pols, rq) <=>
              /\ rq.resources # <<>>
              /\ \A n \in DOMAIN rq.resources :
                    Allows(pols, [rq EXCEPT !.resources = <<rq.resources[n]>>])
PROOF
  <1> DEFINE alone(n) == [rq EXCEPT !.resources = <<rq.resources[n]>>]
  <1>1. rq.resources \in Seq(Resource)
    BY DEF Request
  <1>2. ASSUME NEW n \in DOMAIN rq.resources
        PROVE  Allows(pols, alone(n)) <=> IsCovered(pols, rq, rq.resources[n])
    <2>1. rq.resources[n] \in Resource
      BY <1>1
    <2>2. alone(n) \in Request /\ alone(n).resources = <<rq.resources[n]>>
      <3>1. \A r \in Resource : <<r>> \in Seq(Resource)
        OBVIOUS
      <3>2. \A list \in Seq(Resource) :
                [rq EXCEPT !.resources = list] \in Request
                  /\ [rq EXCEPT !.resources = list].resources = list
        BY DEF Request
      <3> QED
        BY <2>1, <3>1, <3>2
    <2>3. Range(alone(n).resources) = {rq.resources[n]}
      BY <2>1, <2>2 DEF Range
    <2>4. /\ alone(n).issuer = rq.issuer /\ alone(n).caller = rq.caller
          /\ alone(n).required = rq.required
      BY DEF Request
    <2> HIDE DEF alone
    <2>5. IsCovered(pols, alone(n), rq.resources[n]) <=> IsCovered(pols, rq, rq.resources[n])
      BY <2>4 DEF IsCovered, Yields, Held, Evaluated
    <2> QED
      BY <2>2, <2>3, <2>5, AllowsIs
  <1>3. Range(rq.resources) # {} <=> rq.resources # <<>>
    <2>1. \A list \in Seq(Resource) : list = <<>> <=> DOMAIN list = {}
      OBVIOUS
    <2>2. \A list : Range(list) = {} <=> DOMAIN list = {}
      BY DEF Range
    <2> QED
      BY <1>1, <2>1, <2>2
  <1>4. (\A r \in Range(rq.resources) : IsCovered(pols, rq, r))
            <=> \A n \in DOMAIN rq.resources : IsCovered(pols, rq, rq.resources[n])
    BY DEF Range
  <1> HIDE DEF alone
  <1>5. Allows(pols, rq) <=> /\ rq.resources # <<>>
                             /\ \A n \in DOMAIN rq.resources : Allows(pols, alone(n))
    BY <1>2, <1>3, <1>4, AllowsIs
  <1> USE DEF alone
  <1> QED
    BY <1>5

\* Who may have more may have less: a caller allowed one scope on a list is
\* allowed every understood scope within its authority on every part of it.
THEOREM LessIsAllowed ==
    ASSUME NEW pols \in Loaded, NEW rq \in Request, NEW less \in Request,
           less.issuer = rq.issuer, less.caller = rq.caller,
           Range(less.resources) # {}, Range(less.resources) \subseteq Range(rq.resources),
           Understood(less.required),
           Authority(less.required) \subseteq Authority(rq.required),
           Allows(pols, rq)
    PROVE  Allows(pols, less)
PROOF
  <1>1. ASSUME NEW r \in Range(less.resources)
        PROVE  IsCovered(pols, less, r)
    <2>1. IsCovered(pols, rq, r)
      BY AllowsIs
    <2>2. Yields(pols, less, r, "true") = Yields(pols, rq, r, "true")
          /\ Held(pols, less, r) = Held(pols, rq, r)
      BY DEF Yields, Held, Evaluated
    <2> QED
      BY <2>1, <2>2 DEF IsCovered
  <1> QED
    BY <1>1, AllowsIs

\* A policy whose condition says false where it fails.
FailsClosed(p) ==
    [p EXCEPT !.outcome = [cr \in Caller \X Resource |->
        IF p.outcome[cr] = "error" THEN "false" ELSE p.outcome[cr]]]

LEMMA FailsClosedYields ==
    ASSUME NEW pols \in Loaded, NEW tame \in Loaded, NEW rq \in Request,
           Range(tame[rq.issuer]) = {FailsClosed(p) : p \in Range(pols[rq.issuer])},
           NEW r \in Resource
    PROVE  /\ Yields(tame, rq, r, "true")
                  = {FailsClosed(p) : p \in Yields(pols, rq, r, "true")}
           /\ Yields(tame, rq, r, "error") = {}
PROOF
  <1>1. <<rq.caller, r>> \in Caller \X Resource
    BY DEF Request
  <1>2. Evaluated(pols, rq) \subseteq Policy
    BY AllowsIs
  <1>3. ASSUME NEW p \in Policy
        PROVE  /\ FailsClosed(p).outcome[<<rq.caller, r>>] = "true"
                      <=> p.outcome[<<rq.caller, r>>] = "true"
               /\ FailsClosed(p).outcome[<<rq.caller, r>>] # "error"
    <2>1. FailsClosed(p).outcome = [cr \in Caller \X Resource |->
              IF p.outcome[cr] = "error" THEN "false" ELSE p.outcome[cr]]
      BY DEF FailsClosed, Policy
    <2>2. FailsClosed(p).outcome[<<rq.caller, r>>]
              = IF p.outcome[<<rq.caller, r>>] = "error" THEN "false"
                ELSE p.outcome[<<rq.caller, r>>]
      BY <1>1, <2>1, Zenon
    <2> QED
      BY <2>2
  <1> QED
    BY <1>2, <1>3 DEF Yields, Evaluated

\* A condition that fails at run time is worth as much as one that is false: a
\* configuration whose failing conditions say false instead decides alike and
\* names the same policies as matched.  Only the skipped ones are told apart.
THEOREM FailingConditionsGrantNothing ==
    ASSUME NEW pols \in Loaded, NEW tame \in Loaded, NEW rq \in Request,
           Range(tame[rq.issuer]) = {FailsClosed(p) : p \in Range(pols[rq.issuer])}
    PROVE  /\ Verdict(tame, rq).allowed = Verdict(pols, rq).allowed
           /\ Verdict(tame, rq).uncovered = Verdict(pols, rq).uncovered
           /\ Verdict(tame, rq).matched = Verdict(pols, rq).matched
           /\ Verdict(tame, rq).skipped = {}
PROOF
  <1>1. rq.resources \in Seq(Resource) /\ Range(rq.resources) \subseteq Resource
    BY DEF Request, Range
  <1>2. ASSUME NEW p \in Policy
        PROVE  FailsClosed(p).grant = p.grant /\ FailsClosed(p).name = p.name
    BY DEF FailsClosed, Policy
  <1>3. Evaluated(pols, rq) \subseteq Policy
    BY AllowsIs
  <1>4. ASSUME NEW r \in Range(rq.resources)
        PROVE  /\ Held(tame, rq, r) = Held(pols, rq, r)
               /\ IsCovered(tame, rq, r) <=> IsCovered(pols, rq, r)
    <2>1. /\ Yields(tame, rq, r, "true")
                 = {FailsClosed(p) : p \in Yields(pols, rq, r, "true")}
          /\ Yields(pols, rq, r, "true") \subseteq Policy
      BY <1>1, <1>3, FailsClosedYields DEF Yields
    <2>2. Held(tame, rq, r) = Held(pols, rq, r)
      BY <1>2, <2>1 DEF Held
    <2> QED
      BY <2>1, <2>2 DEF IsCovered
  <1>5. UncoveredOf(tame, rq) = UncoveredOf(pols, rq)
    BY <1>4 DEF UncoveredOf
  <1>6. NamesYielding(tame, rq, "true") = NamesYielding(pols, rq, "true")
    <2>1. ASSUME NEW r \in Range(rq.resources)
          PROVE  /\ Yields(tame, rq, r, "true")
                        = {FailsClosed(p) : p \in Yields(pols, rq, r, "true")}
                 /\ Yields(pols, rq, r, "true") \subseteq Policy
      BY <1>1, <1>3, FailsClosedYields DEF Yields
    <2> QED
      BY <1>2, <2>1 DEF NamesYielding
  <1>7. NamesYielding(tame, rq, "error") = {}
    BY <1>1, FailsClosedYields DEF NamesYielding
  <1> QED
    BY <1>5, <1>6, <1>7 DEF Verdict, Decided
==============================================================================
